------------------------- MODULE GeneratedRunProofs -------------------------
(***************************************************************************)
(* Proofs about generated runs.  First the plans: _topological_depths      *)
(* orders the nodes of an acyclic graph behind their dependencies, and the *)
(* PlanIR built in that order reads back as the fragment it was built      *)
(* from.  Then GeneratedRun: whatever the planner returns, and whatever    *)
(* peers, commands and crashes do meanwhile, the children of a run are the *)
(* plan that was approved, they start from accepted results, and the run   *)
(* succeeds only with its proof of execution.  Last, the validator: what   *)
(* its rounds and sums find, told by the walks of the graph, and that it   *)
(* lets exactly the fragments of the reference pass.                       *)
(***************************************************************************)
EXTENDS GeneratedRun, SetLemmas, FiniteSetTheorems, TLAPS

-----------------------------------------------------------------------------
(***************************************************************************)
(* Sequences.                                                              *)
(***************************************************************************)

\* Taking the last of distinct members leaves the others, each still once.
LEMMA FrontLast ==
  ASSUME NEW S, NEW s \in Seq(S), s # <<>>, IsInjective(s)
  PROVE  /\ Front(s) \in Seq(S) /\ IsInjective(Front(s))
         /\ Last(s) \in S /\ Last(s) \in ToSet(s)
         /\ ToSet(Front(s)) = ToSet(s) \ {Last(s)}
<1>1. Len(s) \in Nat \ {0} /\ DOMAIN s = 1 .. Len(s) OBVIOUS
<1>2. /\ Front(s) \in Seq(S) /\ Len(Front(s)) = Len(s) - 1
      /\ \A i \in 1 .. (Len(s) - 1) : Front(s)[i] = s[i]
  BY <1>1 DEF Front
<1>3. DOMAIN Front(s) = 1 .. (Len(s) - 1) BY <1>1, <1>2
<1>4. Last(s) = s[Len(s)] /\ Last(s) \in S BY <1>1 DEF Last
<1>5. IsInjective(Front(s)) BY <1>1, <1>2, <1>3 DEF IsInjective
<1>6. ToSet(Front(s)) = ToSet(s) \ {Last(s)}
  BY <1>1, <1>2, <1>3, <1>4 DEF ToSet, IsInjective
<1>7. Last(s) \in ToSet(s) BY <1>1, <1>4 DEF ToSet
<1> QED BY <1>2, <1>4, <1>5, <1>6, <1>7

\* Joining two sequences of distinct members that share none.
LEMMA ConcatSets ==
  ASSUME NEW S, NEW s \in Seq(S), NEW t \in Seq(S),
         IsInjective(s), IsInjective(t), ToSet(s) \cap ToSet(t) = {}
  PROVE  s \o t \in Seq(S) /\ IsInjective(s \o t) /\ ToSet(s \o t) = ToSet(s) \cup ToSet(t)
<1>1. /\ s \o t \in Seq(S) /\ Len(s \o t) = Len(s) + Len(t)
      /\ Len(s) \in Nat /\ Len(t) \in Nat
      /\ DOMAIN s = 1 .. Len(s) /\ DOMAIN t = 1 .. Len(t)
      /\ DOMAIN (s \o t) = 1 .. (Len(s) + Len(t))
  OBVIOUS
<1>2. /\ \A i \in 1 .. Len(s) : (s \o t)[i] = s[i]
      /\ \A i \in 1 .. Len(t) : (s \o t)[Len(s) + i] = t[i]
  OBVIOUS
<1>3. \A i \in DOMAIN (s \o t) :
        \/ i \in 1 .. Len(s)
        \/ i - Len(s) \in 1 .. Len(t) /\ i = Len(s) + (i - Len(s))
  BY <1>1
<1>4. \A i \in DOMAIN s : \A j \in DOMAIN t : s[i] # t[j] BY DEF ToSet
<1>5. IsInjective(s \o t) BY <1>1, <1>2, <1>3, <1>4 DEF IsInjective
<1>6. ToSet(s \o t) = ToSet(s) \cup ToSet(t)
  <2>1. ToSet(s \o t) \subseteq ToSet(s) \cup ToSet(t) BY <1>1, <1>2, <1>3 DEF ToSet
  <2>2. ToSet(s) \subseteq ToSet(s \o t) BY <1>1, <1>2 DEF ToSet
  <2>3. ToSet(t) \subseteq ToSet(s \o t)
    <3>1. \A i \in 1 .. Len(t) : Len(s) + i \in DOMAIN (s \o t) BY <1>1
    <3> QED BY <1>1, <1>2, <3>1, ZenonT(60) DEF ToSet
  <2> QED BY <2>1, <2>2, <2>3
<1> QED BY <1>1, <1>5, <1>6

\* Appending a member that is new.
LEMMA AppendSet ==
  ASSUME NEW S, NEW s \in Seq(S), NEW x \in S, IsInjective(s), x \notin ToSet(s)
  PROVE  /\ Append(s, x) \in Seq(S) /\ IsInjective(Append(s, x))
         /\ ToSet(Append(s, x)) = ToSet(s) \cup {x}
<1>1. /\ Append(s, x) \in Seq(S) /\ Len(Append(s, x)) = Len(s) + 1 /\ Len(s) \in Nat
      /\ DOMAIN s = 1 .. Len(s) /\ DOMAIN Append(s, x) = 1 .. (Len(s) + 1)
      /\ \A i \in 1 .. Len(s) : Append(s, x)[i] = s[i]
      /\ Append(s, x)[Len(s) + 1] = x
  OBVIOUS
<1>2. \A i \in 1 .. (Len(s) + 1) : i \in 1 .. Len(s) \/ i = Len(s) + 1 BY <1>1
<1>3. IsInjective(Append(s, x)) BY <1>1, <1>2 DEF IsInjective, ToSet
<1>4. ToSet(Append(s, x)) = ToSet(s) \cup {x}
  <2>1. Len(s) + 1 \in 1 .. (Len(s) + 1) /\ (\A i \in 1 .. Len(s) : i \in 1 .. (Len(s) + 1))
    BY <1>1
  <2> QED BY <1>1, <1>2, <2>1 DEF ToSet
<1> QED BY <1>1, <1>3, <1>4

\* Descending lists each number of a finite set once.
LEMMA DescendingOf ==
  ASSUME NEW S \in SUBSET Nat, IsFiniteSet(S)
  PROVE  Descending(S) \in Seq(S) /\ IsInjective(Descending(S)) /\ ToSet(Descending(S)) = S
<1> DEFINE n == Cardinality(S)
           Above(x) == {y \in S : y >= x}
           rank == [x \in S |-> Cardinality(Above(x))]
<1>1. n \in Nat BY FS_CardinalityType
<1>2. \A x \in S : IsFiniteSet(Above(x)) /\ Cardinality(Above(x)) \in 1 .. n
  <2> SUFFICES ASSUME NEW x \in S
               PROVE  IsFiniteSet(Above(x)) /\ Cardinality(Above(x)) \in 1 .. n
    OBVIOUS
  <2>1. Above(x) \in SUBSET S /\ x \in Above(x) OBVIOUS
  <2> HIDE DEF Above
  <2>2. IsFiniteSet(Above(x)) /\ Cardinality(Above(x)) <= n BY <2>1, FS_Subset
  <2>3. Cardinality(Above(x)) \in Nat /\ Cardinality(Above(x)) # 0
    BY <2>1, <2>2, FS_CardinalityType, FS_EmptySet
  <2> QED BY <1>1, <2>2, <2>3
<1>3. \A x, y \in S : x < y => Cardinality(Above(x)) # Cardinality(Above(y))
  <2> SUFFICES ASSUME NEW x \in S, NEW y \in S, x < y
               PROVE  Cardinality(Above(x)) # Cardinality(Above(y))
    OBVIOUS
  <2>1. Above(y) \in SUBSET Above(x) /\ x \in Above(x) /\ x \notin Above(y)
    <3>1. \A z \in S : z >= y => z >= x OBVIOUS
    <3>2. x >= x /\ ~(x >= y) OBVIOUS
    <3> QED BY <3>1, <3>2
  <2>2. IsFiniteSet(Above(x)) BY <1>2
  <2> HIDE DEF Above
  <2> QED BY <2>1, <2>2, FS_Subset
<1>4. \A x, y \in S : rank[x] = rank[y] => x = y
  <2>1. \A x, y \in S : x # y => x < y \/ y < x OBVIOUS
  <2> QED BY <1>3, <2>1
<1>5. rank \in [S -> 1 .. n] BY <1>2
<1>6. IsFiniteSet(1 .. n) /\ Cardinality(1 .. n) = n BY <1>1, FS_Interval
<1>7. rank \in Surjection(S, 1 .. n)
  <2>1. rank \in Injection(S, 1 .. n) BY <1>4, <1>5 DEF Injection, IsInjective
  <2> HIDE DEF rank
  <2> QED BY <1>6, <2>1, FS_Injection
<1>8. \A i \in 1 .. n : \E x \in S : rank[x] = i BY <1>7 DEF Surjection, Range
<1> DEFINE d == Descending(S)
<1>9. DOMAIN d = 1 .. n BY DEF Descending
<1>10. \A i \in 1 .. n : d[i] \in S /\ rank[d[i]] = i
  <2>1. \A i \in 1 .. n : d[i] = CHOOSE x \in S : Cardinality(Above(x)) = i BY DEF Descending
  <2> QED BY <1>8, <2>1, ZenonT(60)
<1>11. d \in [1 .. n -> S] BY <1>10 DEF Descending
<1> HIDE DEF d, rank, n
<1>12. IsInjective(d) BY <1>9, <1>10 DEF IsInjective
<1>13. \A x \in S : d[rank[x]] = x BY <1>4, <1>5, <1>10
<1>14. ToSet(d) = S
  <2>1. ToSet(d) \subseteq S BY <1>9, <1>10 DEF ToSet
  <2>2. ASSUME NEW x \in S PROVE x \in ToSet(d)
    <3>1. rank[x] \in DOMAIN d /\ d[rank[x]] = x BY <1>5, <1>9, <1>13
    <3> QED BY <3>1 DEF ToSet
  <2> QED BY <2>1, <2>2
<1>15. d \in Seq(S) BY <1>1, <1>11
<1> QED BY <1>12, <1>14, <1>15 DEF d

-----------------------------------------------------------------------------
(***************************************************************************)
(* The rounds of _topological_depths.                                      *)
(***************************************************************************)

NextRound(deps, s) == IF s.ready = <<>> THEN s ELSE TakeReady(deps, s)

\* g is what the first n rounds compute.
Computes(g, deps, n) ==
  /\ g[0] = Unsorted(deps)
  /\ \A i \in 1 .. n : g[i] = NextRound(deps, g[i - 1])

\* Rounds starts with Unsorted, and each round takes a ready node if there is one:
\* for every number of rounds there is one computation of that many.
LEMMA RoundsUnfold ==
  ASSUME NEW deps
  PROVE  /\ Rounds(deps)[0] = Unsorted(deps)
         /\ \A n \in Nat : Rounds(deps)[n + 1] = NextRound(deps, Rounds(deps)[n])
<1>1. \A n \in Nat : \E g : Computes(g, deps, n)
  <2> DEFINE Missing == {n \in Nat : ~ \E g : Computes(g, deps, n)}
  <2> SUFFICES ASSUME Missing # {} PROVE FALSE OBVIOUS
  <2>1. PICK n \in Missing : \A m \in Missing : n <= m
    <3>1. Missing \in SUBSET Nat OBVIOUS
    <3> HIDE DEF Missing
    <3> QED BY <3>1, NatMin
  <2>2. CASE n = 0
    <3>1. Computes([i \in {0} |-> Unsorted(deps)], deps, 0) BY DEF Computes
    <3> QED BY <2>1, <2>2, <3>1
  <2>3. CASE n # 0
    <3>1. n - 1 \in Nat /\ ~(n <= n - 1) BY <2>3
    <3>2. PICK g : Computes(g, deps, n - 1) BY <2>1, <3>1
    <3> DEFINE h == [i \in 0 .. n |-> IF i = n THEN NextRound(deps, g[n - 1]) ELSE g[i]]
    <3>3. h[0] = Unsorted(deps) BY <2>3, <3>2 DEF Computes
    <3>4. ASSUME NEW i \in 1 .. n PROVE h[i] = NextRound(deps, h[i - 1])
      <4>1. i \in 0 .. n /\ i - 1 \in 0 .. n /\ i - 1 # n OBVIOUS
      <4>2. h[i - 1] = g[i - 1] BY <4>1
      <4>3. CASE i = n BY <4>1, <4>2, <4>3
      <4>4. CASE i # n
        <5>1. i \in 1 .. (n - 1) BY <4>4
        <5>2. g[i] = NextRound(deps, g[i - 1]) BY <3>2, <5>1 DEF Computes
        <5>3. h[i] = g[i] BY <4>1, <4>4
        <5> QED BY <4>2, <5>2, <5>3
      <4> QED BY <4>3, <4>4
    <3>5. Computes(h, deps, n) BY <3>3, <3>4 DEF Computes
    <3> QED BY <2>1, <3>5
  <2> QED BY <2>2, <2>3
<1>2. ASSUME NEW g, NEW h, NEW m \in Nat, NEW n \in Nat, m <= n,
             Computes(g, deps, m), Computes(h, deps, n), g[m] # h[m]
      PROVE  FALSE
  <2> DEFINE Apart == {i \in 0 .. m : g[i] # h[i]}
  <2>1. PICK i \in Apart : \A j \in Apart : i <= j
    <3>1. Apart \in SUBSET Nat /\ Apart # {} BY <1>2
    <3> HIDE DEF Apart
    <3> QED BY <3>1, NatMin
  <2>2. i # 0 BY <1>2 DEF Computes
  <2>3. i \in 1 .. m /\ i \in 1 .. n /\ i - 1 \in 0 .. m /\ ~(i <= i - 1) BY <1>2, <2>2
  <2>4. g[i - 1] = h[i - 1] BY <2>1, <2>3
  <2> QED BY <1>2, <2>3, <2>4 DEF Computes
<1> DEFINE g(n) == CHOOSE g : Computes(g, deps, n)
           f == [n \in Nat |-> g(n)[n]]
<1>3. \A n \in Nat : Computes(g(n), deps, n) BY <1>1
<1>4. f[0] = Unsorted(deps) BY <1>3 DEF Computes
<1>5. ASSUME NEW n \in Nat PROVE f[n + 1] = NextRound(deps, f[n])
  <2>1. g(n + 1)[n] = g(n)[n]
    <3> HIDE DEF g
    <3>1. Computes(g(n), deps, n) /\ Computes(g(n + 1), deps, n + 1) BY <1>3
    <3>2. n <= n + 1 OBVIOUS
    <3> QED BY <1>2, <3>1, <3>2
  <2>2. g(n + 1)[n + 1] = NextRound(deps, g(n + 1)[(n + 1) - 1])
    <3>1. Computes(g(n + 1), deps, n + 1) BY <1>3
    <3> QED BY <3>1 DEF Computes
  <2>3. (n + 1) - 1 = n OBVIOUS
  <2> QED BY <2>1, <2>2, <2>3
<1> DEFINE Step(s, n) ==
             IF n = 0 THEN Unsorted(deps)
             ELSE LET t == s[n - 1] IN IF t.ready = <<>> THEN t ELSE TakeReady(deps, t)
<1>6. f = [n \in Nat |-> Step(f, n)]
  <2>1. ASSUME NEW n \in Nat PROVE f[n] = Step(f, n)
    <3>1. CASE n = 0 BY <1>4, <3>1
    <3>2. CASE n # 0
      <4>1. n - 1 \in Nat /\ (n - 1) + 1 = n BY <3>2
      <4>2. f[n] = NextRound(deps, f[n - 1]) BY <1>5, <4>1
      <4> QED BY <3>2, <4>2 DEF NextRound
    <3> QED BY <3>1, <3>2
  <2>2. f = [n \in Nat |-> f[n]] OBVIOUS
  <2> HIDE DEF f
  <2> QED BY <2>1, <2>2
<1> HIDE DEF f
<1>7. Rounds(deps) = [n \in Nat |-> Step(Rounds(deps), n)]
  <2>1. Rounds(deps) = CHOOSE s : s = [n \in Nat |-> Step(s, n)] BY DEF Rounds
  <2> QED BY <1>6, <2>1, ZenonT(60)
<1>8. Rounds(deps)[0] = Unsorted(deps) BY <1>7
<1>9. ASSUME NEW n \in Nat PROVE Rounds(deps)[n + 1] = NextRound(deps, Rounds(deps)[n])
  <2>1. n + 1 \in Nat /\ n + 1 # 0 /\ (n + 1) - 1 = n OBVIOUS
  <2>2. Rounds(deps)[n + 1] = Step(Rounds(deps), n + 1) BY <1>7, <2>1
  <2> QED BY <2>1, <2>2 DEF NextRound
<1> QED BY <1>8, <1>9

\* A graph of finitely many numbered nodes, none of them numbered as the input.
IsGraph(deps) ==
  /\ DOMAIN deps \in SUBSET (Nat \ {0}) /\ IsFiniteSet(DOMAIN deps)
  /\ \A k \in DOMAIN deps : deps[k] \in Seq(Nat)

\* The dependencies of k that have not been ordered.
Held(deps, s, k) == {i \in Waits(deps, k) : deps[k][i] \notin ToSet(s.order)}

\* The nodes that have left the indegrees: in the list or in the order.
Free(s) == ToSet(s.ready) \cup ToSet(s.order)

\* The loop's variables agree: a node is free exactly when nothing holds it, is
\* listed once, and is ordered behind its dependencies.
SortInv(deps, s) ==
  LET nodes == DOMAIN deps IN
  /\ s.ready \in Seq(nodes) /\ IsInjective(s.ready)
  /\ s.order \in Seq(nodes) /\ IsInjective(s.order)
  /\ ToSet(s.ready) \cap ToSet(s.order) = {}
  /\ \A k \in nodes : s.indegrees[k] = Cardinality(Held(deps, s, k))
  /\ \A k \in nodes : Held(deps, s, k) = {} <=> k \in Free(s)
  /\ \A i \in DOMAIN s.order : \A d \in ToSet(deps[s.order[i]]) \ {RegionInput} :
       \E j \in 1 .. (i - 1) : s.order[j] = d

\* What holds a node is part of its dependencies, which are finitely many.
LEMMA HeldFinite ==
  ASSUME NEW deps, IsGraph(deps), NEW k \in DOMAIN deps, NEW T \in SUBSET DOMAIN deps[k]
  PROVE  IsFiniteSet(T) /\ Cardinality(T) \in Nat /\ (Cardinality(T) = 0 <=> T = {})
<1>1. DOMAIN deps[k] = 1 .. Len(deps[k]) /\ Len(deps[k]) \in Nat BY DEF IsGraph
<1>2. IsFiniteSet(DOMAIN deps[k]) BY <1>1, FS_Interval
<1>3. IsFiniteSet(T) BY <1>2, FS_Subset
<1> QED BY <1>3, FS_CardinalityType, FS_EmptySet

\* The nodes that a round or the start finds free can be listed.
LEMMA ListNodes ==
  ASSUME NEW deps, IsGraph(deps), NEW S \in SUBSET DOMAIN deps
  PROVE  /\ Descending(S) \in Seq(DOMAIN deps) /\ IsInjective(Descending(S))
         /\ ToSet(Descending(S)) = S
<1>1. S \in SUBSET Nat /\ IsFiniteSet(S) BY FS_Subset DEF IsGraph
<1>2. Descending(S) \in Seq(S) /\ IsInjective(Descending(S)) /\ ToSet(Descending(S)) = S
  BY <1>1, DescendingOf
<1>3. Descending(S) \in Seq(DOMAIN deps) BY <1>2
<1> QED BY <1>2, <1>3

\* Before the loop the nodes without dependencies are free.
LEMMA UnsortedInv ==
  ASSUME NEW deps, IsGraph(deps)
  PROVE  SortInv(deps, Unsorted(deps))
<1> DEFINE s == Unsorted(deps)
           S == {k \in DOMAIN deps : Waits(deps, k) = {}}
<1>1. s.order = <<>> /\ ToSet(s.order) = {} BY DEF Unsorted, ToSet
<1>2. s.ready = Descending(S) BY DEF Unsorted
<1>3. s.ready \in Seq(DOMAIN deps) /\ IsInjective(s.ready) /\ ToSet(s.ready) = S
  BY <1>2, ListNodes
<1>4. ASSUME NEW k \in DOMAIN deps
      PROVE  /\ Held(deps, s, k) = Waits(deps, k)
             /\ s.indegrees[k] = Cardinality(Held(deps, s, k))
  <2>1. Held(deps, s, k) = Waits(deps, k) BY <1>1 DEF Held
  <2> QED BY <2>1 DEF Unsorted
<1>5. \A k \in DOMAIN deps : Held(deps, s, k) = {} <=> k \in Free(s) BY <1>1, <1>3, <1>4 DEF Free
<1>6. s.order \in Seq(DOMAIN deps) /\ IsInjective(s.order) BY <1>1 DEF IsInjective
<1> HIDE DEF s
<1> QED BY <1>1, <1>3, <1>4, <1>5, <1>6 DEF SortInv, s

\* Taking a ready node keeps the agreement: exactly the nodes that it was the
\* last to hold become free.
LEMMA TakeReadyInv ==
  ASSUME NEW deps, IsGraph(deps), NEW s, SortInv(deps, s), s.ready # <<>>
  PROVE  SortInv(deps, TakeReady(deps, s))
<1> DEFINE nodes == DOMAIN deps
           key == Last(s.ready)
           t == TakeReady(deps, s)
           By(k) == {i \in DOMAIN deps[k] : deps[k][i] = key}
           freed == {k \in nodes : s.indegrees[k] > 0 /\ t.indegrees[k] = 0}
<1>1. /\ Front(s.ready) \in Seq(nodes) /\ IsInjective(Front(s.ready))
      /\ key \in nodes /\ key \in ToSet(s.ready)
      /\ ToSet(Front(s.ready)) = ToSet(s.ready) \ {key}
  BY FrontLast DEF SortInv
<1>2. /\ t.order = Append(s.order, key)
      /\ t.indegrees = [k \in nodes |-> s.indegrees[k] - Cardinality(By(k))]
      /\ t.ready = Front(s.ready) \o Descending(freed)
  BY DEF TakeReady
<1>3. key \notin ToSet(s.order) BY <1>1 DEF SortInv
<1>4. /\ t.order \in Seq(nodes) /\ IsInjective(t.order)
      /\ ToSet(t.order) = ToSet(s.order) \cup {key}
  BY <1>1, <1>2, <1>3, AppendSet DEF SortInv
<1>5. ASSUME NEW k \in nodes
      PROVE  /\ t.indegrees[k] = Cardinality(Held(deps, t, k))
             /\ s.indegrees[k] \in Nat /\ t.indegrees[k] \in Nat
             /\ s.indegrees[k] = 0 <=> Held(deps, s, k) = {}
             /\ t.indegrees[k] = 0 <=> Held(deps, t, k) = {}
             /\ Held(deps, t, k) \subseteq Held(deps, s, k)
  <2>1. key # RegionInput BY <1>1 DEF IsGraph, RegionInput
  <2>2. By(k) \in SUBSET Waits(deps, k) BY <2>1 DEF Waits
  <2>3. Held(deps, s, k) = Held(deps, t, k) \cup By(k)
    <3>1. \A i \in By(k) : deps[k][i] = key OBVIOUS
    <3>2. \A i \in Waits(deps, k) : deps[k][i] = key => i \in By(k) BY DEF Waits
    <3> HIDE DEF t, key, By
    <3> QED BY <1>3, <1>4, <2>2, <3>1, <3>2 DEF Held
  <2>4. Held(deps, t, k) \cap By(k) = {} BY <1>4 DEF Held
  <2>5. /\ Held(deps, s, k) \in SUBSET DOMAIN deps[k] /\ Held(deps, t, k) \in SUBSET DOMAIN deps[k]
        /\ By(k) \in SUBSET DOMAIN deps[k]
    BY DEF Held, Waits
  <2> HIDE DEF By
  <2>6. Cardinality(Held(deps, s, k)) = Cardinality(Held(deps, t, k)) + Cardinality(By(k))
    BY <2>3, <2>4, <2>5, HeldFinite, DisjointUnion
  <2>7. s.indegrees[k] = Cardinality(Held(deps, s, k)) BY DEF SortInv
  <2>8. t.indegrees[k] = s.indegrees[k] - Cardinality(By(k)) BY <1>2
  <2>9. /\ Cardinality(Held(deps, s, k)) \in Nat /\ Cardinality(Held(deps, t, k)) \in Nat
        /\ Cardinality(By(k)) \in Nat
        /\ Cardinality(Held(deps, s, k)) = 0 <=> Held(deps, s, k) = {}
        /\ Cardinality(Held(deps, t, k)) = 0 <=> Held(deps, t, k) = {}
    BY <2>5, HeldFinite
  <2> HIDE DEF t
  <2>10. t.indegrees[k] = Cardinality(Held(deps, t, k)) BY <2>6, <2>7, <2>8, <2>9
  <2> QED BY <2>3, <2>7, <2>9, <2>10
<1>6. \A k \in nodes : k \in freed <=> Held(deps, s, k) # {} /\ Held(deps, t, k) = {}
  BY <1>5
<1>7. \A k \in nodes : Held(deps, s, k) = {} <=> k \in Free(s) BY DEF SortInv
<1>8. /\ Descending(freed) \in Seq(nodes) /\ IsInjective(Descending(freed))
      /\ ToSet(Descending(freed)) = freed
  BY ListNodes
<1>9. freed \cap Free(s) = {} BY <1>6, <1>7
<1> HIDE DEF freed, t, key
<1>10. /\ t.ready \in Seq(nodes) /\ IsInjective(t.ready)
       /\ ToSet(t.ready) = (ToSet(s.ready) \ {key}) \cup freed
  <2>1. ToSet(Front(s.ready)) \cap ToSet(Descending(freed)) = {} BY <1>1, <1>8, <1>9 DEF Free
  <2> QED BY <1>1, <1>2, <1>8, <2>1, ConcatSets
<1>11. ToSet(t.ready) \cap ToSet(t.order) = {}
  BY <1>1, <1>4, <1>9, <1>10 DEF SortInv, Free
<1>12. Free(t) = Free(s) \cup freed BY <1>1, <1>4, <1>10 DEF Free
<1>13. ASSUME NEW k \in nodes PROVE Held(deps, t, k) = {} <=> k \in Free(t)
  BY <1>5, <1>6, <1>7, <1>12
<1>14. ASSUME NEW i \in DOMAIN t.order, NEW d \in ToSet(deps[t.order[i]]) \ {RegionInput}
       PROVE  \E j \in 1 .. (i - 1) : t.order[j] = d
  <2>1. /\ Len(s.order) \in Nat /\ DOMAIN s.order = 1 .. Len(s.order)
        /\ DOMAIN t.order = 1 .. (Len(s.order) + 1)
        /\ t.order[Len(s.order) + 1] = key
        /\ \A j \in 1 .. Len(s.order) : t.order[j] = s.order[j]
    BY <1>1, <1>2 DEF SortInv
  <2>2. CASE i \in 1 .. Len(s.order)
    <3>1. t.order[i] = s.order[i] /\ i \in DOMAIN s.order BY <2>1, <2>2
    <3>2. PICK j \in 1 .. (i - 1) : s.order[j] = d BY <1>14, <3>1 DEF SortInv
    <3>3. t.order[j] = s.order[j] BY <2>1, <2>2, <3>2
    <3> QED BY <3>2, <3>3
  <2>3. CASE i = Len(s.order) + 1
    <3>1. t.order[i] = key BY <2>1, <2>3
    <3>2. Held(deps, s, key) = {} BY <1>1, <1>7 DEF Free
    <3>3. PICK p \in DOMAIN deps[key] : deps[key][p] = d BY <1>14, <3>1 DEF ToSet
    <3>4. d \in ToSet(s.order) BY <1>14, <3>2, <3>3 DEF Held, Waits
    <3>5. PICK j \in DOMAIN s.order : s.order[j] = d BY <3>4 DEF ToSet
    <3>6. j \in 1 .. (i - 1) /\ t.order[j] = d BY <2>1, <2>3, <3>5
    <3> QED BY <3>6
  <2> QED BY <2>1, <2>2, <2>3
<1> QED BY <1>4, <1>5, <1>10, <1>11, <1>13, <1>14 DEF SortInv, t

\* The variables agree after every round.
LEMMA RoundsInv ==
  ASSUME NEW deps, IsGraph(deps), NEW n \in Nat
  PROVE  SortInv(deps, Rounds(deps)[n])
<1> DEFINE Bad == {m \in Nat : ~SortInv(deps, Rounds(deps)[m])}
<1> SUFFICES ASSUME Bad # {} PROVE FALSE OBVIOUS
<1>1. PICK m \in Bad : \A j \in Bad : m <= j
  <2>1. Bad \in SUBSET Nat OBVIOUS
  <2> HIDE DEF Bad
  <2> QED BY <2>1, NatMin
<1>2. m # 0 BY <1>1, RoundsUnfold, UnsortedInv
<1>3. m - 1 \in Nat /\ ~(m <= m - 1) /\ (m - 1) + 1 = m BY <1>2
<1>4. SortInv(deps, Rounds(deps)[m - 1]) BY <1>1, <1>3
<1>5. Rounds(deps)[m] = NextRound(deps, Rounds(deps)[m - 1]) BY <1>3, RoundsUnfold
<1>6. SortInv(deps, Rounds(deps)[m]) BY <1>4, <1>5, TakeReadyInv DEF NextRound
<1> QED BY <1>1, <1>6

\* When the order is as long as the graph is large, it is a topological order of
\* all its nodes.
LEMMA OrderComplete ==
  ASSUME NEW deps, IsGraph(deps),
         Len(TopologicalDepths(deps).order) = Cardinality(DOMAIN deps)
  PROVE  LET order == TopologicalDepths(deps).order
         IN  /\ order \in Seq(DOMAIN deps) /\ IsInjective(order) /\ ToSet(order) = DOMAIN deps
             /\ \A i \in DOMAIN order : \A d \in ToSet(deps[order[i]]) \ {RegionInput} :
                  \E j \in 1 .. (i - 1) : order[j] = d
<1> DEFINE order == TopologicalDepths(deps).order
           n == Cardinality(DOMAIN deps)
<1>1. IsFiniteSet(DOMAIN deps) /\ n \in Nat BY FS_CardinalityType DEF IsGraph
<1>2. SortInv(deps, TopologicalDepths(deps)) BY <1>1, RoundsInv DEF TopologicalDepths
<1>3. /\ order \in Seq(DOMAIN deps) /\ IsInjective(order)
      /\ \A i \in DOMAIN order : \A d \in ToSet(deps[order[i]]) \ {RegionInput} :
           \E j \in 1 .. (i - 1) : order[j] = d
  BY <1>2 DEF SortInv
<1> HIDE DEF order
<1>4. order \in Injection(1 .. n, DOMAIN deps)
  <2>1. order \in [1 .. n -> DOMAIN deps] BY <1>3 DEF order
  <2> QED BY <1>3, <2>1 DEF Injection
<1>5. Cardinality(1 .. n) = n BY <1>1, FS_Interval
<1>6. order \in Surjection(1 .. n, DOMAIN deps) BY <1>1, <1>4, <1>5, FS_Injection
<1>7. ToSet(order) = DOMAIN deps BY <1>6 DEF Surjection, ToSet
<1> QED BY <1>3, <1>7 DEF order

-----------------------------------------------------------------------------
(***************************************************************************)
(* A fragment and its plan.                                                *)
(***************************************************************************)

\* Every key is the key of a node, and the dependencies of the nodes are a graph.
LEMMA FragmentGraph ==
  ASSUME NEW f, IsFragment(f)
  PROVE  /\ \A k \in Keys(f) : NodeAt(f, k) \in ToSet(f.nodes) /\ NodeAt(f, k).key = k
         /\ DOMAIN DepsOf(f) = Keys(f) /\ IsGraph(DepsOf(f))
         /\ f.nodes # <<>> => Keys(f) # {}
<1>1. \A k \in Keys(f) : NodeAt(f, k) \in ToSet(f.nodes) /\ NodeAt(f, k).key = k
  BY DEF Keys, NodeAt
<1>2. DOMAIN DepsOf(f) = Keys(f) /\ \A k \in Keys(f) : DepsOf(f)[k] = NodeAt(f, k).deps
  BY DEF DepsOf
<1>3. Keys(f) \in SUBSET (Nat \ {0}) BY DEF Keys, IsFragment, NamedNodes, RegionInput
<1>4. Len(f.nodes) \in Nat /\ DOMAIN f.nodes = 1 .. Len(f.nodes) BY DEF IsFragment, NamedNodes
<1>5. IsFiniteSet(Keys(f))
  <2> DEFINE g == [i \in 1 .. Len(f.nodes) |-> f.nodes[i].key]
  <2>1. Keys(f) = {f.nodes[i].key : i \in 1 .. Len(f.nodes)} BY <1>4 DEF Keys, ToSet
  <2>2. g \in Surjection(1 .. Len(f.nodes), Keys(f)) BY <2>1 DEF Surjection, Range
  <2>3. IsFiniteSet(1 .. Len(f.nodes))
    <3>1. 1 \in Int /\ Len(f.nodes) \in Int BY <1>4
    <3> HIDE DEF g
    <3> QED BY <3>1, FS_Interval
  <2> HIDE DEF g
  <2> QED BY <2>2, <2>3, FS_Surjection
<1>6. IsGraph(DepsOf(f)) BY <1>1, <1>2, <1>3, <1>5 DEF IsGraph, IsFragment, NamedNodes
<1>7. f.nodes # <<>> => Keys(f) # {}
  <2>1. f.nodes # <<>> => 1 \in DOMAIN f.nodes BY <1>4 DEF IsFragment, NamedNodes
  <2> QED BY <2>1 DEF Keys, ToSet
<1> QED BY <1>1, <1>2, <1>6, <1>7

\* What validate has established of a fragment that it lets pass, whichever
\* approvals it asks for.
LEMMA ValidMeans ==
  ASSUME NEW f, NEW limit, NEW check, Validate(f, limit, check) = "valid"
  PROVE  /\ IsFragment(f)
         /\ f.nodes # <<>> /\ f.outputs # <<>>
         /\ ToSet(f.outputs) \subseteq Keys(f)
         /\ \A n \in ToSet(f.nodes) :
              n.alias \in DOMAIN Catalog /\ ToSet(n.deps) \subseteq Keys(f) \cup {RegionInput}
         /\ Len(TopologicalDepths(DepsOf(f)).order) = Cardinality(Keys(f))
         /\ Metrics(Signature(f)).grant \subseteq RegionGrant
<1>1. /\ IsFragment(f) /\ ShapeError(f) = "valid"
      /\ Metrics(Signature(f)).grant \subseteq RegionGrant
  BY DEF Validate, Signature
<1> DEFINE bad == {i \in DOMAIN f.nodes : NodeError(f.nodes[i]) # "valid"}
<1>2. /\ f.nodes # <<>> /\ f.outputs # <<>>
      /\ ToSet(f.outputs) \subseteq Keys(f)
      /\ \A n \in ToSet(f.nodes) : ToSet(n.deps) \subseteq Keys(f) \cup {RegionInput}
      /\ bad = {} \/ NodeError(f.nodes[Min(bad)]) = "valid"
  BY <1>1 DEF ShapeError
<1>3. bad = {}
  <2> SUFFICES ASSUME bad # {} PROVE FALSE OBVIOUS
  <2>1. bad \in SUBSET Nat BY <1>1 DEF IsFragment, NamedNodes
  <2>2. \E x \in bad : \A y \in bad : x <= y
    <3> HIDE DEF bad
    <3> QED BY <2>1, NatMin
  <2>3. Min(bad) \in bad BY <2>2 DEF Min
  <2> QED BY <1>2, <2>3
<1>4. Len(TopologicalDepths(DepsOf(f)).order) = Cardinality(Keys(f))
  BY <1>1, <1>2, <1>3 DEF ShapeError
<1>5. \A n \in ToSet(f.nodes) : n.alias \in DOMAIN Catalog
  BY <1>3 DEF NodeError, ToSet
<1> QED BY <1>1, <1>2, <1>4, <1>5

\* The PlanIR of a fragment without a cycle lists each step behind its dependencies,
\* and reads back as the nodes and outputs it was built from.
LEMMA PlanReadsBack ==
  ASSUME NEW f, IsFragment(f), ToSet(f.outputs) \subseteq Keys(f),
         Len(TopologicalDepths(DepsOf(f)).order) = Cardinality(Keys(f))
  PROVE  LET plan == Signature(f)
             place(a) == CHOOSE i \in DOMAIN plan.steps : plan.steps[i].node = a
         IN  /\ ResolvedNodes(plan) = Resolve(f)
             /\ Outputs(plan) = f.outputs
             /\ \A i \in DOMAIN plan.steps : \A a \in ToSet(plan.steps[i].deps) \ {<<"input">>} :
                  place(a) < i
<1> DEFINE plan == Signature(f)
           nodes == Resolve(f)
           deps == DepsOf(f)
           order == TopologicalDepths(deps).order
           place(a) == CHOOSE i \in DOMAIN plan.steps : plan.steps[i].node = a
<1>1. IsFragment(f) /\ ToSet(f.outputs) \subseteq Keys(f) OBVIOUS
<1>2. /\ DOMAIN deps = Keys(f) /\ IsGraph(deps) /\ Keys(f) \in SUBSET (Nat \ {RegionInput})
      /\ \A k \in Keys(f) : deps[k] \in Seq(Nat)
  BY <1>1, FragmentGraph DEF IsGraph, RegionInput
<1>3. /\ order \in Seq(Keys(f)) /\ IsInjective(order) /\ ToSet(order) = Keys(f)
      /\ \A i \in DOMAIN order : \A d \in ToSet(deps[order[i]]) \ {RegionInput} :
           \E j \in 1 .. (i - 1) : order[j] = d
  BY <1>2, OrderComplete
<1>4. /\ DOMAIN nodes = Keys(f)
      /\ \A k \in Keys(f) : nodes[k] = [entry |-> EntryOf(f, k), deps |-> deps[k]]
  BY DEF Resolve, DepsOf
<1>5. [k \in DOMAIN nodes |-> nodes[k].deps] = deps BY <1>4 DEF DepsOf
<1>6. /\ DOMAIN plan.steps = DOMAIN order
      /\ \A i \in DOMAIN order : plan.steps[i] =
           [node |-> Address(order[i]), entry |-> nodes[order[i]].entry,
            deps |-> [j \in DOMAIN nodes[order[i]].deps |-> Address(nodes[order[i]].deps[j])]]
      /\ plan.output = [i \in DOMAIN f.outputs |-> Address(f.outputs[i])]
  BY <1>5, Zenon DEF Signature, BuildGeneratedPlan
<1>7. \A d \in Nat : KeyAt(Address(d)) = d
  <2> SUFFICES ASSUME NEW d \in Nat PROVE KeyAt(Address(d)) = d OBVIOUS
  <2>1. CASE d = RegionInput BY <2>1 DEF Address, KeyAt
  <2>2. CASE d # RegionInput BY <2>2 DEF Address, KeyAt
  <2> QED BY <2>1, <2>2
<1>8. \A i \in DOMAIN order :
        /\ order[i] \in Keys(f) /\ order[i] \in Nat
        /\ plan.steps[i].node = Address(order[i])
        /\ plan.steps[i].entry = EntryOf(f, order[i])
        /\ plan.steps[i].deps = [j \in DOMAIN deps[order[i]] |-> Address(deps[order[i]][j])]
  <2> SUFFICES ASSUME NEW i \in DOMAIN order
               PROVE  /\ order[i] \in Keys(f) /\ order[i] \in Nat
                      /\ plan.steps[i].node = Address(order[i])
                      /\ plan.steps[i].entry = EntryOf(f, order[i])
                      /\ plan.steps[i].deps =
                           [j \in DOMAIN deps[order[i]] |-> Address(deps[order[i]][j])]
    OBVIOUS
  <2> HIDE DEF plan, order, deps, nodes
  <2>1. order[i] \in Keys(f) /\ order[i] \in Nat BY <1>2, <1>3
  <2>2. nodes[order[i]].entry = EntryOf(f, order[i]) /\ nodes[order[i]].deps = deps[order[i]]
    BY <1>4, <2>1
  <2> DEFINE n == nodes[order[i]]
  <2>3. plan.steps[i] = [node |-> Address(order[i]), entry |-> n.entry,
                         deps |-> [j \in DOMAIN n.deps |-> Address(n.deps[j])]]
    BY <1>6
  <2> HIDE DEF n
  <2>4. /\ plan.steps[i].node = Address(order[i]) /\ plan.steps[i].entry = n.entry
        /\ plan.steps[i].deps = [j \in DOMAIN n.deps |-> Address(n.deps[j])]
    BY <2>3
  <2>5. n.entry = EntryOf(f, order[i]) /\ n.deps = deps[order[i]] BY <2>2 DEF n
  <2> QED BY <2>1, <2>4, <2>5
<1> HIDE DEF plan, order, deps, nodes
<1>9. ASSUME NEW k \in Keys(f)
      PROVE  \E i \in DOMAIN plan.steps :
               order[i] = k /\ \A j \in DOMAIN plan.steps : plan.steps[j].node = Address(k) <=> j = i
  <2>1. PICK i \in DOMAIN order : order[i] = k BY <1>3 DEF ToSet
  <2>2. k \in Nat BY <1>2
  <2>3. ASSUME NEW j \in DOMAIN order PROVE plan.steps[j].node = Address(k) <=> j = i
    <3>1. Address(order[j]) = Address(k) <=> order[j] = k BY <1>7, <1>8, <2>2
    <3> QED BY <1>3, <1>8, <2>1, <3>1 DEF IsInjective
  <2> QED BY <1>6, <2>1, <2>3
<1>10. ResolvedNodes(plan) = nodes
  <2>1. {KeyAt(s.node) : s \in ToSet(plan.steps)} = Keys(f)
    <3>1. \A i \in DOMAIN plan.steps : KeyAt(plan.steps[i].node) = order[i] BY <1>6, <1>7, <1>8
    <3>2. {KeyAt(s.node) : s \in ToSet(plan.steps)} = {order[i] : i \in DOMAIN plan.steps}
      BY <3>1 DEF ToSet
    <3> QED BY <1>3, <1>6, <3>2 DEF ToSet
  <2> DEFINE step(k) == CHOOSE x \in ToSet(plan.steps) : x.node = Address(k)
             read(k) == [entry |-> step(k).entry,
                         deps |-> [j \in DOMAIN step(k).deps |-> KeyAt(step(k).deps[j])]]
  <2>2. ASSUME NEW k \in Keys(f) PROVE read(k) = nodes[k]
    <3>1. PICK i \in DOMAIN plan.steps :
            order[i] = k /\ \A j \in DOMAIN plan.steps : plan.steps[j].node = Address(k) <=> j = i
      BY <1>9
    <3>2. step(k) = plan.steps[i] BY <3>1 DEF ToSet
    <3>3. /\ step(k).entry = EntryOf(f, k)
          /\ step(k).deps = [j \in DOMAIN deps[k] |-> Address(deps[k][j])]
      BY <1>6, <1>8, <3>1, <3>2, ZenonT(60)
    <3>4. [j \in DOMAIN step(k).deps |-> KeyAt(step(k).deps[j])] = deps[k]
      <4>1. deps[k] \in Seq(Nat) BY <1>2
      <4>2. \A j \in DOMAIN deps[k] : KeyAt(step(k).deps[j]) = deps[k][j] BY <1>7, <3>3, <4>1
      <4>3. DOMAIN step(k).deps = DOMAIN deps[k] BY <3>3
      <4> QED BY <4>1, <4>2, <4>3, SMTT(30)
    <3> QED BY <1>4, <3>3, <3>4
  <2>3. ResolvedNodes(plan) = [k \in Keys(f) |-> read(k)] BY <2>1 DEF ResolvedNodes
  <2> HIDE DEF read
  <2>4. nodes = [k \in Keys(f) |-> nodes[k]] BY <1>4 DEF nodes, Resolve
  <2> QED BY <2>2, <2>3, <2>4
<1>11. Outputs(plan) = f.outputs
  <2>1. f.outputs \in Seq(Nat) BY <1>1 DEF IsFragment, NamedNodes
  <2>2. \A i \in DOMAIN f.outputs : KeyAt(plan.output[i]) = f.outputs[i] BY <1>6, <1>7, <2>1
  <2>3. DOMAIN plan.output = DOMAIN f.outputs BY <1>6
  <2> QED BY <2>1, <2>2, <2>3 DEF Outputs
<1>12. ASSUME NEW i \in DOMAIN plan.steps, NEW a \in ToSet(plan.steps[i].deps) \ {<<"input">>}
       PROVE  place(a) < i
  <2>1. i \in DOMAIN order /\ i \in Nat BY <1>3, <1>6
  <2>2. PICK j \in DOMAIN deps[order[i]] : a = Address(deps[order[i]][j])
    <3>1. plan.steps[i].deps = [j \in DOMAIN deps[order[i]] |-> Address(deps[order[i]][j])]
      BY <1>8, <2>1
    <3> QED BY <3>1 DEF ToSet
  <2> DEFINE d == deps[order[i]][j]
  <2>3. d # RegionInput BY <2>2 DEF Address
  <2>4. d \in ToSet(deps[order[i]]) BY DEF ToSet
  <2>5. PICK m \in 1 .. (i - 1) : order[m] = d BY <1>3, <2>1, <2>3, <2>4
  <2>6. m \in DOMAIN order /\ m < i /\ d \in Keys(f) BY <1>3, <2>1, <2>5
  <2>7. PICK q \in DOMAIN plan.steps :
          order[q] = d /\ \A r \in DOMAIN plan.steps : plan.steps[r].node = Address(d) <=> r = q
    BY <1>9, <2>6
  <2>8. q = m BY <1>3, <1>6, <2>5, <2>6, <2>7 DEF IsInjective
  <2>9. place(a) = q BY <2>2, <2>7
  <2> QED BY <2>6, <2>8, <2>9
<1> QED BY <1>10, <1>11, <1>12 DEF plan, nodes

\* So does the PlanIR of every fragment that validate lets pass.
LEMMA RoundTrip ==
  ASSUME NEW f, NEW limit, NEW check, Validate(f, limit, check) = "valid"
  PROVE  LET plan == Signature(f)
             place(a) == CHOOSE i \in DOMAIN plan.steps : plan.steps[i].node = a
         IN  /\ ResolvedNodes(plan) = Resolve(f)
             /\ Outputs(plan) = f.outputs
             /\ \A i \in DOMAIN plan.steps : \A a \in ToSet(plan.steps[i].deps) \ {<<"input">>} :
                  place(a) < i
BY ValidMeans, PlanReadsBack

\* What validate lets a fragment ask for is within the grant of the region, node
\* by node.
LEMMA GrantedByRegion ==
  ASSUME NEW f, NEW limit, NEW check, Validate(f, limit, check) = "valid", NEW k \in Keys(f)
  PROVE  EntryOf(f, k).grant \subseteq RegionGrant
<1>1. Metrics(Signature(f)).grant \subseteq RegionGrant BY ValidMeans
<1>2. ResolvedNodes(Signature(f)) = Resolve(f) BY RoundTrip
<1>3. DOMAIN Resolve(f) = Keys(f) /\ Resolve(f)[k].entry = EntryOf(f, k) BY DEF Resolve
<1>4. Metrics(Signature(f)).grant = UNION {Resolve(f)[j].entry.grant : j \in Keys(f)}
  BY <1>2, <1>3 DEF Metrics
<1> QED BY <1>1, <1>3, <1>4

-----------------------------------------------------------------------------
(***************************************************************************)
(* The inductive invariant.                                                *)
(***************************************************************************)

RunStatus == {"ABSENT", "RUNNING", "PAUSED", "SUCCEEDED", "FAILED", "CANCELLED"}

PlannerStatus == {"ABSENT", "READY", "RUNNING", "SUCCEEDED", "FAILED", "CANCELLED"}

ChildStatus == {"BLOCKED", "READY", "RUNNING", "SUCCEEDED", "FAILED", "CANCELLED"}

Events ==
  {"PLAN_APPROVED", "PLAN_REJECTED", "RUN_DEFINITION_ADOPTED", "PLAN_MATERIALIZED",
   "PLAN_EXECUTION_VERIFIED", "PLAN_EXECUTION_DIVERGED", "RUN_FAILED"}

\* The driver's labels: before there is a plan; while the plan is served, of which
\* those that need children and those that need a complete plan; and at the end.
Fresh == {"create", "enqueue", "planner", "planning"}

Closing == {"verify", "count", "complete"}

Working == {"passing", "execute", "working", "returned"} \cup Closing

Served == {"materialize", "insert", "advance"} \cup Working

Ended == {"failing", "raised", "crashed"}

DriverLabels == Fresh \cup {"validate", "adopt"} \cup Served \cup Ended

PeerLabels == {"idle", "insert", "passing", "crashed"}

Inputs == Seq(Nat) \cup Seq(Seq(Nat))

ChildType ==
  [status : ChildStatus, module : {Catalog[a].module : a \in DOMAIN Catalog},
   deps : Seq(Nat), grant : {Catalog[a].grant : a \in DOMAIN Catalog},
   input : Inputs \cup {Null}, output : Seq(Nat) \cup {Null},
   attempt : Nat, owner : Procs \cup {Null}]

\* A child carries an input once it may be claimed and an output once it is accepted.
ChildOK(c) ==
  /\ c \in ChildType
  /\ c.status \notin {"BLOCKED", "CANCELLED"} => c.input # Null
  /\ c.output # Null <=> c.status = "SUCCEEDED"

TypeInv ==
  /\ run \in [status : RunStatus, definition : {"bootstrap", "generated"},
              output : Seq(Nat) \cup {Null}]
  /\ planner \in [status : PlannerStatus, attempt : 0 .. MaxAttempts,
                  output : Fragments \cup {Null}]
  /\ planner.output # Null <=> planner.status = "SUCCEEDED"
  /\ children \in [DOMAIN children -> ChildType]
  /\ \A k \in DOMAIN children : ChildOK(children[k])
  /\ log \in Seq(Events)
  /\ pc \in [Procs -> DriverLabels \cup PeerLabels]
  /\ pc[Driver] \in DriverLabels /\ \A p \in Peers : pc[p] \in PeerLabels
  /\ view \in [Procs -> [{} -> ChildType] \cup [DOMAIN children -> ChildType]]
  /\ todo \in [Procs -> Seq(DOMAIN children)]
  /\ tries \in 0 .. MaxAttempts /\ faults \in 0 .. FaultBound

\* What the driver has approved: the planner's fragment as validated and judged.
Passes(f) == Validate(f, Limits.budget, {}) = "valid" /\ PolicyIssues(Signature(f)) = {}

\* The driver asks the planner while it has rounds left, and each claim uses one.
TriesInv ==
  pc[Driver] \in Fresh =>
    /\ planner.status # "SUCCEEDED" /\ tries > 0
    /\ planner.attempt + tries <= MaxAttempts + (IF pc[Driver] = "planning" THEN 1 ELSE 0)

\* The plan, the definition and the log go with the driver's progress.
PlanInv ==
  /\ pc[Driver] \in Fresh \cup {"validate"} => log = <<>>
  /\ pc[Driver] \in Fresh \cup {"validate", "adopt"} => run.definition = "bootstrap"
  /\ pc[Driver] \in {"validate", "adopt"} \cup Served => planner.status = "SUCCEEDED"
  /\ pc[Driver] = "adopt" => Passes(planner.output) /\ Logged("PLAN_APPROVED")
  /\ pc[Driver] \in Served => run.definition = "generated"
  /\ \A p \in Procs : pc[p] = "insert" => run.definition = "generated"
  /\ run.definition = "generated" =>
       /\ planner.status = "SUCCEEDED" /\ Passes(planner.output)
       /\ Before("PLAN_APPROVED", "RUN_DEFINITION_ADOPTED")

\* The log against the state it tells of.
LogInv ==
  /\ Logged("PLAN_REJECTED") => planner.status = "SUCCEEDED" /\ ~Passes(planner.output)
  /\ Logged("PLAN_EXECUTION_DIVERGED") => pc[Driver] \in Ended
  /\ Logged("PLAN_MATERIALIZED") <=> children # NoChildren
  /\ pc[Driver] \in {"count", "complete", "returned"} => Last(log) = "PLAN_EXECUTION_VERIFIED"

\* The children are the plan's nodes, materialized once.
Materialized ==
  /\ run.definition = "generated"
  /\ Before("RUN_DEFINITION_ADOPTED", "PLAN_MATERIALIZED")
  /\ \E i \in DOMAIN log : {j \in DOMAIN log : log[j] = "PLAN_MATERIALIZED"} = {i}
  /\ DOMAIN children = Keys(planner.output)
  /\ \A k \in DOMAIN children :
       /\ children[k].module = EntryOf(planner.output, k).module
       /\ children[k].deps = DepsOf(planner.output)[k]
       /\ children[k].grant = EntryOf(planner.output, k).grant

ChildrenInv == children # NoChildren => Materialized

\* v is the input of child k that accepted results give.
Released(tasks, k, v) ==
  /\ \A d \in ToSet(tasks[k].deps) : Available(tasks, d)
  /\ v = Bound([i \in DOMAIN tasks[k].deps |-> ValueOf(tasks, tasks[k].deps[i])])

ReleasedInv ==
  \A k \in DOMAIN children :
    children[k].input # Null => Released(children, k, children[k].input)

\* What a process has loaded is older than the store, but what was accepted then is
\* final, and that is all its pass needs.
ViewInv ==
  \A p \in Procs :
    /\ \A k \in DOMAIN view[p] :
         /\ view[p][k].deps = children[k].deps
         /\ view[p][k].status = "SUCCEEDED" =>
              children[k].status = "SUCCEEDED" /\ children[k].output = view[p][k].output
    /\ \A k \in ToSet(todo[p]) :
         k \in DOMAIN view[p] /\ \A d \in ToSet(view[p][k].deps) : Available(view[p], d)

\* The driver among the children, up to the output of the run.
DriverInv ==
  /\ pc[Driver] \in Working => children # NoChildren
  /\ pc[Driver] = "execute" => target \in DOMAIN children
  /\ \A k \in DOMAIN children : Holds(Driver, k) => pc[Driver] = "working" /\ target = k
  /\ pc[Driver] \in Closing =>
       view[Driver] # NoChildren /\ \A o \in ToSet(planner.output.outputs) :
                                      view[Driver][o].status = "SUCCEEDED"
  /\ pc[Driver] \in {"complete", "returned"} =>
       \A k \in DOMAIN children : children[k].status = "SUCCEEDED"
  /\ run.status = "SUCCEEDED" =>
       /\ pc[Driver] = "returned"
       /\ run.output = children[planner.output.outputs[1]].output

IInv ==
  /\ TypeInv /\ TriesInv /\ PlanInv /\ LogInv /\ ChildrenInv /\ ReleasedInv /\ ViewInv
  /\ DriverInv

-----------------------------------------------------------------------------
(***************************************************************************)
(* Lemmas about the state.                                                 *)
(***************************************************************************)

\* Only the empty function is NoChildren.
LEMMA NoChildrenEmpty ==
  ASSUME NEW S, NEW T, NEW f \in [S -> T]
  PROVE  (f = NoChildren <=> S = {}) /\ NoChildren \in [{} -> T] /\ DOMAIN NoChildren = {}
<1>1. NoChildren \in [{} -> T] /\ DOMAIN NoChildren = {} BY DEF NoChildren
<1>2. DOMAIN f = S OBVIOUS
<1>3. S = {} => f = NoChildren BY <1>2 DEF NoChildren
<1> QED BY <1>1, <1>2, <1>3

\* What an event adds to the log.
LEMMA Recorded ==
  ASSUME NEW e \in Events, log \in Seq(Events), Record(e)
  PROVE  /\ log' \in Seq(Events) /\ Last(log') = e
         /\ ToSet(log') = ToSet(log) \cup {e}
         /\ \A a, b : Before(a, b) => Before(a, b)'
         /\ \A a : Logged(a) => Before(a, e)'
         /\ \A x : x # e => {j \in DOMAIN log' : log'[j] = x} = {j \in DOMAIN log : log[j] = x}
         /\ ~Logged(e) => {j \in DOMAIN log' : log'[j] = e} = {Len(log) + 1}
<1>1. /\ log' \in Seq(Events) /\ Len(log') = Len(log) + 1 /\ Len(log) \in Nat
      /\ DOMAIN log = 1 .. Len(log) /\ DOMAIN log' = 1 .. (Len(log) + 1)
      /\ \A i \in 1 .. Len(log) : log'[i] = log[i]
      /\ log'[Len(log) + 1] = e
  BY DEF Record
<1>2. \A i \in 1 .. (Len(log) + 1) : i \in 1 .. Len(log) \/ i = Len(log) + 1 BY <1>1
<1>3. Last(log') = e BY <1>1 DEF Last
<1>4. Len(log) + 1 \in DOMAIN log' /\ \A i \in DOMAIN log : i \in DOMAIN log' /\ i < Len(log) + 1
  BY <1>1
<1>5. ToSet(log') = ToSet(log) \cup {e}
  <2>1. ToSet(log') \subseteq ToSet(log) \cup {e} BY <1>1, <1>2 DEF ToSet
  <2>2. ToSet(log) \cup {e} \subseteq ToSet(log') BY <1>1, <1>4 DEF ToSet
  <2> QED BY <2>1, <2>2
<1>6. \A a, b : Before(a, b) => Before(a, b)' BY <1>1, <1>4 DEF Before
<1>7. \A a : Logged(a) => Before(a, e)'
  <2> SUFFICES ASSUME NEW a, Logged(a) PROVE Before(a, e)' OBVIOUS
  <2>1. PICK i \in DOMAIN log : log[i] = a BY DEF Logged, ToSet
  <2>2. i \in DOMAIN log' /\ i < Len(log) + 1 /\ log'[i] = a BY <1>1, <1>4, <2>1
  <2> QED BY <1>1, <1>4, <2>2 DEF Before
<1>8. \A x : x # e => {j \in DOMAIN log' : log'[j] = x} = {j \in DOMAIN log : log[j] = x}
  BY <1>1, <1>2, <1>4
<1>9. ~Logged(e) => {j \in DOMAIN log' : log'[j] = e} = {Len(log) + 1}
  BY <1>1, <1>2, <1>4 DEF Logged, ToSet
<1> QED BY <1>1, <1>3, <1>5, <1>6, <1>7, <1>8, <1>9

\* A plan that was approved is a graph over its keys.
LEMMA PassesMeans ==
  ASSUME NEW f, Passes(f)
  PROVE  /\ Keys(f) # {} /\ Keys(f) \in SUBSET (Nat \ {RegionInput}) /\ IsFiniteSet(Keys(f))
         /\ f.outputs \in Seq(Keys(f)) /\ f.outputs[1] \in ToSet(f.outputs)
         /\ ToSet(f.outputs) \subseteq Keys(f)
         /\ \A k \in Keys(f) :
              /\ DepsOf(f)[k] \in Seq(Nat) /\ DepsOf(f)[k] = NodeAt(f, k).deps
              /\ ToSet(DepsOf(f)[k]) \subseteq Keys(f) \cup {RegionInput}
              /\ NodeAt(f, k).alias \in DOMAIN Catalog
              /\ EntryOf(f, k).grant \subseteq RegionGrant
<1>1. Validate(f, Limits.budget, {}) = "valid" BY DEF Passes
<1>2. /\ IsFragment(f) /\ f.nodes # <<>> /\ f.outputs # <<>> /\ ToSet(f.outputs) \subseteq Keys(f)
      /\ \A n \in ToSet(f.nodes) :
           n.alias \in DOMAIN Catalog /\ ToSet(n.deps) \subseteq Keys(f) \cup {RegionInput}
  BY <1>1, ValidMeans
<1>3. /\ \A k \in Keys(f) : NodeAt(f, k) \in ToSet(f.nodes)
      /\ DOMAIN DepsOf(f) = Keys(f) /\ IsGraph(DepsOf(f)) /\ Keys(f) # {}
  BY <1>2, FragmentGraph
<1>4. Keys(f) \in SUBSET (Nat \ {RegionInput}) /\ IsFiniteSet(Keys(f))
  BY <1>3 DEF IsGraph, RegionInput
<1>5. f.outputs \in Seq(Keys(f)) /\ f.outputs[1] \in ToSet(f.outputs)
  <2>1. f.outputs \in Seq(Nat \ {RegionInput}) BY <1>2 DEF IsFragment, NamedNodes
  <2>2. /\ Len(f.outputs) \in Nat \ {0} /\ DOMAIN f.outputs = 1 .. Len(f.outputs)
        /\ f.outputs \in [1 .. Len(f.outputs) -> Nat \ {RegionInput}]
    BY <1>2, <2>1
  <2>3. \A i \in 1 .. Len(f.outputs) : f.outputs[i] \in Keys(f) BY <1>2, <2>2 DEF ToSet
  <2>4. f.outputs \in [1 .. Len(f.outputs) -> Keys(f)] BY <2>2, <2>3
  <2>5. f.outputs \in Seq(Keys(f)) BY <2>2, <2>4
  <2> QED BY <2>2, <2>5 DEF ToSet
<1>6. \A k \in Keys(f) : DepsOf(f)[k] \in Seq(Nat) /\ DepsOf(f)[k] = NodeAt(f, k).deps
  BY <1>3 DEF IsGraph, DepsOf
<1>7. \A k \in Keys(f) : EntryOf(f, k).grant \subseteq RegionGrant BY <1>1, GrantedByRegion
<1> QED BY <1>2, <1>3, <1>4, <1>5, <1>6, <1>7

\* The dependencies of the children are children or the region's input.
LEMMA DepsInside ==
  ASSUME TypeInv, PlanInv, ChildrenInv, NEW k \in DOMAIN children
  PROVE  /\ children # NoChildren /\ DOMAIN children = Keys(planner.output)
         /\ Passes(planner.output) /\ k \in Nat \ {RegionInput}
         /\ children[k].deps \in Seq(Nat)
         /\ \A i \in DOMAIN children[k].deps :
              children[k].deps[i] = RegionInput \/ children[k].deps[i] \in DOMAIN children
<1>1. children \in [DOMAIN children -> ChildType] BY DEF TypeInv
<1>2. children # NoChildren BY <1>1, NoChildrenEmpty
<1>3. Materialized BY <1>2 DEF ChildrenInv
<1>4. Passes(planner.output) /\ DOMAIN children = Keys(planner.output)
  BY <1>3 DEF Materialized, PlanInv
<1>5. children[k].deps = DepsOf(planner.output)[k] BY <1>3 DEF Materialized
<1>6. /\ children[k].deps \in Seq(Nat) /\ k \in Nat \ {RegionInput}
      /\ ToSet(children[k].deps) \subseteq DOMAIN children \cup {RegionInput}
  BY <1>4, <1>5, PassesMeans
<1> QED BY <1>2, <1>4, <1>6 DEF ToSet

-----------------------------------------------------------------------------
(***************************************************************************)
(* How the children change.                                                *)
(***************************************************************************)

\* What no step does to a child: change its plan, its acceptance or its input.
Evolves(c, d) ==
  /\ ChildOK(d)
  /\ d.module = c.module /\ d.deps = c.deps /\ d.grant = c.grant
  /\ c.status = "SUCCEEDED" => d.status = "SUCCEEDED" /\ d.output = c.output
  /\ c.input # Null => d.input = c.input

\* An input that a step gives is the one that accepted results give.
Evolve ==
  /\ DOMAIN children' = DOMAIN children
  /\ children' \in [DOMAIN children -> ChildType]
  /\ \A k \in DOMAIN children :
       /\ Evolves(children[k], children'[k])
       /\ children'[k].input = children[k].input \/ Released(children, k, children'[k].input)

\* A step that leaves the children alone.
LEMMA SameEvolve ==
  ASSUME TypeInv, children' = children
  PROVE  Evolve
<1>1. children \in [DOMAIN children -> ChildType] /\ \A k \in DOMAIN children : ChildOK(children[k])
  BY DEF TypeInv
<1> QED BY <1>1 DEF Evolve, Evolves

\* A step that changes one child.
LEMMA UpdateEvolve ==
  ASSUME TypeInv, NEW k \in DOMAIN children, NEW d,
         children' = [children EXCEPT ![k] = d],
         Evolves(children[k], d), d.input = children[k].input \/ Released(children, k, d.input)
  PROVE  Evolve
<1>1. children \in [DOMAIN children -> ChildType] /\ \A j \in DOMAIN children : ChildOK(children[j])
  BY DEF TypeInv
<1>2. d \in ChildType BY DEF Evolves, ChildOK
<1>3. DOMAIN children' = DOMAIN children /\ children' \in [DOMAIN children -> ChildType]
  BY <1>1, <1>2
<1>4. ASSUME NEW j \in DOMAIN children
      PROVE  /\ Evolves(children[j], children'[j])
             /\ children'[j].input = children[j].input \/ Released(children, j, children'[j].input)
  <2>1. CASE j = k BY <1>1, <2>1
  <2>2. CASE j # k
    <3>1. children'[j] = children[j] BY <1>1, <2>2
    <3> QED BY <1>1, <3>1 DEF Evolves
  <2> QED BY <2>1, <2>2
<1> QED BY <1>3, <1>4 DEF Evolve

\* A step that changes the status, owner, output or attempt of a child in progress.
LEMMA TakeEvolve ==
  ASSUME TypeInv, NEW k \in DOMAIN children, NEW st \in ChildStatus, NEW v \in Seq(Nat) \cup {Null},
         NEW a \in Nat, NEW p \in Procs \cup {Null},
         children' = [children EXCEPT ![k] =
                        [children[k] EXCEPT !.status = st, !.output = v, !.attempt = a, !.owner = p]],
         children[k].status # "SUCCEEDED", v # Null <=> st = "SUCCEEDED",
         st \in {"BLOCKED", "CANCELLED"} \/ children[k].input # Null
  PROVE  Evolve
<1> DEFINE c == children[k]
           d == [c EXCEPT !.status = st, !.output = v, !.attempt = a, !.owner = p]
<1>1. ChildOK(c) /\ c \in ChildType BY DEF TypeInv, ChildOK
<1>2. /\ d.status = st /\ d.output = v /\ d.input = c.input
      /\ d.module = c.module /\ d.deps = c.deps /\ d.grant = c.grant
  BY <1>1 DEF ChildType
<1>3. d \in ChildType BY <1>1 DEF ChildType
<1> HIDE DEF c, d
<1>4. ChildOK(d) BY <1>2, <1>3 DEF ChildOK, c
<1>5. Evolves(c, d) BY <1>2, <1>4 DEF Evolves, c
<1>6. children' = [children EXCEPT ![k] = d] BY DEF d, c
<1>7. Evolves(children[k], d) /\ d.input = children[k].input BY <1>2, <1>5 DEF c
<1> QED BY <1>6, <1>7, UpdateEvolve

\* What the evolution of the children preserves.
LEMMA EvolveKeeps ==
  ASSUME IInv, Evolve
  PROVE  /\ \A k \in DOMAIN children' : ChildOK(children'[k])
         /\ children' # NoChildren <=> children # NoChildren
         /\ ReleasedInv'
         /\ \A k \in DOMAIN children : /\ children'[k].module = children[k].module
                                       /\ children'[k].deps = children[k].deps
                                       /\ children'[k].grant = children[k].grant
         /\ \A k \in DOMAIN children : children[k].status = "SUCCEEDED" =>
              children'[k].status = "SUCCEEDED" /\ children'[k].output = children[k].output
<1>1. /\ DOMAIN children' = DOMAIN children /\ children' \in [DOMAIN children -> ChildType]
      /\ \A k \in DOMAIN children : Evolves(children[k], children'[k])
      /\ children \in [DOMAIN children -> ChildType]
  BY DEF Evolve, IInv, TypeInv
<1>2. children' # NoChildren <=> children # NoChildren
  <2>1. \A S, T : \A f \in [S -> T] : f = NoChildren <=> S = {} BY NoChildrenEmpty
  <2> QED BY <1>1, <2>1, ZenonT(60)
<1>3. ASSUME NEW k \in DOMAIN children, NEW v, Released(children, k, v)
      PROVE  Released(children', k, v)
  <2>1. children'[k].deps = children[k].deps BY <1>1 DEF Evolves
  <2>2. /\ children[k].deps \in Seq(Nat)
        /\ \A i \in DOMAIN children[k].deps :
             children[k].deps[i] = RegionInput \/ children[k].deps[i] \in DOMAIN children
    BY DepsInside DEF IInv
  <2>3. ASSUME NEW i \in DOMAIN children[k].deps
        PROVE  /\ Available(children', children[k].deps[i])
               /\ ValueOf(children', children[k].deps[i]) = ValueOf(children, children[k].deps[i])
    <3>1. Available(children, children[k].deps[i]) BY <1>3 DEF Released, ToSet
    <3>2. CASE children[k].deps[i] = RegionInput BY <3>2 DEF Available, ValueOf
    <3>3. CASE children[k].deps[i] # RegionInput
      <4>1. Evolves(children[children[k].deps[i]], children'[children[k].deps[i]])
        BY <1>1, <2>2, <3>3
      <4> QED BY <3>1, <3>3, <4>1 DEF Available, ValueOf, Evolves
    <3> QED BY <3>2, <3>3
  <2>4. \A d \in ToSet(children'[k].deps) : Available(children', d) BY <2>1, <2>3 DEF ToSet
  <2>5. [i \in DOMAIN children'[k].deps |-> ValueOf(children', children'[k].deps[i])]
          = [i \in DOMAIN children[k].deps |-> ValueOf(children, children[k].deps[i])]
    BY <2>1, <2>3
  <2> QED BY <1>3, <2>4, <2>5 DEF Released
<1>4. ReleasedInv'
  <2> SUFFICES ASSUME NEW k \in DOMAIN children, children'[k].input # Null
               PROVE  Released(children', k, children'[k].input)
    BY <1>1 DEF ReleasedInv
  <2>1. Released(children, k, children'[k].input) BY DEF Evolve, IInv, ReleasedInv
  <2> QED BY <1>3, <2>1
<1>5. \A k \in DOMAIN children' : ChildOK(children'[k]) BY <1>1 DEF Evolves
<1>6. \A k \in DOMAIN children : /\ children'[k].module = children[k].module
                                 /\ children'[k].deps = children[k].deps
                                 /\ children'[k].grant = children[k].grant
  BY <1>1 DEF Evolves
<1>7. \A k \in DOMAIN children : children[k].status = "SUCCEEDED" =>
        children'[k].status = "SUCCEEDED" /\ children'[k].output = children[k].output
  BY <1>1 DEF Evolves
<1> QED BY <1>2, <1>4, <1>5, <1>6, <1>7

\* What a pass gives a child from its snapshot is what the store would give.
LEMMA ViewReleased ==
  ASSUME IInv, GeneratedRunAssumption, NEW p \in Procs, NEW k \in ToSet(todo[p])
  PROVE  LET deps == children[k].deps
             input == Bound([i \in DOMAIN deps |-> ValueOf(view[p], deps[i])])
         IN  k \in DOMAIN children /\ Released(children, k, input) /\ input \in Inputs /\ input # Null
<1> DEFINE deps == children[k].deps
           values == [i \in DOMAIN deps |-> ValueOf(view[p], deps[i])]
<1>1. /\ k \in DOMAIN view[p] /\ \A d \in ToSet(view[p][k].deps) : Available(view[p], d)
      /\ \A j \in DOMAIN view[p] :
           /\ view[p][j].deps = children[j].deps
           /\ view[p][j].status = "SUCCEEDED" =>
                children[j].status = "SUCCEEDED" /\ children[j].output = view[p][j].output
  BY DEF IInv, ViewInv
<1>2. DOMAIN view[p] = DOMAIN children /\ k \in DOMAIN children
  <2>1. view[p] \in [{} -> ChildType] \cup [DOMAIN children -> ChildType] BY DEF IInv, TypeInv
  <2> QED BY <1>1, <2>1
<1>3. /\ deps \in Seq(Nat)
      /\ \A i \in DOMAIN deps : deps[i] = RegionInput \/ deps[i] \in DOMAIN children
  BY <1>2, DepsInside DEF IInv
<1>4. ASSUME NEW i \in DOMAIN deps
      PROVE  /\ Available(children, deps[i]) /\ ValueOf(children, deps[i]) = values[i]
             /\ values[i] \in Seq(Nat)
  <2>1. Available(view[p], deps[i]) BY <1>1 DEF ToSet
  <2>2. values[i] = ValueOf(view[p], deps[i]) OBVIOUS
  <2>3. CASE deps[i] = RegionInput
    <3>1. RegionValue \in Seq(Nat) BY DEF RegionValue, RegionInput
    <3> QED BY <2>2, <2>3, <3>1 DEF Available, ValueOf
  <2>4. CASE deps[i] # RegionInput
    <3> DEFINE d == deps[i]
    <3>1. d \in DOMAIN children /\ view[p][d].status = "SUCCEEDED" BY <1>3, <2>1, <2>4 DEF Available
    <3>2. children[d].status = "SUCCEEDED" /\ children[d].output = view[p][d].output
      BY <1>1, <1>2, <3>1
    <3>3. ChildOK(children[d]) BY <3>1 DEF IInv, TypeInv
    <3>4. children[d].output \in Seq(Nat) BY <3>2, <3>3 DEF ChildOK, ChildType
    <3> HIDE DEF values
    <3> QED BY <2>2, <2>4, <3>1, <3>2, <3>4 DEF Available, ValueOf
  <2> QED BY <2>3, <2>4
<1>5. values = [i \in DOMAIN deps |-> ValueOf(children, deps[i])] BY <1>4
<1>6. Released(children, k, Bound(values)) BY <1>4, <1>5 DEF Released, ToSet
<1>7. values \in Seq(Seq(Nat))
  <2>1. DOMAIN deps = 1 .. Len(deps) /\ Len(deps) \in Nat BY <1>3
  <2>2. values \in [1 .. Len(deps) -> Seq(Nat)] BY <1>4, <2>1
  <2> HIDE DEF values
  <2> QED BY <2>1, <2>2
<1> HIDE DEF values
<1>8. Bound(values) \in Inputs
  <2>1. CASE Len(values) = 1
    <3>1. values[1] \in Seq(Nat) BY <1>7, <2>1
    <3> QED BY <2>1, <3>1 DEF Bound, Inputs
  <2>2. CASE Len(values) # 1 BY <1>7, <2>2 DEF Bound, Inputs
  <2> QED BY <2>1, <2>2
<1>9. Null \notin Inputs BY DEF GeneratedRunAssumption, Inputs
<1> QED BY <1>2, <1>6, <1>8, <1>9 DEF values

\* A pass makes a child ready with accepted results, or leaves the children alone.
LEMMA ReadyTaskEvolves ==
  ASSUME IInv, GeneratedRunAssumption, NEW p \in Procs, ReadyTask(p)
  PROVE  Evolve /\ Head(todo[p]) \in DOMAIN children
<1> DEFINE k == Head(todo[p])
           task == children[k]
           input == Bound([i \in DOMAIN task.deps |-> ValueOf(view[p], task.deps[i])])
           d == [task EXCEPT !.status = "READY", !.input = input]
<1>1. TypeInv /\ todo[p] \in Seq(DOMAIN children) /\ todo[p] # <<>>
  BY DEF IInv, TypeInv, ReadyTask
<1>2. k \in ToSet(todo[p]) /\ k \in DOMAIN children BY <1>1 DEF ToSet
<1>3. Released(children, k, input) /\ input \in Inputs /\ input # Null BY <1>2, ViewReleased
<1>4. ChildOK(task) BY <1>1, <1>2 DEF TypeInv
<1>5. \/ children' = children
      \/ task.status = "BLOCKED" /\ children' = [children EXCEPT ![k] = d]
  BY Zenon DEF ReadyTask
<1>6. CASE children' = children BY <1>1, <1>2, <1>6, SameEvolve
<1>7. CASE task.status = "BLOCKED" /\ children' = [children EXCEPT ![k] = d]
  <2> HIDE DEF input
  <2>1. /\ d.status = "READY" /\ d.input = input /\ d.output = task.output
        /\ d.module = task.module /\ d.deps = task.deps /\ d.grant = task.grant
    BY <1>4 DEF ChildOK, ChildType
  <2>2. d \in ChildType BY <1>3, <1>4 DEF ChildOK, ChildType, ChildStatus
  <2> HIDE DEF d, task
  <2>3. ChildOK(d) BY <1>3, <1>4, <1>7, <2>1, <2>2 DEF ChildOK
  <2>4. task.input = Null \/ task.input = input
    <3>1. task.input # Null => Released(children, k, task.input)
      BY <1>2 DEF IInv, ReleasedInv, task
    <3> QED BY <1>3, <3>1 DEF Released
  <2>5. Evolves(task, d) BY <1>7, <2>1, <2>3, <2>4 DEF Evolves
  <2>6. Evolves(children[k], d) /\ Released(children, k, d.input) BY <1>3, <2>1, <2>5 DEF task
  <2>7. Evolve BY <1>1, <1>2, <1>7, <2>6, UpdateEvolve DEF k
  <2> QED BY <1>2, <2>7
<1> QED BY <1>5, <1>6, <1>7

\* A claim, a result, a failure and a retry change one child in progress.
LEMMA ClaimEvolves ==
  ASSUME IInv, GeneratedRunAssumption, NEW p \in Procs, NEW k \in DOMAIN children,
         Claimable(k), Claim(p, k)
  PROVE  Evolve
<1> DEFINE c == children[k]
<1>1. TypeInv /\ ChildOK(c) /\ c \in ChildType BY DEF IInv, TypeInv, ChildOK
<1>2. c.status \in {"READY", "RUNNING"} BY DEF Claimable
<1>3. c.attempt + 1 \in Nat /\ c.output = Null /\ c.input # Null
  BY <1>1, <1>2 DEF ChildOK, ChildType
<1>4. children' = [children EXCEPT ![k] =
        [c EXCEPT !.status = "RUNNING", !.output = Null, !.attempt = c.attempt + 1, !.owner = p]]
  <2>1. children' = [children EXCEPT ![k] =
          [c EXCEPT !.status = "RUNNING", !.owner = p, !.attempt = c.attempt + 1]]
    BY DEF Claim
  <2>2. [c EXCEPT !.status = "RUNNING", !.owner = p, !.attempt = c.attempt + 1] =
        [c EXCEPT !.status = "RUNNING", !.output = Null, !.attempt = c.attempt + 1, !.owner = p]
    BY <1>1, <1>3 DEF ChildType
  <2> QED BY <2>1, <2>2
<1>5. "RUNNING" \in ChildStatus /\ Null \in Seq(Nat) \cup {Null} /\ p \in Procs \cup {Null}
  BY DEF ChildStatus
<1>6. c.status # "SUCCEEDED" BY <1>2
<1> DEFINE a == c.attempt + 1
<1>7. a \in Nat BY <1>3
<1>8. children' = [children EXCEPT ![k] =
        [children[k] EXCEPT !.status = "RUNNING", !.output = Null, !.attempt = a, !.owner = p]]
  BY <1>4
<1> HIDE DEF a
<1> QED BY <1>1, <1>3, <1>5, <1>6, <1>7, <1>8, TakeEvolve, ZenonT(60)

LEMMA CompleteEvolves ==
  ASSUME IInv, GeneratedRunAssumption, NEW p \in Procs, NEW k \in DOMAIN children,
         CompleteChild(p, k)
  PROVE  Evolve
<1> DEFINE c == children[k]
           v == <<k, c.attempt>>
<1>1. TypeInv /\ ChildOK(c) /\ c \in ChildType BY DEF IInv, TypeInv, ChildOK
<1>2. c.status = "RUNNING" BY DEF CompleteChild, Holds
<1>3. c.attempt \in Nat /\ c.input # Null BY <1>1, <1>2 DEF ChildOK, ChildType
<1>4. k \in Nat BY DepsInside DEF IInv
<1>5. v \in Seq(Nat) /\ v # Null
  <2>1. v \in Seq(Nat) BY <1>3, <1>4
  <2> QED BY <2>1 DEF GeneratedRunAssumption
<1>6. children' = [children EXCEPT ![k] =
        [c EXCEPT !.status = "SUCCEEDED", !.output = v, !.attempt = c.attempt, !.owner = Null]]
  <2>1. children' = [children EXCEPT ![k] =
          [c EXCEPT !.status = "SUCCEEDED", !.owner = Null, !.output = v]]
    BY DEF CompleteChild
  <2>2. [c EXCEPT !.status = "SUCCEEDED", !.owner = Null, !.output = v] =
        [c EXCEPT !.status = "SUCCEEDED", !.output = v, !.attempt = c.attempt, !.owner = Null]
    BY <1>1 DEF ChildType
  <2> QED BY <2>1, <2>2
<1> HIDE DEF c, v
<1> QED BY <1>1, <1>2, <1>3, <1>5, <1>6, TakeEvolve, ZenonT(60) DEF ChildStatus, c

LEMMA FailEvolves ==
  ASSUME IInv, NEW p \in Procs, NEW k \in DOMAIN children, FailChild(p, k)
  PROVE  Evolve
<1> DEFINE c == children[k]
<1>1. TypeInv /\ ChildOK(c) /\ c \in ChildType BY DEF IInv, TypeInv, ChildOK
<1>2. c.status = "RUNNING" BY DEF FailChild, Holds
<1>3. c.attempt \in Nat /\ c.output = Null /\ c.input # Null
  BY <1>1, <1>2 DEF ChildOK, ChildType
<1>4. PICK st \in {"FAILED", "READY"} :
        children' = [children EXCEPT ![k] = [c EXCEPT !.status = st, !.owner = Null]]
  BY DEF FailChild
<1>5. [c EXCEPT !.status = st, !.owner = Null] =
      [c EXCEPT !.status = st, !.output = Null, !.attempt = c.attempt, !.owner = Null]
  BY <1>1, <1>3 DEF ChildType
<1>6. st \in ChildStatus /\ Null \in Seq(Nat) \cup {Null} /\ Null \in Procs \cup {Null}
  BY DEF ChildStatus
<1>7. c.status # "SUCCEEDED" /\ st # "SUCCEEDED" BY <1>2
<1> DEFINE a == c.attempt
<1>8. children' = [children EXCEPT ![k] =
        [children[k] EXCEPT !.status = st, !.output = Null, !.attempt = a, !.owner = Null]]
  BY <1>4, <1>5
<1>9. a \in Nat BY <1>3
<1>10. (Null # Null <=> st = "SUCCEEDED") /\ children[k].status # "SUCCEEDED" BY <1>7
<1>11. st \in {"BLOCKED", "CANCELLED"} \/ children[k].input # Null BY <1>3
<1> HIDE DEF a, c
<1> QED BY <1>1, <1>6, <1>8, <1>9, <1>10, <1>11, TakeEvolve

LEMMA RetryEvolves ==
  ASSUME IInv, NEW k \in DOMAIN children, RetryTask(k)
  PROVE  Evolve
<1> DEFINE c == children[k]
           d == [c EXCEPT !.status = "READY"]
<1>1. TypeInv /\ ChildOK(c) /\ c \in ChildType BY DEF IInv, TypeInv, ChildOK
<1>2. c.status = "FAILED" /\ children' = [children EXCEPT ![k] = d] BY DEF RetryTask
<1>3. d \in ChildType BY <1>1 DEF ChildType, ChildStatus
<1>4. /\ d.status = "READY" /\ d.output = c.output /\ d.input = c.input
      /\ d.module = c.module /\ d.deps = c.deps /\ d.grant = c.grant
  BY <1>1 DEF ChildType
<1> HIDE DEF c, d
<1>5. Evolves(c, d) BY <1>1, <1>2, <1>3, <1>4 DEF Evolves, ChildOK
<1> QED BY <1>1, <1>2, <1>4, <1>5, UpdateEvolve DEF c

\* Cancelling a run and losing a process change children that are not accepted, or
\* only their owners.
LEMMA CancelEvolves ==
  ASSUME IInv, CancelRun
  PROVE  Evolve
<1>1. /\ children \in [DOMAIN children -> ChildType]
      /\ \A k \in DOMAIN children : ChildOK(children[k])
  BY DEF IInv, TypeInv
<1>2. ASSUME NEW c, ChildOK(c)
      PROVE  Evolves(c, Cancelled(c)) /\ Cancelled(c).input = c.input
  <2>1. CASE c.status \in Unfinished
    <3> DEFINE d == [c EXCEPT !.status = "CANCELLED"]
    <3>1. Cancelled(c) = d BY <2>1 DEF Cancelled
    <3>2. d \in ChildType BY <1>2 DEF ChildOK, ChildType, ChildStatus
    <3>3. /\ d.status = "CANCELLED" /\ d.output = c.output /\ d.input = c.input
          /\ d.module = c.module /\ d.deps = c.deps /\ d.grant = c.grant
      BY <1>2 DEF ChildOK, ChildType
    <3>4. c.status # "SUCCEEDED" BY <2>1 DEF Unfinished
    <3> HIDE DEF d
    <3> QED BY <1>2, <3>1, <3>2, <3>3, <3>4 DEF Evolves, ChildOK
  <2>2. CASE c.status \notin Unfinished BY <1>2, <2>2 DEF Cancelled, Evolves
  <2> QED BY <2>1, <2>2
<1>3. children' = [k \in DOMAIN children |-> Cancelled(children[k])] BY DEF CancelRun
<1>4. \A k \in DOMAIN children : Cancelled(children[k]) \in ChildType
  BY <1>1, <1>2 DEF Evolves, ChildOK
<1> QED BY <1>1, <1>2, <1>3, <1>4 DEF Evolve

LEMMA CrashEvolves ==
  ASSUME IInv, NEW p \in Procs, Crash(p)
  PROVE  Evolve
<1> DEFINE Freed(c) == IF c.owner = p THEN [c EXCEPT !.owner = Null] ELSE c
<1>1. /\ children \in [DOMAIN children -> ChildType]
      /\ \A k \in DOMAIN children : ChildOK(children[k])
  BY DEF IInv, TypeInv
<1>2. ASSUME NEW c, ChildOK(c)
      PROVE  Evolves(c, Freed(c)) /\ Freed(c).input = c.input
  <2> DEFINE d == [c EXCEPT !.owner = Null]
  <2>1. d \in ChildType BY <1>2 DEF ChildOK, ChildType
  <2>2. /\ d.status = c.status /\ d.output = c.output /\ d.input = c.input
        /\ d.module = c.module /\ d.deps = c.deps /\ d.grant = c.grant
    BY <1>2 DEF ChildOK, ChildType
  <2>3. Freed(c) = c \/ Freed(c) = d OBVIOUS
  <2> HIDE DEF d, Freed
  <2> QED BY <1>2, <2>1, <2>2, <2>3 DEF Evolves, ChildOK
<1>3. children' = [k \in DOMAIN children |-> Freed(children[k])] BY DEF Crash
<1> HIDE DEF Freed
<1>4. \A k \in DOMAIN children : Freed(children[k]) \in ChildType
  BY <1>1, <1>2 DEF Evolves, ChildOK
<1> QED BY <1>1, <1>2, <1>3, <1>4 DEF Evolve

\* Only materialization creates children; every other step lets them evolve.
LEMMA ChildrenStep ==
  ASSUME IInv, GeneratedRunAssumption, [Next]_vars,
         \A p \in Procs : ~(InsertChildren(p) /\ ~UNCHANGED children)
  PROVE  Evolve
<1>1. TypeInv /\ (children' = children => Evolve) BY SameEvolve DEF IInv
<1>2. CASE UNCHANGED vars BY <1>1, <1>2 DEF vars, storeVars
<1>3. CASE DriverStep
  <2>1. ASSUME \/ CreateRun \/ EnqueuePlanner \/ ClaimPlanner \/ PlannerRaises \/ AdoptDefinition
               \/ BeginMaterialize(Driver) \/ InsertChildren(Driver) \/ BeginAdvance(Driver)
               \/ Progress \/ LoseChild \/ CountTasks \/ CompleteRun \/ FailRun
        PROVE  Evolve
    BY <1>1, <2>1 DEF CreateRun, EnqueuePlanner, ClaimPlanner, PlannerRaises, AdoptDefinition,
      BeginMaterialize, BeginAdvance, Progress, LoseChild, CountTasks, CompleteRun, FailRun,
      storeVars, Procs
  <2>2. CASE ReadyTask(Driver) BY <2>2, ReadyTaskEvolves DEF Procs
  <2>3. CASE Execute
    <3>1. target \in DOMAIN children BY <2>3 DEF Execute, IInv, DriverInv
    <3>2. CASE Claimable(target) BY <2>3, <3>1, <3>2, ClaimEvolves DEF Execute, Procs
    <3>3. CASE ~Claimable(target) BY <1>1, <2>3, <3>3 DEF Execute
    <3> QED BY <3>2, <3>3
  <2>4. ASSUME NEW k \in DOMAIN children, CompleteChild(Driver, k) \/ FailChild(Driver, k)
        PROVE  Evolve
    BY <2>4, CompleteEvolves, FailEvolves DEF Procs
  <2> QED BY <1>3, <2>1, <2>2, <2>3, <2>4 DEF DriverStep
<1>4. CASE Judge \/ Verify BY <1>1, <1>4 DEF Judge, Verify
<1>5. ASSUME NEW f \in Fragments, PlannerReturns(f) PROVE Evolve
  BY <1>1, <1>5 DEF PlannerReturns
<1>6. ASSUME NEW p \in Peers, PeerStep(p) PROVE Evolve
  <2>1. p \in Procs BY DEF Procs
  <2>2. ASSUME \/ BeginMaterialize(p) \/ InsertChildren(p) \/ BeginAdvance(p) \/ EndPeerPass(p)
        PROVE  Evolve
    BY <1>1, <2>1, <2>2 DEF BeginMaterialize, BeginAdvance, EndPeerPass, storeVars
  <2>3. CASE ReadyTask(p) BY <2>1, <2>3, ReadyTaskEvolves
  <2>4. ASSUME NEW k \in DOMAIN children, PeerClaim(p, k) PROVE Evolve
    BY <2>1, <2>4, ClaimEvolves DEF PeerClaim
  <2>5. ASSUME NEW k \in DOMAIN children, CompleteChild(p, k) \/ FailChild(p, k) PROVE Evolve
    BY <2>1, <2>5, CompleteEvolves, FailEvolves
  <2> QED BY <1>6, <2>2, <2>3, <2>4, <2>5 DEF PeerStep
<1>7. CASE Command
  <2>1. CASE PauseRun \/ ResumeRun BY <1>1, <2>1 DEF PauseRun, ResumeRun
  <2> QED BY <1>7, <2>1, CancelEvolves, RetryEvolves DEF Command
<1>8. ASSUME NEW p \in Procs, Crash(p) PROVE Evolve BY <1>8, CrashEvolves
<1> QED BY <1>2, <1>3, <1>4, <1>5, <1>6, <1>7, <1>8 DEF Next

\* Materialization, when it is the first: the children are the nodes of the plan
\* that was approved, and those that wait for nothing have the region's input.
LEMMA InsertStep ==
  ASSUME IInv, GeneratedRunAssumption, NEW p \in Procs, InsertChildren(p),
         run.status = "RUNNING", ~Logged("PLAN_MATERIALIZED")
  PROVE  /\ children = NoChildren /\ DOMAIN children = {} /\ children' # NoChildren
         /\ planner.status = "SUCCEEDED" /\ planner' = planner /\ Passes(planner.output)
         /\ run.definition = "generated" /\ run' = run /\ Record("PLAN_MATERIALIZED")
         /\ DOMAIN children' = Keys(planner.output)
         /\ children' \in [DOMAIN children' -> ChildType]
         /\ \A k \in DOMAIN children' :
              /\ ChildOK(children'[k])
              /\ children'[k].module = EntryOf(planner.output, k).module
              /\ children'[k].deps = DepsOf(planner.output)[k]
              /\ children'[k].grant = EntryOf(planner.output, k).grant
              /\ children'[k].owner = Null /\ children'[k].status # "SUCCEEDED"
         /\ ReleasedInv'
<1> DEFINE plan == planner.output
           nodes == Resolve(plan)
<1>1. run.definition = "generated" BY DEF IInv, PlanInv, InsertChildren
<1>2. planner.status = "SUCCEEDED" /\ Passes(plan) BY <1>1 DEF IInv, PlanInv
<1>3. /\ planner' = planner /\ run' = run /\ Record("PLAN_MATERIALIZED")
      /\ children' = [k \in Keys(plan) |-> Child(nodes[k])]
  BY DEF InsertChildren, Planned
<1>4. children = NoChildren /\ DOMAIN children = {}
  <2>1. children = NoChildren BY DEF IInv, LogInv
  <2> QED BY <2>1 DEF NoChildren
<1>5. /\ Keys(plan) # {}
      /\ \A k \in Keys(plan) :
           /\ DepsOf(plan)[k] \in Seq(Nat) /\ DepsOf(plan)[k] = NodeAt(plan, k).deps
           /\ NodeAt(plan, k).alias \in DOMAIN Catalog
  BY <1>2, PassesMeans
<1>6. RegionValue \in Seq(Nat) /\ RegionValue # Null
  <2>1. RegionValue \in Seq(Nat) BY DEF RegionValue, RegionInput
  <2> QED BY <2>1 DEF GeneratedRunAssumption
<1>7. ASSUME NEW k \in Keys(plan)
      PROVE  LET c == Child(nodes[k])
             IN  /\ c.module = EntryOf(plan, k).module /\ c.deps = DepsOf(plan)[k]
                 /\ c.grant = EntryOf(plan, k).grant
                 /\ c.owner = Null /\ c.output = Null /\ c.status \in {"READY", "BLOCKED"}
                 /\ \/ c.status = "BLOCKED" /\ c.input = Null
                    \/ c.deps = <<RegionInput>> /\ c.input = RegionValue
                 /\ c \in ChildType
  <2> DEFINE c == Child(nodes[k])
  <2>1. nodes[k] = [entry |-> EntryOf(plan, k), deps |-> NodeAt(plan, k).deps] BY DEF Resolve
  <2>2. nodes[k].entry = EntryOf(plan, k) /\ nodes[k].deps = DepsOf(plan)[k] BY <1>5, <2>1
  <2> HIDE DEF nodes
  <2>3. /\ c.module = EntryOf(plan, k).module /\ c.deps = DepsOf(plan)[k]
        /\ c.grant = EntryOf(plan, k).grant
        /\ c.owner = Null /\ c.output = Null /\ c.status \in {"READY", "BLOCKED"}
        /\ \/ c.status = "BLOCKED" /\ c.input = Null
           \/ c.deps = <<RegionInput>> /\ c.input = RegionValue
    BY <2>2 DEF Child
  <2>4. c = [status |-> c.status, module |-> c.module, deps |-> c.deps, grant |-> c.grant,
             input |-> c.input, output |-> c.output, attempt |-> 0, owner |-> c.owner]
    BY DEF Child
  <2>5. /\ c.status \in ChildStatus /\ c.deps \in Seq(Nat)
        /\ c.input \in Inputs \cup {Null} /\ c.output \in Seq(Nat) \cup {Null}
        /\ c.owner \in Procs \cup {Null}
    BY <1>5, <1>6, <2>3 DEF ChildStatus, Inputs
  <2>6. /\ c.module \in {Catalog[a].module : a \in DOMAIN Catalog}
        /\ c.grant \in {Catalog[a].grant : a \in DOMAIN Catalog}
    BY <1>5, <2>3 DEF EntryOf
  <2> HIDE DEF c
  <2>7. c \in ChildType BY <2>4, <2>5, <2>6 DEF ChildType
  <2> QED BY <2>3, <2>7 DEF c
<1> HIDE DEF nodes
<1>8. DOMAIN children' = Keys(plan) /\ \A k \in Keys(plan) : children'[k] = Child(nodes[k])
  BY <1>3
<1>9. children' \in [DOMAIN children' -> ChildType]
  <2>1. \A k \in Keys(plan) : Child(nodes[k]) \in ChildType BY <1>7
  <2> QED BY <1>3, <2>1
<1>10. children' # NoChildren BY <1>5, <1>8 DEF NoChildren
<1>11. ASSUME NEW k \in DOMAIN children'
       PROVE  /\ ChildOK(children'[k])
              /\ children'[k].module = EntryOf(planner.output, k).module
              /\ children'[k].deps = DepsOf(planner.output)[k]
              /\ children'[k].grant = EntryOf(planner.output, k).grant
              /\ children'[k].owner = Null /\ children'[k].status # "SUCCEEDED"
              /\ children'[k].input # Null =>
                   children'[k].deps = <<RegionInput>> /\ children'[k].input = RegionValue
  <2>1. k \in Keys(plan) /\ children'[k] = Child(nodes[k]) BY <1>8
  <2> DEFINE c == children'[k]
  <2> HIDE DEF plan
  <2>2. /\ c.module = EntryOf(plan, k).module /\ c.deps = DepsOf(plan)[k]
        /\ c.grant = EntryOf(plan, k).grant
        /\ c.owner = Null /\ c.output = Null /\ c.status \in {"READY", "BLOCKED"}
        /\ \/ c.status = "BLOCKED" /\ c.input = Null
           \/ c.deps = <<RegionInput>> /\ c.input = RegionValue
        /\ c \in ChildType
    BY <1>7, <2>1
  <2> HIDE DEF c
  <2>3. ChildOK(c) BY <1>6, <2>2 DEF ChildOK
  <2> QED BY <2>2, <2>3 DEF c, plan
<1>12. ReleasedInv'
  <2> SUFFICES ASSUME NEW k \in DOMAIN children', children'[k].input # Null
               PROVE  Released(children', k, children'[k].input)
    BY DEF ReleasedInv
  <2>1. children'[k].deps = <<RegionInput>> /\ children'[k].input = RegionValue BY <1>11
  <2> DEFINE values == [i \in DOMAIN children'[k].deps |-> ValueOf(children', children'[k].deps[i])]
  <2>2. values = <<RegionValue>> BY <2>1 DEF ValueOf
  <2>3. Bound(values) = RegionValue BY <2>2 DEF Bound
  <2>4. \A d \in ToSet(children'[k].deps) : Available(children', d) BY <2>1 DEF ToSet, Available
  <2> QED BY <2>1, <2>3, <2>4 DEF Released
<1> QED BY <1>1, <1>2, <1>3, <1>4, <1>8, <1>9, <1>10, <1>11, <1>12

\* A plan that was returned stays, and so does the definition that was adopted.
LEMMA PlanStays ==
  ASSUME IInv, [Next]_vars
  PROVE  /\ planner.status = "SUCCEEDED" => planner' = planner
         /\ run.definition = "generated" => run'.definition = "generated"
<1>1. CASE UNCHANGED <<planner, run>> BY <1>1
<1>2. CASE CreateRun \/ CompleteRun \/ FailRun \/ PauseRun \/ ResumeRun \/ AdoptDefinition
  BY <1>2 DEF CreateRun, CompleteRun, FailRun, PauseRun, ResumeRun, AdoptDefinition, IInv, TypeInv
<1>3. CASE EnqueuePlanner \/ ClaimPlanner \/ PlannerRaises \/ \E f \in Fragments : PlannerReturns(f)
  BY <1>3 DEF EnqueuePlanner, ClaimPlanner, PlannerRaises, PlannerReturns, IInv, TriesInv, Fresh
<1>4. CASE CancelRun
  BY <1>4 DEF CancelRun, Cancelled, Unfinished, IInv, TypeInv
<1>5. ASSUME \/ Judge \/ Verify
             \/ \E p \in Procs : \/ BeginMaterialize(p) \/ InsertChildren(p) \/ BeginAdvance(p)
                                 \/ ReadyTask(p) \/ EndPeerPass(p) \/ Crash(p)
                                 \/ \E k \in DOMAIN children : \/ CompleteChild(p, k)
                                                               \/ FailChild(p, k) \/ PeerClaim(p, k)
             \/ Progress \/ Execute \/ LoseChild \/ CountTasks
             \/ \E k \in DOMAIN children : RetryTask(k)
      PROVE  UNCHANGED <<planner, run>>
  BY <1>5, Zenon DEF Judge, Verify, BeginMaterialize, InsertChildren, BeginAdvance, ReadyTask, EndPeerPass,
    Crash, CompleteChild, FailChild, PeerClaim, Progress, Execute, LoseChild, CountTasks, RetryTask,
    storeVars
<1>6. CASE UNCHANGED vars BY <1>1, <1>6 DEF vars, storeVars
<1> QED BY <1>1, <1>2, <1>3, <1>4, <1>5, <1>6 DEF Next, DriverStep, PeerStep, Command, Procs

-----------------------------------------------------------------------------
(***************************************************************************)
(* Every step preserves the types.                                         *)
(***************************************************************************)

\* The snapshot that the driver closes the run with has the outputs of the plan.
LEMMA ClosingView ==
  ASSUME IInv, pc[Driver] \in Closing
  PROVE  LET o == planner.output.outputs[1]
         IN  /\ o \in DOMAIN children /\ view[Driver][o].output = children[o].output
             /\ children[o].output \in Seq(Nat) \cup {Null}
<1> DEFINE o == planner.output.outputs[1]
<1>1. children # NoChildren BY DEF IInv, DriverInv, Closing, Working
<1>2. DOMAIN children = Keys(planner.output) /\ Passes(planner.output)
  BY <1>1 DEF IInv, ChildrenInv, Materialized, PlanInv
<1>3. o \in ToSet(planner.output.outputs) /\ o \in DOMAIN children BY <1>2, PassesMeans
<1>4. view[Driver] # NoChildren /\ view[Driver][o].status = "SUCCEEDED"
  BY <1>3 DEF IInv, DriverInv
<1>5. view[Driver] \in [{} -> ChildType] \cup [DOMAIN children -> ChildType]
  BY DEF IInv, TypeInv, Procs
<1>6. DOMAIN view[Driver] = DOMAIN children BY <1>4, <1>5 DEF NoChildren
<1>7. view[Driver][o].output = children[o].output
  BY <1>3, <1>4, <1>6 DEF IInv, ViewInv, Procs
<1>8. children[o] \in ChildType BY <1>3 DEF IInv, TypeInv
<1> QED BY <1>3, <1>7, <1>8 DEF ChildType

LEMMA RunTyped ==
  ASSUME IInv, [Next]_vars
  PROVE  run' \in [status : RunStatus, definition : {"bootstrap", "generated"},
                   output : Seq(Nat) \cup {Null}]
<1> DEFINE RunType == [status : RunStatus, definition : {"bootstrap", "generated"},
                       output : Seq(Nat) \cup {Null}]
<1> SUFFICES run' \in RunType OBVIOUS
<1>1. run \in RunType BY DEF IInv, TypeInv
<1>2. CASE UNCHANGED run BY <1>1, <1>2
<1>3. CASE CreateRun \/ AdoptDefinition \/ FailRun \/ PauseRun \/ ResumeRun \/ CancelRun
  BY <1>1, <1>3 DEF CreateRun, AdoptDefinition, FailRun, PauseRun, ResumeRun, CancelRun, RunStatus
<1>4. CASE CompleteRun
  <2>1. CASE run.status = "RUNNING"
    <3> DEFINE o == view[Driver][Planned.outputs[1]].output
    <3>1. o \in Seq(Nat) \cup {Null} BY <1>4, ClosingView DEF CompleteRun, Closing, Planned
    <3>2. run' = [run EXCEPT !.status = "SUCCEEDED", !.output = o] BY <1>4, <2>1 DEF CompleteRun
    <3> HIDE DEF o
    <3> QED BY <1>1, <3>1, <3>2 DEF RunStatus
  <2>2. CASE run.status # "RUNNING" BY <1>2, <1>4, <2>2 DEF CompleteRun
  <2> QED BY <2>1, <2>2
<1>5. ASSUME \/ Judge \/ Verify \/ EnqueuePlanner \/ ClaimPlanner \/ PlannerRaises
             \/ \E f \in Fragments : PlannerReturns(f)
             \/ \E p \in Procs : \/ BeginMaterialize(p) \/ InsertChildren(p) \/ BeginAdvance(p)
                                 \/ ReadyTask(p) \/ EndPeerPass(p) \/ Crash(p)
                                 \/ \E k \in DOMAIN children : \/ CompleteChild(p, k)
                                                               \/ FailChild(p, k) \/ PeerClaim(p, k)
             \/ Progress \/ Execute \/ LoseChild \/ CountTasks
             \/ \E k \in DOMAIN children : RetryTask(k)
      PROVE  UNCHANGED run
  BY <1>5, Zenon DEF Judge, Verify, EnqueuePlanner, ClaimPlanner, PlannerRaises, PlannerReturns,
    BeginMaterialize, InsertChildren, BeginAdvance, ReadyTask, EndPeerPass,
    Crash, CompleteChild, FailChild, PeerClaim, Progress, Execute, LoseChild, CountTasks, RetryTask,
    storeVars
<1>6. CASE UNCHANGED vars BY <1>2, <1>6 DEF vars, storeVars
<1> HIDE DEF RunType
<1> QED BY <1>2, <1>3, <1>4, <1>5, <1>6 DEF Next, DriverStep, PeerStep, Command, Procs

LEMMA PlannerTyped ==
  ASSUME IInv, GeneratedRunAssumption, [Next]_vars
  PROVE  /\ planner' \in [status : PlannerStatus, attempt : 0 .. MaxAttempts,
                          output : Fragments \cup {Null}]
         /\ planner'.output # Null <=> planner'.status = "SUCCEEDED"
         /\ tries' \in 0 .. MaxAttempts
<1> DEFINE PlannerType == [status : PlannerStatus, attempt : 0 .. MaxAttempts,
                           output : Fragments \cup {Null}]
           Typed(x) == x \in PlannerType /\ (x.output # Null <=> x.status = "SUCCEEDED")
<1> SUFFICES Typed(planner') /\ tries' \in 0 .. MaxAttempts OBVIOUS
<1>1. Typed(planner) /\ tries \in 0 .. MaxAttempts /\ MaxAttempts \in Nat
  BY DEF IInv, TypeInv, GeneratedRunAssumption
<1>2. CASE UNCHANGED <<planner, tries>> BY <1>1, <1>2
<1>3. ASSUME NEW st \in PlannerStatus, NEW a \in 0 .. MaxAttempts,
             st # "SUCCEEDED", planner.status # "SUCCEEDED",
             planner' = [planner EXCEPT !.status = st, !.attempt = a]
      PROVE  Typed(planner')
  BY <1>1, <1>3
<1>4. planner.attempt \in 0 .. MaxAttempts /\ planner = [planner EXCEPT !.attempt = planner.attempt]
  BY <1>1
<1>5. CASE EnqueuePlanner \/ CancelRun
  <2>1. tries' = tries BY <1>5 DEF EnqueuePlanner, CancelRun, procVars
  <2>2. CASE EnqueuePlanner
    BY <1>1, <2>2 DEF EnqueuePlanner, IInv, TriesInv, Fresh, PlannerStatus
  <2>3. CASE CancelRun
    BY <1>1, <2>1, <2>3 DEF CancelRun, Cancelled, Unfinished, PlannerStatus
  <2> HIDE DEF Typed
  <2> QED BY <1>1, <1>5, <2>1, <2>2, <2>3
<1>6. CASE ClaimPlanner
  <2>1. tries' = tries BY <1>6 DEF ClaimPlanner
  <2>2. CASE planner' = planner BY <1>1, <2>1, <2>2
  <2>3. CASE planner' # planner
    <3>1. planner.status = "READY" BY <1>6, <2>3 DEF ClaimPlanner
    <3>2. planner.attempt + 1 \in 0 .. MaxAttempts
      BY <1>1, <1>4, <1>6 DEF ClaimPlanner, IInv, TriesInv, Fresh
    <3>3. planner' = [planner EXCEPT !.status = "RUNNING", !.attempt = planner.attempt + 1]
      BY <1>6, <2>3 DEF ClaimPlanner
    <3>4. "RUNNING" \in PlannerStatus BY DEF PlannerStatus
    <3> HIDE DEF Typed
    <3> QED BY <1>1, <1>3, <2>1, <3>1, <3>2, <3>3, <3>4
  <2> QED BY <2>2, <2>3
<1>7. CASE PlannerRaises
  <2>1. tries' \in 0 .. MaxAttempts BY <1>1, <1>7 DEF PlannerRaises, IInv, TriesInv, Fresh
  <2>2. CASE planner' = planner BY <1>1, <2>1, <2>2
  <2>3. CASE planner' # planner
    BY <1>1, <1>7, <2>1, <2>3 DEF PlannerRaises, PlannerStatus
  <2> QED BY <2>2, <2>3
<1>8. ASSUME NEW f \in Fragments, PlannerReturns(f) PROVE Typed(planner') /\ tries' \in 0 .. MaxAttempts
  <2>1. f # Null BY DEF GeneratedRunAssumption
  <2> QED BY <1>1, <1>8, <2>1 DEF PlannerReturns, PlannerStatus
<1>9. ASSUME \/ Judge \/ Verify \/ CreateRun \/ AdoptDefinition \/ CompleteRun \/ FailRun
             \/ PauseRun \/ ResumeRun
             \/ \E p \in Procs : \/ BeginMaterialize(p) \/ InsertChildren(p) \/ BeginAdvance(p)
                                 \/ ReadyTask(p) \/ EndPeerPass(p) \/ Crash(p)
                                 \/ \E k \in DOMAIN children : \/ CompleteChild(p, k)
                                                               \/ FailChild(p, k) \/ PeerClaim(p, k)
             \/ Progress \/ Execute \/ LoseChild \/ CountTasks
             \/ \E k \in DOMAIN children : RetryTask(k)
      PROVE  UNCHANGED <<planner, tries>>
  BY <1>9, Zenon DEF Judge, Verify, CreateRun, AdoptDefinition, CompleteRun, FailRun, PauseRun, ResumeRun,
    BeginMaterialize, InsertChildren, BeginAdvance, ReadyTask, EndPeerPass,
    Crash, CompleteChild, FailChild, PeerClaim, Progress, Execute, LoseChild, CountTasks, RetryTask,
    storeVars, procVars
<1>10. CASE UNCHANGED vars BY <1>2, <1>10 DEF vars, storeVars, procVars
<1> HIDE DEF Typed
<1> QED
  BY <1>2, <1>5, <1>6, <1>7, <1>8, <1>9, <1>10 DEF Next, DriverStep, PeerStep, Command, Procs

\* A step records one event or none, and so what the log tells stays.
LEMMA LogGrows ==
  ASSUME IInv, [Next]_vars
  PROVE  /\ log' \in Seq(Events)
         /\ \A a, b : Before(a, b) => Before(a, b)'
         /\ \A a : Logged(a) => Logged(a)'
<1> DEFINE Grown == /\ log' \in Seq(Events)
                    /\ \A a, b : Before(a, b) => Before(a, b)'
                    /\ \A a : Logged(a) => Logged(a)'
<1>1. log \in Seq(Events) BY DEF IInv, TypeInv
<1>2. ASSUME NEW e \in Events, Record(e) PROVE Grown BY <1>1, <1>2, Recorded DEF Logged
<1>3. ASSUME log' = log PROVE Grown BY <1>1, <1>3 DEF Logged, Before
<1> SUFFICES Grown OBVIOUS
<1> HIDE DEF Grown
<1>4. ASSUME \/ Judge \/ Verify \/ AdoptDefinition \/ FailRun \/ \E p \in Procs : InsertChildren(p)
      PROVE  log' = log \/ \E e \in Events : Record(e)
  BY <1>4 DEF Judge, Verify, AdoptDefinition, FailRun, InsertChildren, Events
<1>5. ASSUME \/ CreateRun \/ EnqueuePlanner \/ ClaimPlanner \/ PlannerRaises
             \/ \E f \in Fragments : PlannerReturns(f)
             \/ CompleteRun \/ PauseRun \/ ResumeRun \/ CancelRun
             \/ \E p \in Procs : \/ BeginMaterialize(p) \/ BeginAdvance(p)
                                 \/ ReadyTask(p) \/ EndPeerPass(p) \/ Crash(p)
                                 \/ \E k \in DOMAIN children : \/ CompleteChild(p, k)
                                                               \/ FailChild(p, k) \/ PeerClaim(p, k)
             \/ Progress \/ Execute \/ LoseChild \/ CountTasks
             \/ \E k \in DOMAIN children : RetryTask(k)
      PROVE  log' = log
  BY <1>5, Zenon DEF CreateRun, EnqueuePlanner, ClaimPlanner, PlannerRaises, PlannerReturns, CompleteRun,
    PauseRun, ResumeRun, CancelRun, BeginMaterialize, BeginAdvance, ReadyTask, EndPeerPass,
    Crash, CompleteChild, FailChild, PeerClaim, Progress, Execute, LoseChild, CountTasks, RetryTask,
    storeVars
<1>6. ASSUME UNCHANGED vars PROVE log' = log BY <1>6 DEF vars, storeVars
<1> QED BY <1>2, <1>3, <1>4, <1>5, <1>6 DEF Next, DriverStep, PeerStep, Command, Procs

\* Where the steps lead: a step of one process, or of none, changes that one's label.
LEMMA PcTyped ==
  ASSUME IInv, GeneratedRunAssumption, [Next]_vars
  PROVE  /\ pc' \in [Procs -> DriverLabels \cup PeerLabels]
         /\ pc'[Driver] \in DriverLabels /\ \A p \in Peers : pc'[p] \in PeerLabels
<1> DEFINE Typed(x) == /\ x \in [Procs -> DriverLabels \cup PeerLabels]
                       /\ x[Driver] \in DriverLabels /\ \A p \in Peers : x[p] \in PeerLabels
<1> SUFFICES Typed(pc') OBVIOUS
<1>1. Typed(pc) /\ Driver \in Procs /\ Driver \notin Peers /\ \A p \in Procs : p # Driver <=> p \in Peers
  BY DEF IInv, TypeInv, GeneratedRunAssumption, Procs
<1>2. CASE pc' = pc BY <1>1, <1>2
<1>3. ASSUME NEW l \in DriverLabels, pc' = [pc EXCEPT ![Driver] = l] PROVE Typed(pc')
  BY <1>1, <1>3
<1>4. ASSUME NEW p \in Peers, NEW l \in PeerLabels, pc' = [pc EXCEPT ![p] = l] PROVE Typed(pc')
  BY <1>1, <1>4 DEF Procs
<1> HIDE DEF Typed
<1>5. ASSUME \/ CreateRun \/ EnqueuePlanner \/ ClaimPlanner \/ PlannerRaises
             \/ \E f \in Fragments : PlannerReturns(f)
             \/ Judge \/ Verify \/ AdoptDefinition \/ CompleteRun \/ FailRun
             \/ Progress \/ Execute \/ LoseChild \/ CountTasks
      PROVE  \E l \in DriverLabels : pc' = [pc EXCEPT ![Driver] = l]
  <2>1. /\ {"enqueue", "planner", "planning", "raised", "failing", "validate"} \subseteq DriverLabels
        /\ {"adopt", "materialize", "verify", "execute", "working", "advance"} \subseteq DriverLabels
        /\ {"count", "complete", "returned"} \subseteq DriverLabels
    BY DEF DriverLabels, Fresh, Served, Working, Closing, Ended
  <2>2. CASE \/ CreateRun \/ EnqueuePlanner \/ ClaimPlanner \/ PlannerRaises
             \/ \E f \in Fragments : PlannerReturns(f)
    BY <2>1, <2>2 DEF CreateRun, EnqueuePlanner, ClaimPlanner, PlannerRaises, PlannerReturns, Goto
  <2>3. CASE Judge \/ Verify \/ AdoptDefinition \/ CompleteRun \/ FailRun
    BY <2>1, <2>3 DEF Judge, Verify, AdoptDefinition, CompleteRun, FailRun, Goto
  <2>4. CASE Progress \/ Execute \/ LoseChild \/ CountTasks
    BY <2>1, <2>4 DEF Progress, Execute, LoseChild, CountTasks, Back, Goto
  <2> QED BY <1>5, <2>2, <2>3, <2>4
<1>6. ASSUME NEW p \in Procs,
             \/ BeginMaterialize(p) \/ InsertChildren(p) \/ BeginAdvance(p) \/ ReadyTask(p)
             \/ EndPeerPass(p) \/ Crash(p)
             \/ \E k \in DOMAIN children : CompleteChild(p, k) \/ FailChild(p, k)
      PROVE  \/ pc' = pc
             \/ p = Driver /\ \E l \in DriverLabels : pc' = [pc EXCEPT ![Driver] = l]
             \/ p \in Peers /\ \E l \in PeerLabels : pc' = [pc EXCEPT ![p] = l]
  <2>1. /\ {"advance", "insert", "failing", "passing", "crashed"} \subseteq DriverLabels
        /\ {"idle", "insert", "passing", "crashed"} \subseteq PeerLabels
    BY DEF DriverLabels, Fresh, Served, Working, Closing, Ended, PeerLabels
  <2>2. CASE BeginMaterialize(p)
    BY <1>1, <2>1, <2>2 DEF BeginMaterialize, Raise, Goto
  <2>3. CASE InsertChildren(p) BY <1>1, <2>1, <2>3 DEF InsertChildren, Raise, Goto
  <2>4. CASE BeginAdvance(p) \/ EndPeerPass(p) \/ Crash(p)
    BY <1>1, <2>1, <2>4 DEF BeginAdvance, EndPeerPass, Crash, Goto
  <2>5. CASE ReadyTask(p) BY <1>1, <2>1, <2>5, Zenon DEF ReadyTask, Raise, Goto
  <2>6. ASSUME NEW k \in DOMAIN children, CompleteChild(p, k) \/ FailChild(p, k)
        PROVE  \/ pc' = pc
               \/ p = Driver /\ \E l \in DriverLabels : pc' = [pc EXCEPT ![Driver] = l]
    BY <1>1, <2>1, <2>6 DEF CompleteChild, FailChild, Back, Goto
  <2> QED BY <1>6, <2>2, <2>3, <2>4, <2>5, <2>6
<1>7. ASSUME \/ PauseRun \/ ResumeRun \/ CancelRun
             \/ \E k \in DOMAIN children : RetryTask(k) \/ \E p \in Peers : PeerClaim(p, k)
      PROVE  pc' = pc
  BY <1>7 DEF PauseRun, ResumeRun, CancelRun, RetryTask, PeerClaim, procVars
<1>8. CASE UNCHANGED vars BY <1>2, <1>8 DEF vars, procVars
<1>9. ASSUME NEW p \in Procs,
             \/ BeginMaterialize(p) \/ InsertChildren(p) \/ BeginAdvance(p) \/ ReadyTask(p)
             \/ EndPeerPass(p) \/ Crash(p)
             \/ \E k \in DOMAIN children : CompleteChild(p, k) \/ FailChild(p, k)
      PROVE  Typed(pc')
  BY <1>2, <1>3, <1>4, <1>6, <1>9
<1>10. CASE DriverStep BY <1>1, <1>3, <1>5, <1>9, <1>10 DEF DriverStep
<1>11. ASSUME NEW p \in Peers, PeerStep(p) PROVE Typed(pc')
  BY <1>1, <1>2, <1>7, <1>9, <1>11 DEF PeerStep, Procs
<1>12. CASE Command BY <1>2, <1>7, <1>12 DEF Command
<1>13. CASE Judge \/ Verify \/ \E f \in Fragments : PlannerReturns(f) BY <1>3, <1>5, <1>13
<1>14. CASE \E p \in Procs : Crash(p) BY <1>9, <1>14
<1> QED BY <1>8, <1>10, <1>11, <1>12, <1>13, <1>14 DEF Next

-----------------------------------------------------------------------------
(***************************************************************************)
(* Every step preserves what the passes rely on.                           *)
(***************************************************************************)

\* A snapshot v and a list t of children to make ready, against the store's tasks.
PassOK(tasks, v, t) ==
  /\ v \in [{} -> ChildType] \cup [DOMAIN tasks -> ChildType]
  /\ t \in Seq(DOMAIN tasks)
  /\ \A k \in DOMAIN v :
       /\ v[k].deps = tasks[k].deps
       /\ v[k].status = "SUCCEEDED" =>
            tasks[k].status = "SUCCEEDED" /\ tasks[k].output = v[k].output
  /\ \A k \in ToSet(t) : k \in DOMAIN v /\ \A d \in ToSet(v[k].deps) : Available(v, d)

LEMMA PassNone ==
  ASSUME NEW tasks
  PROVE  PassOK(tasks, NoChildren, <<>>)
<1>1. NoChildren \in [{} -> ChildType] /\ DOMAIN NoChildren = {} BY DEF NoChildren
<1>2. <<>> \in Seq(DOMAIN tasks) /\ ToSet(<<>>) = {} BY DEF ToSet
<1> QED BY <1>1, <1>2 DEF PassOK

\* A snapshot stays good as the children evolve.
LEMMA PassEvolves ==
  ASSUME IInv, Evolve, NEW v, NEW t, PassOK(children, v, t)
  PROVE  PassOK(children', v, t)
<1>1. DOMAIN children' = DOMAIN children BY DEF Evolve
<1>2. \A k \in DOMAIN children :
        /\ children'[k].deps = children[k].deps
        /\ children[k].status = "SUCCEEDED" =>
             children'[k].status = "SUCCEEDED" /\ children'[k].output = children[k].output
  BY EvolveKeeps
<1>3. DOMAIN v = {} \/ DOMAIN v = DOMAIN children BY DEF PassOK
<1>4. \A k \in DOMAIN v :
        /\ v[k].deps = children'[k].deps
        /\ v[k].status = "SUCCEEDED" =>
             children'[k].status = "SUCCEEDED" /\ children'[k].output = v[k].output
  BY <1>2, <1>3 DEF PassOK
<1> QED BY <1>1, <1>4 DEF PassOK

\* The children that a set of numbers lists, from the least to the greatest.
LEMMA AscendingOf ==
  ASSUME NEW S \in SUBSET Nat, IsFiniteSet(S)
  PROVE  Ascending(S) \in Seq(S)
<1> DEFINE d == Descending(S)
<1>1. d \in Seq(S) BY DescendingOf
<1>2. Len(d) \in Nat /\ d \in [1 .. Len(d) -> S] BY <1>1
<1>3. \A i \in 1 .. Len(d) : (Len(d) - i) + 1 \in 1 .. Len(d) BY <1>2
<1>4. Ascending(S) = [i \in 1 .. Len(d) |-> d[(Len(d) - i) + 1]] BY DEF Ascending, Reverse
<1> HIDE DEF d
<1>5. Ascending(S) \in [1 .. Len(d) -> S] BY <1>2, <1>3, <1>4
<1> QED BY <1>2, <1>5

\* A new snapshot is good for the children that it finds releasable.
LEMMA PassBegins ==
  ASSUME IInv
  PROVE  PassOK(children, children, Ascending(Releasable(children)))
<1> DEFINE S == Releasable(children)
           t == Ascending(S)
<1>1. /\ children \in [DOMAIN children -> ChildType]
      /\ S \in SUBSET DOMAIN children
      /\ \A k \in S : \A d \in ToSet(children[k].deps) : Available(children, d)
  BY DEF IInv, TypeInv, Releasable
<1>2. DOMAIN children \in SUBSET Nat /\ IsFiniteSet(DOMAIN children)
  <2>1. CASE children = NoChildren
    <3>1. DOMAIN children = {} BY <2>1 DEF NoChildren
    <3> QED BY <3>1, FS_EmptySet
  <2>2. CASE children # NoChildren
    <3>1. DOMAIN children = Keys(planner.output) /\ Passes(planner.output)
      BY <2>2 DEF IInv, ChildrenInv, Materialized, PlanInv
    <3> QED BY <3>1, PassesMeans
  <2> QED BY <2>1, <2>2
<1> HIDE DEF S
<1>3. S \in SUBSET Nat /\ IsFiniteSet(S) BY <1>1, <1>2, FS_Subset
<1>4. t \in Seq(S) BY <1>3, AscendingOf
<1>5. t \in Seq(DOMAIN children) /\ \A k \in ToSet(t) : k \in S BY <1>1, <1>4 DEF ToSet
<1> HIDE DEF t
<1>6. PassOK(children, children, t) BY <1>1, <1>5 DEF PassOK
<1> QED BY <1>6 DEF t, S

\* A pass goes on with the rest of its list, or is over.
LEMMA PassTail ==
  ASSUME NEW tasks, NEW v, NEW t, PassOK(tasks, v, t), t # <<>>
  PROVE  PassOK(tasks, v, Tail(t))
<1>1. /\ t \in Seq(DOMAIN tasks) /\ Tail(t) \in Seq(DOMAIN tasks)
      /\ \A i \in DOMAIN Tail(t) : i + 1 \in DOMAIN t /\ Tail(t)[i] = t[i + 1]
  BY DEF PassOK
<1>2. ToSet(Tail(t)) \subseteq ToSet(t) BY <1>1 DEF ToSet
<1> QED BY <1>1, <1>2 DEF PassOK

PassesOK ==
  /\ view \in [Procs -> [{} -> ChildType] \cup [DOMAIN children -> ChildType]]
  /\ todo \in [Procs -> Seq(DOMAIN children)]
  /\ ViewInv

LEMMA PassesMean ==
  PassesOK <=> /\ view = [p \in Procs |-> view[p]] /\ todo = [p \in Procs |-> todo[p]]
               /\ \A p \in Procs : PassOK(children, view[p], todo[p])
BY DEF PassesOK, ViewInv, PassOK

\* The first materialization against every other step.
LEMMA InsertOrEvolve ==
  ASSUME IInv, GeneratedRunAssumption, [Next]_vars
  PROVE  \/ Evolve
         \/ \E p \in Procs :
              InsertChildren(p) /\ run.status = "RUNNING" /\ ~Logged("PLAN_MATERIALIZED")
<1>1. CASE \E p \in Procs : InsertChildren(p) /\ ~UNCHANGED children
  BY <1>1 DEF InsertChildren
<1>2. CASE ~ \E p \in Procs : InsertChildren(p) /\ ~UNCHANGED children
  BY <1>2, ChildrenStep
<1> QED BY <1>1, <1>2

\* The steps that begin, continue or end a pass.
LEMMA PassSteps ==
  ASSUME [Next]_vars
  PROVE  \/ view' = view /\ todo' = todo
         \/ \E p \in Procs : BeginAdvance(p) \/ ReadyTask(p) \/ Crash(p)
         \/ Progress
<1>1. ASSUME \/ CreateRun \/ EnqueuePlanner \/ ClaimPlanner \/ PlannerRaises \/ AdoptDefinition
             \/ \E f \in Fragments : PlannerReturns(f)
             \/ Judge \/ Verify \/ CompleteRun \/ FailRun \/ PauseRun \/ ResumeRun \/ CancelRun
             \/ Execute \/ LoseChild \/ CountTasks
             \/ \E p \in Procs : \/ BeginMaterialize(p) \/ InsertChildren(p) \/ EndPeerPass(p)
                                 \/ \E k \in DOMAIN children : \/ CompleteChild(p, k)
                                                               \/ FailChild(p, k) \/ PeerClaim(p, k)
             \/ \E k \in DOMAIN children : RetryTask(k)
      PROVE  view' = view /\ todo' = todo
  BY <1>1, Zenon DEF CreateRun, EnqueuePlanner, ClaimPlanner, PlannerRaises, AdoptDefinition, PlannerReturns,
    Judge, Verify, CompleteRun, FailRun, PauseRun, ResumeRun, CancelRun, Execute, LoseChild, CountTasks,
    BeginMaterialize, InsertChildren, EndPeerPass, CompleteChild, FailChild, PeerClaim, RetryTask,
    procVars
<1>2. CASE UNCHANGED vars BY <1>2 DEF vars, procVars
<1> QED BY <1>1, <1>2 DEF Next, DriverStep, PeerStep, Command, Procs

LEMMA PassStep ==
  ASSUME IInv, GeneratedRunAssumption, [Next]_vars
  PROVE  PassesOK'
<1>1. /\ view = [p \in Procs |-> view[p]] /\ todo = [p \in Procs |-> todo[p]]
      /\ \A p \in Procs : PassOK(children, view[p], todo[p])
  BY PassesMean DEF IInv, TypeInv, PassesOK
<1>2. \A p \in Procs : PassOK(children', view[p], todo[p])
  <2> SUFFICES ASSUME NEW p \in Procs PROVE PassOK(children', view[p], todo[p]) OBVIOUS
  <2>1. CASE Evolve BY <1>1, <2>1, PassEvolves
  <2>2. ASSUME NEW q \in Procs, InsertChildren(q), run.status = "RUNNING",
               ~Logged("PLAN_MATERIALIZED")
        PROVE  PassOK(children', view[p], todo[p])
    <3>1. DOMAIN children = {} BY <2>2, InsertStep
    <3>2. DOMAIN view[p] = {} /\ view[p] \in [{} -> ChildType] /\ todo[p] \in Seq({})
      BY <1>1, <3>1 DEF PassOK
    <3>3. todo[p] = <<>> BY <3>2
    <3>4. view[p] = NoChildren BY <3>2 DEF NoChildren
    <3> QED BY <3>3, <3>4, PassNone
  <2> QED BY <2>1, <2>2, InsertOrEvolve
<1>3. ASSUME NEW p \in Procs, NEW v, NEW t, PassOK(children', v, t),
             view' = [view EXCEPT ![p] = v], todo' = [todo EXCEPT ![p] = t]
      PROVE  PassesOK'
  <2>1. /\ view' = [q \in Procs |-> view'[q]] /\ todo' = [q \in Procs |-> todo'[q]]
        /\ \A q \in Procs : PassOK(children', view'[q], todo'[q])
    BY <1>1, <1>2, <1>3
  <2> QED BY <2>1 DEF PassesOK, ViewInv, PassOK
<1>4. CASE view' = view /\ todo' = todo
  <2>1. Driver \in Procs BY DEF Procs
  <2>2. view' = [view EXCEPT ![Driver] = view[Driver]] /\ todo' = [todo EXCEPT ![Driver] = todo[Driver]]
    BY <1>1, <1>4
  <2> QED BY <1>2, <1>3, <2>1, <2>2
<1>5. ASSUME NEW p \in Procs, BeginAdvance(p) PROVE PassesOK'
  <2> DEFINE t == Ascending(Releasable(children))
             v == IF t = <<>> THEN NoChildren ELSE children
  <2>1. todo' = [todo EXCEPT ![p] = t] /\ children' = children BY <1>5 DEF BeginAdvance, storeVars
  <2>2. todo'[p] = t BY <1>1, <2>1
  <2>3. view' = [view EXCEPT ![p] = v] BY <1>5, <2>2 DEF BeginAdvance
  <2>4. PassOK(children, children, t) BY PassBegins
  <2> HIDE DEF t
  <2>5. PassOK(children', v, t) BY <2>1, <2>4, PassNone
  <2> QED BY <1>3, <2>1, <2>3, <2>5
<1>6. ASSUME NEW p \in Procs, ReadyTask(p) PROVE PassesOK'
  <2> DEFINE v(t) == IF t = <<>> THEN NoChildren ELSE view[p]
  <2>1. todo[p] # <<>> BY <1>6 DEF ReadyTask
  <2>2. PICK t \in {Tail(todo[p]), <<>>} : todo' = [todo EXCEPT ![p] = t] BY <1>6 DEF ReadyTask
  <2>3. view' = [view EXCEPT ![p] = v(t)]
    <3>1. todo'[p] = t BY <1>1, <2>2
    <3> QED BY <1>1, <1>6, <3>1 DEF ReadyTask
  <2>4. PassOK(children', view[p], Tail(todo[p])) BY <1>2, <2>1, PassTail
  <2>5. PassOK(children', v(t), t) BY <2>2, <2>4, PassNone
  <2> HIDE DEF v
  <2> QED BY <1>3, <2>2, <2>3, <2>5
<1>7. CASE Progress
  <2> DEFINE v == IF Complete(children) THEN children ELSE NoChildren
  <2>1. /\ view' = [view EXCEPT ![Driver] = v] /\ todo' = todo /\ children' = children
        /\ todo[Driver] = <<>> /\ Driver \in Procs
    BY <1>7 DEF Progress, storeVars, Procs
  <2>2. todo' = [todo EXCEPT ![Driver] = <<>>] BY <1>1, <2>1
  <2>3. PassOK(children, children, <<>>) BY PassBegins DEF PassOK, ToSet
  <2>4. PassOK(children', v, <<>>) BY <2>1, <2>3, PassNone
  <2> HIDE DEF v
  <2> QED BY <1>3, <2>1, <2>2, <2>4
<1>8. ASSUME NEW p \in Procs, Crash(p) PROVE PassesOK'
  <2>1. view' = [view EXCEPT ![p] = NoChildren] /\ todo' = [todo EXCEPT ![p] = <<>>]
    BY <1>8 DEF Crash
  <2> QED BY <1>3, <2>1, PassNone
<1> QED BY <1>4, <1>5, <1>6, <1>7, <1>8, PassSteps

LEMMA TypeStep ==
  ASSUME IInv, GeneratedRunAssumption, [Next]_vars
  PROVE  TypeInv' /\ ViewInv' /\ ReleasedInv'
<1>1. PassesOK' BY PassStep
<1>2. /\ children' \in [DOMAIN children' -> ChildType]
      /\ \A k \in DOMAIN children' : ChildOK(children'[k])
      /\ ReleasedInv'
  <2>1. CASE Evolve BY <2>1, EvolveKeeps DEF Evolve
  <2>2. ASSUME NEW p \in Procs, InsertChildren(p), run.status = "RUNNING",
               ~Logged("PLAN_MATERIALIZED")
        PROVE  /\ children' \in [DOMAIN children' -> ChildType]
               /\ \A k \in DOMAIN children' : ChildOK(children'[k])
               /\ ReleasedInv'
    BY <2>2, InsertStep
  <2> QED BY <2>1, <2>2, InsertOrEvolve
<1>3. faults' \in 0 .. FaultBound
  <2>1. faults \in 0 .. FaultBound /\ FaultBound \in Nat
    BY DEF IInv, TypeInv, GeneratedRunAssumption
  <2>2. ASSUME \/ CreateRun \/ EnqueuePlanner \/ ClaimPlanner \/ PlannerRaises \/ AdoptDefinition
               \/ \E f \in Fragments : PlannerReturns(f)
               \/ Judge \/ Verify \/ CompleteRun \/ FailRun \/ ResumeRun
               \/ Progress \/ Execute \/ LoseChild \/ CountTasks
               \/ \E p \in Procs : \/ BeginMaterialize(p) \/ InsertChildren(p) \/ EndPeerPass(p)
                                   \/ BeginAdvance(p) \/ ReadyTask(p)
                                   \/ \E k \in DOMAIN children : \/ CompleteChild(p, k)
                                                                 \/ FailChild(p, k) \/ PeerClaim(p, k)
        PROVE  faults' = faults
    BY <2>2, Zenon DEF CreateRun, EnqueuePlanner, ClaimPlanner, PlannerRaises, AdoptDefinition,
      PlannerReturns, Judge, Verify, CompleteRun, FailRun, ResumeRun, Progress, Execute, LoseChild,
      CountTasks, BeginMaterialize, InsertChildren, EndPeerPass, BeginAdvance, ReadyTask,
      CompleteChild, FailChild, PeerClaim
  <2>3. ASSUME \/ PauseRun \/ CancelRun \/ \E k \in DOMAIN children : RetryTask(k)
               \/ \E p \in Procs : Crash(p)
        PROVE  faults' = faults + 1 /\ faults < FaultBound
    BY <2>3 DEF PauseRun, CancelRun, RetryTask, Crash, Fault
  <2>4. ASSUME UNCHANGED vars PROVE faults' = faults BY <2>4 DEF vars
  <2>5. faults' = faults \/ (faults' = faults + 1 /\ faults < FaultBound)
    BY <2>2, <2>3, <2>4 DEF Next, DriverStep, PeerStep, Command, Procs
  <2> QED BY <2>1, <2>5
<1> QED
  BY <1>1, <1>2, <1>3, RunTyped, PlannerTyped, LogGrows, PcTyped DEF TypeInv, PassesOK

-----------------------------------------------------------------------------
(***************************************************************************)
(* Every step preserves the rest of the invariant.                         *)
(***************************************************************************)

\* The steps of peers and the commands, as the driver sees them.
Bystanders ==
  /\ pc'[Driver] = pc[Driver] /\ tries' = tries /\ target' = target
  /\ view'[Driver] = view[Driver]
  /\ planner' = planner \/ planner' = Cancelled(planner)
  /\ run'.definition = run.definition /\ run'.output = run.output
  /\ run'.status = "SUCCEEDED" => run.status = "SUCCEEDED"
  /\ \/ log' = log
     \/ \E p \in Procs : /\ InsertChildren(p) /\ Record("PLAN_MATERIALIZED")
                         /\ run.status = "RUNNING" /\ ~Logged("PLAN_MATERIALIZED")
  /\ \A k \in DOMAIN children :
       (children'[k].owner = Driver /\ children'[k].status = "RUNNING") => Holds(Driver, k)
  /\ \A p \in Procs : pc'[p] = "insert" => pc[p] = "insert" \/ run.definition = "generated"

LEMMA BystandersSee ==
  ASSUME IInv, GeneratedRunAssumption, [Next]_vars
  PROVE  \/ DriverStep \/ Judge \/ Verify \/ (\E f \in Fragments : PlannerReturns(f))
         \/ Crash(Driver) \/ Bystanders
<1>1. /\ Driver \in Procs /\ Driver \notin Peers
      /\ pc \in [Procs -> DriverLabels \cup PeerLabels] /\ DOMAIN view = Procs
      /\ children \in [DOMAIN children -> ChildType]
      /\ DOMAIN run = {"status", "definition", "output"}
  BY DEF IInv, TypeInv, GeneratedRunAssumption, Procs
<1>2. CASE UNCHANGED vars BY <1>2 DEF vars, storeVars, procVars, Bystanders, Holds
<1>3. ASSUME NEW p \in Peers, BeginMaterialize(p) \/ EndPeerPass(p) \/ BeginAdvance(p)
      PROVE  Bystanders
  BY <1>1, <1>3 DEF BeginMaterialize, EndPeerPass, BeginAdvance, Raise, Goto, storeVars, procVars,
    Bystanders, Holds
<1>4. ASSUME NEW p \in Peers, InsertChildren(p) PROVE Bystanders
  <2>1. CASE run.status # "RUNNING" \/ Logged("PLAN_MATERIALIZED")
    BY <1>1, <1>4, <2>1 DEF InsertChildren, Raise, Goto, Bystanders, Holds
  <2>2. CASE run.status = "RUNNING" /\ ~Logged("PLAN_MATERIALIZED")
    <3>1. DOMAIN children = {} /\ p \in Procs BY <1>4, <2>2, InsertStep DEF Procs
    <3> QED BY <1>1, <1>4, <2>2, <3>1 DEF InsertChildren, Goto, Bystanders
  <2> QED BY <2>1, <2>2
<1>5. ASSUME NEW p \in Peers, ReadyTask(p) PROVE Bystanders
  <2>1. /\ UNCHANGED <<run, planner, log, target, tries>>
        /\ pc'[Driver] = pc[Driver] /\ \A q \in Procs : pc'[q] = "insert" => pc[q] = "insert"
        /\ view'[Driver] = view[Driver]
    BY <1>1, <1>5 DEF ReadyTask, Raise, Goto
  <2>2. \A k \in DOMAIN children :
          (children'[k].owner = Driver /\ children'[k].status = "RUNNING") => Holds(Driver, k)
    <3>1. \A k \in DOMAIN children : children[k] \in ChildType BY <1>1
    <3>2. PICK h, x : \/ children' = children
                      \/ children' = [children EXCEPT ![h].status = "READY", ![h].input = x]
      BY <1>5, Zenon DEF ReadyTask
    <3>3. ASSUME NEW k \in DOMAIN children, children' # children
          PROVE  \/ children'[k] = children[k]
                 \/ children'[k].status = "READY"
      BY <1>1, <3>1, <3>2, <3>3 DEF ChildType
    <3> QED BY <1>1, <3>3 DEF Holds
  <2> QED BY <2>1, <2>2, SMTT(30) DEF Bystanders
<1>6. ASSUME NEW p \in Peers, NEW j \in DOMAIN children,
             PeerClaim(p, j) \/ CompleteChild(p, j) \/ FailChild(p, j)
      PROVE  Bystanders
  <2>1. UNCHANGED <<run, planner, log, pc, view, target, tries>>
    BY <1>1, <1>6 DEF PeerClaim, CompleteChild, FailChild, Back, procVars
  <2>2. \A k \in DOMAIN children : children[k] \in ChildType BY <1>1
  <2>3. \A k \in DOMAIN children :
          (children'[k].owner = Driver /\ children'[k].status = "RUNNING") => Holds(Driver, k)
    <3>1. CASE PeerClaim(p, j)
      BY <1>1, <2>2, <3>1 DEF PeerClaim, Claim, Holds, ChildType
    <3>2. CASE CompleteChild(p, j) BY <1>1, <2>2, <3>2 DEF CompleteChild, Holds, ChildType
    <3>3. CASE FailChild(p, j) BY <1>1, <2>2, <3>3 DEF FailChild, Holds, ChildType
    <3> QED BY <1>6, <3>1, <3>2, <3>3
  <2> QED BY <2>1, <2>3 DEF Bystanders
<1>7. CASE PauseRun \/ ResumeRun
  BY <1>1, <1>7 DEF PauseRun, ResumeRun, procVars, Bystanders, Holds
<1>8. CASE CancelRun
  <2>1. \A k \in DOMAIN children :
          (children'[k].owner = Driver /\ children'[k].status = "RUNNING") => Holds(Driver, k)
    BY <1>1, <1>8 DEF CancelRun, Cancelled, Unfinished, Holds, ChildType
  <2> QED BY <1>1, <1>8, <2>1 DEF CancelRun, procVars, Bystanders
<1>9. ASSUME NEW j \in DOMAIN children, RetryTask(j) PROVE Bystanders
  <2>1. \A k \in DOMAIN children :
          (children'[k].owner = Driver /\ children'[k].status = "RUNNING") => Holds(Driver, k)
    BY <1>1, <1>9 DEF RetryTask, Holds, ChildType
  <2> QED BY <1>1, <1>9, <2>1 DEF RetryTask, procVars, Bystanders
<1>10. ASSUME NEW p \in Peers, Crash(p) PROVE Bystanders
  <2>1. \A k \in DOMAIN children :
          (children'[k].owner = Driver /\ children'[k].status = "RUNNING") => Holds(Driver, k)
    BY <1>1, <1>10 DEF Crash, Holds, ChildType
  <2> QED BY <1>1, <1>10, <2>1 DEF Crash, Goto, Bystanders
<1>11. ASSUME NEW p \in Peers, PeerStep(p) PROVE Bystanders
  BY <1>3, <1>4, <1>5, <1>6, <1>11 DEF PeerStep
<1>12. CASE Command BY <1>7, <1>8, <1>9, <1>12 DEF Command
<1> QED BY <1>2, <1>10, <1>11, <1>12 DEF Next, Procs

\* The driver's rounds and the planner's attempts.
LEMMA TriesStep ==
  ASSUME IInv, GeneratedRunAssumption, [Next]_vars
  PROVE  TriesInv'
<1>1. /\ pc \in [Procs -> DriverLabels \cup PeerLabels] /\ Driver \in Procs
      /\ planner \in [status : PlannerStatus, attempt : 0 .. MaxAttempts,
                      output : Fragments \cup {Null}]
      /\ tries \in 0 .. MaxAttempts /\ MaxAttempts \in Nat /\ TriesInv
  BY DEF IInv, TypeInv, GeneratedRunAssumption, Procs
<1>2. CASE CreateRun BY <1>1, <1>2 DEF CreateRun, Goto, TriesInv, Fresh
<1>3. CASE EnqueuePlanner BY <1>1, <1>3 DEF EnqueuePlanner, Goto, TriesInv, Fresh
<1>4. CASE ClaimPlanner
  <2>1. /\ pc[Driver] = "planner" /\ tries' = tries
        /\ \/ pc'[Driver] = "failing"
           \/ /\ pc'[Driver] = "planning"
              /\ planner' = [planner EXCEPT !.status = "RUNNING", !.attempt = planner.attempt + 1]
    BY <1>1, <1>4 DEF ClaimPlanner, Goto
  <2>2. CASE pc'[Driver] = "failing" BY <2>2 DEF TriesInv, Fresh
  <2>3. CASE pc'[Driver] = "planning"
    <3>1. planner'.status = "RUNNING" /\ planner'.attempt = planner.attempt + 1
      BY <1>1, <2>1, <2>3
    <3>2. tries > 0 /\ planner.attempt + tries <= MaxAttempts BY <1>1, <2>1 DEF TriesInv, Fresh
    <3> QED BY <1>1, <2>1, <2>3, <3>1, <3>2 DEF TriesInv
  <2> QED BY <2>1, <2>2, <2>3
<1>5. CASE PlannerRaises
  <2>1. planner'.attempt = planner.attempt /\ planner'.status # "SUCCEEDED"
    BY <1>1, <1>5 DEF PlannerRaises, TriesInv, Fresh
  <2>2. tries' = tries - 1 /\ pc'[Driver] \in {"failing", "planner"}
        /\ (pc'[Driver] = "planner" => tries' # 0) /\ pc[Driver] = "planning"
    BY <1>1, <1>5 DEF PlannerRaises, Goto
  <2> QED BY <1>1, <2>1, <2>2 DEF TriesInv, Fresh
<1>6. ASSUME \/ AdoptDefinition \/ BeginMaterialize(Driver) \/ InsertChildren(Driver)
             \/ BeginAdvance(Driver) \/ ReadyTask(Driver) \/ Progress \/ Execute \/ LoseChild
             \/ \E k \in DOMAIN children : CompleteChild(Driver, k) \/ FailChild(Driver, k)
             \/ CountTasks \/ CompleteRun \/ FailRun
             \/ Judge \/ Verify \/ \E f \in Fragments : PlannerReturns(f)
             \/ Crash(Driver)
      PROVE  pc'[Driver] \notin Fresh
  <2>1. CASE \/ AdoptDefinition \/ BeginMaterialize(Driver) \/ InsertChildren(Driver)
             \/ BeginAdvance(Driver) \/ ReadyTask(Driver)
    BY <1>1, <2>1, Zenon DEF AdoptDefinition, BeginMaterialize, InsertChildren, BeginAdvance, ReadyTask,
      Raise, Goto, Fresh
  <2>2. CASE Progress \/ Execute \/ LoseChild \/ CountTasks \/ CompleteRun \/ FailRun
    BY <1>1, <2>2 DEF Progress, Execute, LoseChild, CountTasks, CompleteRun, FailRun, Back, Goto, Fresh
  <2>3. ASSUME NEW k \in DOMAIN children, CompleteChild(Driver, k) \/ FailChild(Driver, k)
        PROVE  pc'[Driver] \notin Fresh
    BY <1>1, <2>3 DEF CompleteChild, FailChild, Back, Goto, Fresh
  <2>4. CASE Judge \/ Verify \/ (\E f \in Fragments : PlannerReturns(f)) \/ Crash(Driver)
    BY <1>1, <2>4 DEF Judge, Verify, PlannerReturns, Crash, Goto, Fresh
  <2> QED BY <1>6, <2>1, <2>2, <2>3, <2>4
<1>7. CASE Bystanders
  <2>1. /\ planner'.attempt = planner.attempt
        /\ planner.status # "SUCCEEDED" => planner'.status # "SUCCEEDED"
    BY <1>1, <1>7 DEF Bystanders, Cancelled
  <2>2. pc'[Driver] = pc[Driver] /\ tries' = tries BY <1>7 DEF Bystanders
  <2> QED BY <1>1, <2>1, <2>2 DEF TriesInv
<1>8. pc'[Driver] \notin Fresh => TriesInv' BY DEF TriesInv
<1> QED BY <1>2, <1>3, <1>4, <1>5, <1>6, <1>7, <1>8, BystandersSee DEF DriverStep

\* The driver among the children: from one serving label to another, or to the end.
LEMMA DriverServes ==
  ASSUME IInv, GeneratedRunAssumption,
         \/ BeginMaterialize(Driver) \/ InsertChildren(Driver)
         \/ BeginAdvance(Driver) \/ ReadyTask(Driver) \/ Progress \/ Execute \/ LoseChild
         \/ \E k \in DOMAIN children : CompleteChild(Driver, k) \/ FailChild(Driver, k)
         \/ Verify \/ CountTasks \/ CompleteRun \/ FailRun \/ Crash(Driver)
  PROVE  /\ pc'[Driver] \in Ended \/ (pc[Driver] \in Served /\ pc'[Driver] \in Served)
         /\ planner' = planner /\ run'.definition = run.definition
         /\ \A p \in Procs : pc'[p] = "insert" => pc[p] = "insert" \/ run.definition = "generated"
<1>1. /\ pc \in [Procs -> DriverLabels \cup PeerLabels] /\ Driver \in Procs /\ Driver \notin Peers
      /\ DOMAIN run = {"status", "definition", "output"}
      /\ pc[Driver] \in Served => run.definition = "generated"
  BY DEF IInv, TypeInv, PlanInv, Procs, GeneratedRunAssumption
<1>2. CASE BeginMaterialize(Driver) \/ InsertChildren(Driver) \/ BeginAdvance(Driver)
  BY <1>1, <1>2 DEF BeginMaterialize, InsertChildren, BeginAdvance, Raise, Goto, storeVars,
    Served, Working, Closing, Ended
<1>3. CASE ReadyTask(Driver)
  BY <1>1, <1>3, Zenon DEF ReadyTask, Raise, Goto, Served, Working, Closing, Ended
<1>4. CASE Progress \/ Execute \/ LoseChild \/ CountTasks
  BY <1>1, <1>4 DEF Progress, Execute, LoseChild, CountTasks, Back, Goto, storeVars,
    Served, Working, Closing, Ended
<1>5. ASSUME NEW k \in DOMAIN children, CompleteChild(Driver, k) \/ FailChild(Driver, k)
      PROVE  /\ pc[Driver] \in Served /\ pc'[Driver] \in Served
             /\ planner' = planner /\ run' = run
             /\ \A p \in Procs : pc'[p] = "insert" => pc[p] = "insert"
  <2>1. pc[Driver] = "working" BY <1>5, Zenon DEF CompleteChild, FailChild, IInv, DriverInv
  <2> QED BY <1>1, <1>5, <2>1, Zenon DEF CompleteChild, FailChild, Back, Goto, Served, Working, Closing
<1>6. CASE Verify \/ CompleteRun \/ FailRun \/ Crash(Driver)
  BY <1>1, <1>6, Zenon DEF Verify, CompleteRun, FailRun, Crash, Goto, Served, Working, Closing, Ended
<1> QED BY <1>2, <1>3, <1>4, <1>5, <1>6

\* The plan, the definition and the log.
LEMMA PlanStep ==
  ASSUME IInv, GeneratedRunAssumption, [Next]_vars
  PROVE  PlanInv'
<1>1. /\ pc \in [Procs -> DriverLabels \cup PeerLabels] /\ Driver \in Procs
      /\ pc' \in [Procs -> DriverLabels \cup PeerLabels]
      /\ DOMAIN run = {"status", "definition", "output"}
      /\ log \in Seq(Events) /\ PlanInv
  BY TypeStep DEF IInv, TypeInv, Procs
<1>2. /\ planner.status = "SUCCEEDED" => planner' = planner
      /\ run.definition = "generated" => run'.definition = "generated"
      /\ \A a, b : Before(a, b) => Before(a, b)'
      /\ \A a : Logged(a) => Logged(a)'
  BY PlanStays, LogGrows
<1> DEFINE Same == log' = log /\ run'.definition = run.definition
           Adopted == run'.definition = "generated" =>
                        /\ planner'.status = "SUCCEEDED" /\ Passes(planner'.output)
                        /\ Before("PLAN_APPROVED", "RUN_DEFINITION_ADOPTED")'
           Inserting == \A p \in Procs : pc'[p] = "insert" => run'.definition = "generated"
           Driving == /\ pc'[Driver] \in Fresh \cup {"validate"} => log' = <<>>
                      /\ pc'[Driver] \in Fresh \cup {"validate", "adopt"} =>
                           run'.definition = "bootstrap"
                      /\ pc'[Driver] \in {"validate", "adopt"} \cup Served =>
                           planner'.status = "SUCCEEDED"
                      /\ pc'[Driver] = "adopt" => Passes(planner'.output) /\ Logged("PLAN_APPROVED")'
                      /\ pc'[Driver] \in Served => run'.definition = "generated"
<1>3. run'.definition = run.definition => Adopted BY <1>1, <1>2 DEF PlanInv
<1>4. ASSUME run'.definition = run.definition,
             \A p \in Procs : pc'[p] = "insert" => pc[p] = "insert" \/ run.definition = "generated"
      PROVE  Adopted /\ Inserting
  BY <1>1, <1>3, <1>4 DEF PlanInv
<1>5. Adopted /\ Inserting /\ Driving => PlanInv' BY DEF PlanInv
<1>6. CASE CreateRun \/ EnqueuePlanner \/ ClaimPlanner \/ PlannerRaises
           \/ \E f \in Fragments : PlannerReturns(f)
  <2>1. /\ log' = log /\ run'.definition = run.definition /\ pc[Driver] \in Fresh
        /\ pc'[Driver] \in Fresh \cup {"validate"} \cup Ended
        /\ \A p \in Procs : pc'[p] = "insert" => pc[p] = "insert"
        /\ pc'[Driver] = "validate" => planner'.status = "SUCCEEDED"
    <3>1. CASE CreateRun BY <1>1, <3>1 DEF CreateRun, Goto, Fresh
    <3>2. CASE EnqueuePlanner BY <1>1, <3>2 DEF EnqueuePlanner, Goto, Fresh, Ended
    <3>3. CASE ClaimPlanner BY <1>1, <3>3 DEF ClaimPlanner, Goto, Fresh, Ended
    <3>4. CASE PlannerRaises BY <1>1, <3>4 DEF PlannerRaises, Goto, Fresh, Ended
    <3>5. ASSUME NEW f \in Fragments, PlannerReturns(f)
          PROVE  /\ log' = log /\ run'.definition = run.definition /\ pc[Driver] \in Fresh
                 /\ pc'[Driver] \in Fresh \cup {"validate"} \cup Ended
                 /\ \A p \in Procs : pc'[p] = "insert" => pc[p] = "insert"
                 /\ pc'[Driver] = "validate" => planner'.status = "SUCCEEDED"
      <4>1. planner' = [planner EXCEPT !.status = "SUCCEEDED", !.output = f]
        BY <3>5 DEF PlannerReturns
      <4>2. planner'.status = "SUCCEEDED" BY <4>1 DEF IInv, TypeInv
      <4> QED BY <1>1, <3>5, <4>2 DEF PlannerReturns, Goto, Fresh
    <3> QED BY <1>6, <3>1, <3>2, <3>3, <3>4, <3>5
  <2>2. Driving BY <1>1, <2>1 DEF PlanInv, Fresh, Served, Working, Closing, Ended
  <2> QED BY <1>4, <1>5, <2>1, <2>2
<1>7. CASE Judge
  <2>1. /\ pc[Driver] = "validate" /\ run' = run /\ planner' = planner
        /\ pc'[Driver] \in {"adopt", "failing"}
        /\ pc'[Driver] = "adopt" => Passes(planner.output) /\ Record("PLAN_APPROVED")
        /\ \A p \in Procs : pc'[p] = "insert" => pc[p] = "insert"
    BY <1>1, <1>7 DEF Judge, Goto, Approved, Passes, Planned
  <2>2. pc'[Driver] = "adopt" => Logged("PLAN_APPROVED")'
    <3>1. "PLAN_APPROVED" \in Events BY DEF Events
    <3> QED BY <1>1, <2>1, <3>1, Recorded DEF Logged
  <2>3. Driving BY <1>1, <2>1, <2>2 DEF PlanInv, Fresh, Served, Working, Closing
  <2> QED BY <1>4, <1>5, <2>1, <2>3
<1>8. CASE AdoptDefinition
  <2>1. /\ pc[Driver] = "adopt" /\ planner' = planner
        /\ \A p \in Procs : pc'[p] = "insert" => pc[p] = "insert"
        /\ \/ pc'[Driver] = "failing" /\ run' = run
           \/ /\ pc'[Driver] = "materialize" /\ run' = [run EXCEPT !.definition = "generated"]
              /\ planner.status = "SUCCEEDED" /\ Record("RUN_DEFINITION_ADOPTED")
    BY <1>1, <1>8 DEF AdoptDefinition, Goto
  <2>2. CASE pc'[Driver] = "failing" /\ run' = run
    <3>1. Driving BY <2>2 DEF Fresh, Served, Working, Closing
    <3> QED BY <1>4, <1>5, <2>1, <2>2, <3>1
  <2>3. CASE pc'[Driver] = "materialize" /\ run' = [run EXCEPT !.definition = "generated"]
             /\ planner.status = "SUCCEEDED" /\ Record("RUN_DEFINITION_ADOPTED")
    <3>1. run'.definition = "generated" BY <1>1, <2>3
    <3>2. Before("PLAN_APPROVED", "RUN_DEFINITION_ADOPTED")'
      <4>1. "RUN_DEFINITION_ADOPTED" \in Events BY DEF Events
      <4>2. Logged("PLAN_APPROVED") BY <1>1, <2>1 DEF PlanInv
      <4> QED BY <1>1, <2>3, <4>1, <4>2, Recorded
    <3>3. Adopted BY <1>1, <2>1, <2>3, <3>2 DEF PlanInv
    <3>4. Inserting BY <3>1
    <3>5. Driving BY <2>1, <2>3, <3>1 DEF Fresh, Served, Working, Closing
    <3> QED BY <1>5, <3>3, <3>4, <3>5
  <2> QED BY <2>1, <2>2, <2>3
<1>9. ASSUME pc'[Driver] \in Ended \/ (pc[Driver] \in Served /\ pc'[Driver] \in Served),
             run'.definition = run.definition,
             \A p \in Procs : pc'[p] = "insert" => pc[p] = "insert" \/ run.definition = "generated"
      PROVE  PlanInv'
  <2>1. Driving
    BY <1>1, <1>2, <1>9 DEF PlanInv, Fresh, Served, Working, Closing, Ended
  <2> QED BY <1>4, <1>5, <1>9, <2>1
<1>10. CASE Bystanders
  <2>1. run.definition = "bootstrap" => log' = log
    <3>1. ASSUME NEW p \in Procs, InsertChildren(p), run.status = "RUNNING",
                 ~Logged("PLAN_MATERIALIZED")
          PROVE  run.definition = "generated"
      BY <3>1, InsertStep
    <3> QED BY <1>10, <3>1 DEF Bystanders
  <2>2. Driving
    <3>1. pc'[Driver] = pc[Driver] /\ run'.definition = run.definition BY <1>10 DEF Bystanders
    <3>2. pc[Driver] \in Fresh \cup {"validate"} => log' = <<>> BY <1>1, <2>1 DEF PlanInv
    <3>3. pc[Driver] \in {"validate", "adopt"} \cup Served => planner'.status = "SUCCEEDED"
      BY <1>1, <1>2 DEF PlanInv
    <3>4. pc[Driver] = "adopt" => Passes(planner'.output) /\ Logged("PLAN_APPROVED")'
      BY <1>1, <1>2 DEF PlanInv
    <3> QED BY <1>1, <3>1, <3>2, <3>3, <3>4 DEF PlanInv
  <2> QED BY <1>4, <1>5, <1>10, <2>2 DEF Bystanders
<1> QED BY <1>6, <1>7, <1>8, <1>9, <1>10, DriverServes, BystandersSee DEF DriverStep

\* Which step records what.
LEMMA LogSteps ==
  ASSUME IInv, GeneratedRunAssumption, [Next]_vars
  PROVE  \/ log' = log
         \/ /\ Judge
            /\ Record("PLAN_APPROVED") \/ (Record("PLAN_REJECTED") /\ ~Passes(planner.output))
         \/ AdoptDefinition /\ Record("RUN_DEFINITION_ADOPTED")
         \/ \E p \in Procs : /\ InsertChildren(p) /\ Record("PLAN_MATERIALIZED")
                             /\ run.status = "RUNNING" /\ ~Logged("PLAN_MATERIALIZED")
         \/ Verify /\ \/ Record("PLAN_EXECUTION_VERIFIED")
                      \/ Record("PLAN_EXECUTION_DIVERGED") /\ pc'[Driver] \in Ended
         \/ FailRun /\ Record("RUN_FAILED")
<1>1. pc \in [Procs -> DriverLabels \cup PeerLabels] /\ Driver \in Procs
  BY DEF IInv, TypeInv, Procs
<1>2. CASE Bystanders BY <1>2 DEF Bystanders
<1>3. CASE Judge BY <1>3 DEF Judge, Approved, Passes, Planned
<1>4. CASE AdoptDefinition BY <1>4 DEF AdoptDefinition
<1>5. CASE InsertChildren(Driver) BY <1>1, <1>5 DEF InsertChildren
<1>6. CASE Verify BY <1>1, <1>6 DEF Verify, Goto, Ended
<1>7. CASE FailRun BY <1>7 DEF FailRun
<1>8. ASSUME \/ CreateRun \/ EnqueuePlanner \/ ClaimPlanner \/ PlannerRaises
             \/ \E f \in Fragments : PlannerReturns(f)
             \/ BeginMaterialize(Driver) \/ BeginAdvance(Driver) \/ ReadyTask(Driver) \/ Progress
             \/ Execute \/ LoseChild \/ CountTasks \/ CompleteRun \/ Crash(Driver)
             \/ \E k \in DOMAIN children : CompleteChild(Driver, k) \/ FailChild(Driver, k)
      PROVE  log' = log
  BY <1>8, Zenon DEF CreateRun, EnqueuePlanner, ClaimPlanner, PlannerRaises, PlannerReturns, CompleteRun,
    BeginMaterialize, BeginAdvance, ReadyTask, Crash, CompleteChild, FailChild, Progress, Execute,
    LoseChild, CountTasks, storeVars
<1> QED
  BY <1>2, <1>3, <1>4, <1>5, <1>6, <1>7, <1>8, BystandersSee DEF DriverStep

\* A driver that has ended stays so.
LEMMA EndedStays ==
  ASSUME IInv, GeneratedRunAssumption, [Next]_vars, pc[Driver] \in Ended
  PROVE  pc'[Driver] \in Ended
<1>1. pc[Driver] \notin Fresh \cup {"validate", "adopt"} \cup Served
  BY DEF Fresh, Served, Working, Closing, Ended
<1>2. ~(CreateRun \/ EnqueuePlanner \/ ClaimPlanner \/ PlannerRaises \/ AdoptDefinition \/ Judge
        \/ \E f \in Fragments : PlannerReturns(f))
  BY <1>1 DEF CreateRun, EnqueuePlanner, ClaimPlanner, PlannerRaises, AdoptDefinition, Judge,
    PlannerReturns, Fresh
<1>3. Bystanders => pc'[Driver] \in Ended BY DEF Bystanders
<1> QED BY <1>1, <1>2, <1>3, DriverServes, BystandersSee DEF DriverStep

\* The first materialization is not repeated, and it comes before the driver works.
LEMMA ChildrenStay ==
  ASSUME IInv, GeneratedRunAssumption, [Next]_vars
  PROVE  /\ children # NoChildren => Evolve /\ children' # NoChildren
         /\ Evolve => (children' # NoChildren <=> children # NoChildren)
<1>1. Evolve => (children' # NoChildren <=> children # NoChildren) BY EvolveKeeps
<1>2. ASSUME NEW p \in Procs, InsertChildren(p), run.status = "RUNNING",
             ~Logged("PLAN_MATERIALIZED")
      PROVE  children = NoChildren
  BY <1>2, InsertStep
<1> QED BY <1>1, <1>2, InsertOrEvolve

\* The log tells what has happened.
LEMMA LogStep ==
  ASSUME IInv, GeneratedRunAssumption, [Next]_vars
  PROVE  LogInv'
<1>1. /\ log \in Seq(Events) /\ LogInv
      /\ pc \in [Procs -> DriverLabels \cup PeerLabels] /\ Driver \in Procs
      /\ planner.status = "SUCCEEDED" => planner' = planner
  BY PlanStays DEF IInv, TypeInv, Procs
<1>2. \A e \in Events : Record(e) =>
        /\ Last(log') = e
        /\ \A x : Logged(x)' <=> Logged(x) \/ x = e
  BY <1>1, Recorded DEF Logged
<1>3. {"PLAN_APPROVED", "PLAN_REJECTED", "RUN_DEFINITION_ADOPTED", "PLAN_MATERIALIZED",
       "PLAN_EXECUTION_VERIFIED", "PLAN_EXECUTION_DIVERGED", "RUN_FAILED"} = Events
  BY DEF Events
<1>4. Logged("PLAN_REJECTED")' =>
        \/ Logged("PLAN_REJECTED")
        \/ Judge /\ ~Passes(planner.output)
  <2>1. log' = log => (Logged("PLAN_REJECTED")' <=> Logged("PLAN_REJECTED")) BY DEF Logged
  <2> QED BY <1>2, <1>3, <2>1, LogSteps
<1>5. Logged("PLAN_REJECTED")' => planner'.status = "SUCCEEDED" /\ ~Passes(planner'.output)
  <2>1. Judge => planner.status = "SUCCEEDED" BY DEF Judge, IInv, PlanInv
  <2> QED BY <1>1, <1>4, <2>1 DEF LogInv
<1>6. Logged("PLAN_EXECUTION_DIVERGED")' => pc'[Driver] \in Ended
  <2>1. log' = log => (Logged("PLAN_EXECUTION_DIVERGED")' <=> Logged("PLAN_EXECUTION_DIVERGED"))
    BY DEF Logged
  <2>2. Logged("PLAN_EXECUTION_DIVERGED") => pc'[Driver] \in Ended BY <1>1, EndedStays DEF LogInv
  <2> QED BY <1>2, <1>3, <2>1, <2>2, LogSteps
<1>7. Logged("PLAN_MATERIALIZED")' <=> children' # NoChildren
  <2>1. ASSUME NEW p \in Procs, InsertChildren(p), run.status = "RUNNING",
               ~Logged("PLAN_MATERIALIZED")
        PROVE  Logged("PLAN_MATERIALIZED")' /\ children' # NoChildren
    BY <1>2, <1>3, <2>1, InsertStep
  <2>2. ASSUME ~ \E p \in Procs : /\ InsertChildren(p) /\ run.status = "RUNNING"
                                  /\ ~Logged("PLAN_MATERIALIZED")
        PROVE  Logged("PLAN_MATERIALIZED")' <=> children' # NoChildren
    <3>1. children' # NoChildren <=> children # NoChildren
      BY <2>2, InsertOrEvolve, ChildrenStay
    <3>2. log' = log => (Logged("PLAN_MATERIALIZED")' <=> Logged("PLAN_MATERIALIZED"))
      BY DEF Logged
    <3>3. Logged("PLAN_MATERIALIZED")' <=> Logged("PLAN_MATERIALIZED")
      BY <1>2, <1>3, <2>2, <3>2, LogSteps
    <3> QED BY <1>1, <3>1, <3>3 DEF LogInv
  <2> QED BY <2>1, <2>2
<1>8. pc'[Driver] \in {"count", "complete", "returned"} => Last(log') = "PLAN_EXECUTION_VERIFIED"
  <2> DEFINE Proved == {"count", "complete", "returned"}
  <2> SUFFICES ASSUME pc'[Driver] \in Proved PROVE Last(log') = "PLAN_EXECUTION_VERIFIED"
    OBVIOUS
  <2>1. CASE Bystanders
    <3>1. pc[Driver] \in Proved BY <2>1 DEF Bystanders
    <3>2. children # NoChildren BY <3>1 DEF IInv, DriverInv, Working, Closing
    <3>3. log' = log BY <1>1, <2>1, <3>2 DEF Bystanders, LogInv
    <3> QED BY <1>1, <3>1, <3>3 DEF LogInv
  <2>2. CASE Verify
    <3>1. Record("PLAN_EXECUTION_VERIFIED") BY <1>1, <2>2 DEF Verify, Goto
    <3> QED BY <1>2, <1>3, <3>1
  <2>3. CASE CountTasks \/ CompleteRun
    BY <1>1, <2>3 DEF CountTasks, CompleteRun, Goto, LogInv, storeVars
  <2>4. ASSUME \/ CreateRun \/ EnqueuePlanner \/ ClaimPlanner \/ PlannerRaises \/ AdoptDefinition
               \/ \E f \in Fragments : PlannerReturns(f)
               \/ Judge \/ BeginMaterialize(Driver) \/ InsertChildren(Driver)
               \/ BeginAdvance(Driver) \/ ReadyTask(Driver)
        PROVE  FALSE
    <3>1. Driver \notin Peers BY DEF GeneratedRunAssumption
    <3>2. CASE \/ CreateRun \/ EnqueuePlanner \/ ClaimPlanner \/ PlannerRaises
               \/ \E f \in Fragments : PlannerReturns(f)
      BY <1>1, <3>2 DEF CreateRun, EnqueuePlanner, ClaimPlanner, PlannerRaises, PlannerReturns, Goto
    <3>3. CASE Judge \/ AdoptDefinition BY <1>1, <3>3 DEF Judge, AdoptDefinition, Goto
    <3>4. CASE BeginMaterialize(Driver) \/ InsertChildren(Driver) \/ BeginAdvance(Driver)
      BY <1>1, <3>1, <3>4 DEF BeginMaterialize, InsertChildren, BeginAdvance, Raise, Goto
    <3>5. CASE ReadyTask(Driver) BY <1>1, <3>5 DEF ReadyTask, Raise, Goto
    <3> QED BY <2>4, <3>2, <3>3, <3>4, <3>5
  <2>5. ASSUME \/ Progress \/ Execute \/ LoseChild \/ FailRun \/ Crash(Driver)
               \/ \E k \in DOMAIN children : CompleteChild(Driver, k) \/ FailChild(Driver, k)
        PROVE  FALSE
    <3>1. CASE Progress \/ Execute \/ LoseChild \/ FailRun \/ Crash(Driver)
      BY <1>1, <3>1 DEF Progress, Execute, LoseChild, FailRun, Crash, Back, Goto
    <3>2. ASSUME NEW k \in DOMAIN children, CompleteChild(Driver, k) \/ FailChild(Driver, k)
          PROVE  FALSE
      BY <1>1, <3>2 DEF CompleteChild, FailChild, Back, Goto
    <3> QED BY <2>5, <3>1, <3>2
  <2> QED BY <2>1, <2>2, <2>3, <2>4, <2>5, BystandersSee DEF DriverStep
<1> QED BY <1>5, <1>6, <1>7, <1>8 DEF LogInv

\* The children remain the plan's nodes.
LEMMA MaterializedStep ==
  ASSUME IInv, GeneratedRunAssumption, [Next]_vars
  PROVE  ChildrenInv'
<1>1. log \in Seq(Events) BY DEF IInv, TypeInv
<1>2. "PLAN_MATERIALIZED" \in Events BY DEF Events
<1>3. ASSUME NEW p \in Procs, InsertChildren(p), run.status = "RUNNING",
             ~Logged("PLAN_MATERIALIZED")
      PROVE  Materialized'
  <2>1. /\ planner' = planner /\ run' = run /\ run.definition = "generated"
        /\ Record("PLAN_MATERIALIZED")
        /\ DOMAIN children' = Keys(planner.output)
        /\ \A k \in DOMAIN children' :
             /\ children'[k].module = EntryOf(planner.output, k).module
             /\ children'[k].deps = DepsOf(planner.output)[k]
             /\ children'[k].grant = EntryOf(planner.output, k).grant
    BY <1>3, InsertStep
  <2>2. Logged("RUN_DEFINITION_ADOPTED") BY <2>1 DEF IInv, PlanInv, Before, Logged, ToSet
  <2>3. Before("RUN_DEFINITION_ADOPTED", "PLAN_MATERIALIZED")' BY <1>1, <1>2, <2>1, <2>2, Recorded
  <2>4. {j \in DOMAIN log' : log'[j] = "PLAN_MATERIALIZED"} = {Len(log) + 1}
    BY <1>1, <1>2, <1>3, <2>1, Recorded
  <2>5. Len(log) + 1 \in DOMAIN log' BY <2>4
  <2> QED BY <2>1, <2>3, <2>4, <2>5 DEF Materialized
<1>4. ASSUME children # NoChildren PROVE Materialized'
  <2>1. Evolve /\ Materialized BY <1>4, ChildrenStay DEF IInv, ChildrenInv
  <2>2. /\ planner' = planner /\ run'.definition = "generated"
        /\ Before("RUN_DEFINITION_ADOPTED", "PLAN_MATERIALIZED")'
    <3>1. planner.status = "SUCCEEDED" /\ run.definition = "generated"
      BY <2>1 DEF Materialized, IInv, PlanInv
    <3> QED BY <2>1, <3>1, PlanStays, LogGrows DEF Materialized
  <2>3. {j \in DOMAIN log' : log'[j] = "PLAN_MATERIALIZED"} =
        {j \in DOMAIN log : log[j] = "PLAN_MATERIALIZED"}
    <3>1. Logged("PLAN_MATERIALIZED") BY <1>4 DEF IInv, LogInv
    <3>2. log' = log \/ \E e \in Events : e # "PLAN_MATERIALIZED" /\ Record(e)
      BY <3>1, LogSteps DEF Events
    <3>3. CASE log' = log BY <3>3
    <3>4. ASSUME NEW e \in Events, e # "PLAN_MATERIALIZED", Record(e)
          PROVE  {j \in DOMAIN log' : log'[j] = "PLAN_MATERIALIZED"} =
                 {j \in DOMAIN log : log[j] = "PLAN_MATERIALIZED"}
      <4>1. \A x : x # e =>
              {j \in DOMAIN log' : log'[j] = x} = {j \in DOMAIN log : log[j] = x}
        BY <1>1, <3>4, Recorded
      <4> QED BY <3>4, <4>1
    <3> QED BY <3>2, <3>3, <3>4
  <2>4. DOMAIN log \subseteq DOMAIN log'
    <3>1. log' = log \/ \E e \in Events : Record(e) BY LogSteps DEF Events
    <3> QED BY <1>1, <3>1 DEF Record
  <2>5. /\ DOMAIN children' = DOMAIN children
        /\ \A k \in DOMAIN children : /\ children'[k].module = children[k].module
                                      /\ children'[k].deps = children[k].deps
                                      /\ children'[k].grant = children[k].grant
    BY <2>1, EvolveKeeps DEF Evolve
  <2> QED BY <2>1, <2>2, <2>3, <2>4, <2>5 DEF Materialized
<1>5. children' # NoChildren => Materialized' BY <1>3, <1>4, InsertOrEvolve, ChildrenStay
<1> QED BY <1>5 DEF ChildrenInv

\* The driver holds no child but its target, and closes the run only on a complete plan.
LEMMA DriverInvStep ==
  ASSUME IInv, GeneratedRunAssumption, [Next]_vars
  PROVE  DriverInv'
<1>1. /\ Driver \in Procs /\ Driver \notin Peers /\ Null # Driver
      /\ pc \in [Procs -> DriverLabels \cup PeerLabels] /\ DOMAIN view = Procs
      /\ children \in [DOMAIN children -> ChildType]
      /\ DOMAIN run = {"status", "definition", "output"}
      /\ DriverInv
  BY DEF IInv, TypeInv, GeneratedRunAssumption, Procs
<1>2. /\ children # NoChildren => /\ children' # NoChildren /\ DOMAIN children' = DOMAIN children
                                  /\ \A k \in DOMAIN children :
                                       children[k].status = "SUCCEEDED" =>
                                         /\ children'[k].status = "SUCCEEDED"
                                         /\ children'[k].output = children[k].output
  BY ChildrenStay, EvolveKeeps DEF Evolve
<1>3. pc[Driver] \in Served => planner' = planner /\ planner.status = "SUCCEEDED"
  BY PlanStays DEF IInv, PlanInv
<1> DEFINE Holding(k) == children'[k].owner = Driver /\ children'[k].status = "RUNNING"
<1>4. ASSUME pc'[Driver] \notin Working, \A k \in DOMAIN children' : ~Holding(k),
             run'.status # "SUCCEEDED"
      PROVE  DriverInv'
  BY <1>4 DEF DriverInv, Holds, Working, Closing
<1>5. ASSUME pc[Driver] # "working", children' = children
      PROVE  \A k \in DOMAIN children' : ~Holding(k)
  BY <1>1, <1>5 DEF DriverInv, Holds
<1>6. ASSUME \/ CreateRun \/ EnqueuePlanner \/ ClaimPlanner \/ PlannerRaises
             \/ \E f \in Fragments : PlannerReturns(f)
             \/ Judge \/ AdoptDefinition \/ BeginMaterialize(Driver) \/ FailRun
      PROVE  DriverInv'
  <2>1. ASSUME \/ CreateRun \/ EnqueuePlanner \/ ClaimPlanner \/ PlannerRaises
               \/ \E f \in Fragments : PlannerReturns(f)
        PROVE  /\ pc[Driver] \notin {"working", "returned"} /\ pc'[Driver] \notin Working
               /\ children' = children /\ run'.status \in {run.status, "RUNNING"}
    BY <1>1, <2>1 DEF CreateRun, EnqueuePlanner, ClaimPlanner, PlannerRaises, PlannerReturns, Goto,
      Working, Closing
  <2>2. ASSUME Judge \/ AdoptDefinition \/ BeginMaterialize(Driver) \/ FailRun
        PROVE  /\ pc[Driver] \notin {"working", "returned"} /\ pc'[Driver] \notin Working
               /\ children' = children /\ run'.status \in {run.status, "FAILED"}
    BY <1>1, <2>2 DEF Judge, AdoptDefinition, BeginMaterialize, FailRun, Raise, Goto, storeVars,
      Working, Closing
  <2>3. pc[Driver] # "returned" => run.status # "SUCCEEDED" BY <1>1 DEF DriverInv
  <2> HIDE DEF Holding
  <2> QED BY <1>4, <1>5, <1>6, <2>1, <2>2, <2>3
<1>7. CASE InsertChildren(Driver)
  <2>1. /\ pc[Driver] = "insert" /\ pc'[Driver] \notin Working /\ run' = run
    BY <1>1, <1>7 DEF InsertChildren, Raise, Goto, Working, Closing
  <2>2. run'.status # "SUCCEEDED" BY <1>1, <2>1 DEF DriverInv
  <2>3. \A k \in DOMAIN children' : ~Holding(k)
    <3>1. CASE run.status = "RUNNING" /\ ~Logged("PLAN_MATERIALIZED")
      <4>1. \A k \in DOMAIN children' : children'[k].owner = Null BY <1>1, <1>7, <3>1, InsertStep
      <4> QED BY <1>1, <4>1
    <3>2. CASE ~(run.status = "RUNNING" /\ ~Logged("PLAN_MATERIALIZED"))
      <4>1. children' = children BY <1>7, <3>2 DEF InsertChildren
      <4> QED BY <1>5, <2>1, <4>1
    <3> QED BY <3>1, <3>2
  <2> HIDE DEF Holding
  <2> QED BY <1>4, <2>1, <2>2, <2>3
<1>8. ASSUME NEW j \in DOMAIN children, CompleteChild(Driver, j) \/ FailChild(Driver, j)
      PROVE  DriverInv'
  <2>1. Holds(Driver, j) /\ run' = run /\ pc'[Driver] = "advance"
    BY <1>1, <1>8 DEF CompleteChild, FailChild, Back, Goto
  <2>2. pc[Driver] = "working" /\ target = j BY <1>1, <2>1 DEF DriverInv
  <2>3. run'.status # "SUCCEEDED" /\ pc'[Driver] \notin Working
    BY <1>1, <2>1, <2>2 DEF DriverInv, Working, Closing
  <2>4. \A k \in DOMAIN children : k # j => ~Holds(Driver, k) BY <1>1, <2>2 DEF DriverInv
  <2>5. /\ DOMAIN children' = DOMAIN children
        /\ \A k \in DOMAIN children : k # j => children'[k] = children[k]
        /\ children'[j].owner = Null
    <3>1. PICK d : d.owner = Null /\ children' = [children EXCEPT ![j] = d]
      <4>1. children[j] \in ChildType BY <1>1
      <4>2. CASE CompleteChild(Driver, j)
        <5> DEFINE d == [children[j] EXCEPT !.status = "SUCCEEDED", !.owner = Null,
                                            !.output = <<j, children[j].attempt>>]
        <5>1. d.owner = Null BY <4>1 DEF ChildType
        <5>2. children' = [children EXCEPT ![j] = d] BY <4>2 DEF CompleteChild
        <5> HIDE DEF d
        <5> QED BY <5>1, <5>2
      <4>3. CASE FailChild(Driver, j)
        <5>1. PICK st : children' = [children EXCEPT ![j] =
                                       [children[j] EXCEPT !.status = st, !.owner = Null]]
          BY <4>3 DEF FailChild
        <5> DEFINE d == [children[j] EXCEPT !.status = st, !.owner = Null]
        <5>2. d.owner = Null BY <4>1 DEF ChildType
        <5>3. children' = [children EXCEPT ![j] = d] BY <5>1
        <5> HIDE DEF d
        <5> QED BY <5>2, <5>3
      <4> QED BY <1>8, <4>2, <4>3
    <3> QED BY <1>1, <1>8, <3>1
  <2>6. \A k \in DOMAIN children' : ~Holding(k) BY <1>1, <2>4, <2>5 DEF Holds
  <2> HIDE DEF Holding
  <2> QED BY <1>4, <2>3, <2>6
<1>9. CASE LoseChild \/ Crash(Driver)
  <2>1. /\ pc'[Driver] \in {"advance", "crashed"} /\ run' = run /\ pc[Driver] # "returned"
    BY <1>1, <1>9 DEF LoseChild, Crash, Back, Goto, storeVars
  <2>2. run'.status # "SUCCEEDED" /\ pc'[Driver] \notin Working
    BY <1>1, <2>1 DEF DriverInv, Working, Closing
  <2>3. \A k \in DOMAIN children' : ~Holding(k)
    <3>1. CASE LoseChild
      <4>1. children' = children /\ ~Holds(Driver, target) BY <3>1 DEF LoseChild, storeVars
      <4> QED BY <1>1, <4>1 DEF DriverInv, Holds
    <3>2. CASE Crash(Driver)
      BY <1>1, <3>2 DEF Crash, ChildType
    <3> QED BY <1>9, <3>1, <3>2
  <2> HIDE DEF Holding
  <2> QED BY <1>4, <2>2, <2>3
<1>10. CASE BeginAdvance(Driver)
  <2>1. /\ pc[Driver] = "advance" /\ pc'[Driver] = "passing" /\ run' = run /\ children' = children
        /\ children # NoChildren
    BY <1>1, <1>10 DEF BeginAdvance, Goto, storeVars
  <2>2. run'.status # "SUCCEEDED" BY <1>1, <2>1 DEF DriverInv
  <2>3. \A k \in DOMAIN children' : ~Holding(k) BY <1>5, <2>1
  <2> QED BY <2>1, <2>2, <2>3 DEF DriverInv, Holds, Closing
<1>11. CASE ReadyTask(Driver)
  <2>1. pc[Driver] = "passing" /\ pc'[Driver] \in {"passing", "failing"} /\ run' = run
    BY <1>1, <1>11, Zenon DEF ReadyTask, Raise, Goto
  <2>2. run'.status # "SUCCEEDED" /\ children # NoChildren BY <1>1, <2>1 DEF DriverInv, Working
  <2>3. \A k \in DOMAIN children' : ~Holding(k)
    <3>1. PICK h, x : \/ children' = children
                      \/ children' = [children EXCEPT ![h].status = "READY", ![h].input = x]
      BY <1>11, Zenon DEF ReadyTask
    <3>2. \A k \in DOMAIN children : children[k] \in ChildType BY <1>1
    <3>3. ASSUME NEW k \in DOMAIN children, children' # children
          PROVE  children'[k] = children[k] \/ children'[k].status = "READY"
      BY <1>1, <3>1, <3>2, <3>3 DEF ChildType
    <3>4. \A k \in DOMAIN children : ~Holds(Driver, k) BY <1>1, <2>1 DEF DriverInv
    <3> QED BY <1>2, <2>2, <3>3, <3>4 DEF Holds
  <2> QED BY <1>2, <2>1, <2>2, <2>3 DEF DriverInv, Holds, Closing
<1>12. CASE Progress
  <2>1. /\ pc[Driver] = "passing" /\ run' = run /\ children' = children /\ planner' = planner
        /\ view'[Driver] = IF Complete(children) THEN children ELSE NoChildren
        /\ \/ pc'[Driver] = "failing"
           \/ pc'[Driver] = "verify" /\ Complete(children)
           \/ pc'[Driver] = "execute" /\ target' \in DOMAIN children
    BY <1>1, <1>12 DEF Progress, Goto, storeVars
  <2>2. run'.status # "SUCCEEDED" /\ children # NoChildren BY <1>1, <2>1 DEF DriverInv, Working
  <2>3. \A k \in DOMAIN children' : ~Holding(k) BY <1>5, <2>1
  <2>4. pc'[Driver] \in Closing =>
          /\ view'[Driver] # NoChildren
          /\ \A o \in ToSet(planner'.output.outputs) : view'[Driver][o].status = "SUCCEEDED"
    BY <2>1, <2>2 DEF Closing, Complete, Planned
  <2> QED BY <2>1, <2>2, <2>3, <2>4 DEF DriverInv, Holds
<1>13. CASE Execute
  <2>1. pc[Driver] = "execute" /\ run' = run /\ target' = target /\ target \in DOMAIN children
    BY <1>1, <1>13 DEF Execute, DriverInv
  <2>2. run'.status # "SUCCEEDED" /\ children # NoChildren BY <1>1, <2>1 DEF DriverInv, Working
  <2>3. \A k \in DOMAIN children : ~Holds(Driver, k) BY <1>1, <2>1 DEF DriverInv
  <2>4. CASE Claimable(target)
    <3>1. pc'[Driver] = "working" BY <1>1, <1>13, <2>4 DEF Execute, Goto
    <3>2. \A k \in DOMAIN children : k # target => children'[k] = children[k]
      BY <1>1, <1>13, <2>4 DEF Execute, Claim
    <3>3. \A k \in DOMAIN children' : Holding(k) => k = target BY <1>2, <2>2, <2>3, <3>2 DEF Holds
    <3> QED BY <1>2, <2>1, <2>2, <3>1, <3>3 DEF DriverInv, Holds, Closing
  <2>5. CASE ~Claimable(target)
    <3>1. pc'[Driver] = "failing" /\ children' = children BY <1>1, <1>13, <2>5 DEF Execute, Goto
    <3>2. pc'[Driver] \notin Working BY <3>1 DEF Working, Closing
    <3>3. \A k \in DOMAIN children' : ~Holding(k) BY <1>5, <2>1, <3>1
    <3> HIDE DEF Holding
    <3> QED BY <1>4, <2>2, <3>2, <3>3
  <2> QED BY <2>4, <2>5
<1>14. CASE Verify \/ CountTasks \/ CompleteRun
  <2>1. /\ pc[Driver] \in Closing /\ pc'[Driver] \in {"count", "complete", "returned", "failing"}
        /\ children' = children /\ view' = view
    BY <1>1, <1>14 DEF Verify, CountTasks, CompleteRun, Goto, storeVars, Closing
  <2>2. /\ children # NoChildren /\ pc[Driver] # "working"
        /\ view[Driver] # NoChildren
        /\ \A o \in ToSet(planner.output.outputs) : view[Driver][o].status = "SUCCEEDED"
    BY <1>1, <2>1 DEF DriverInv, Working, Closing
  <2>3. planner' = planner BY <1>14 DEF Verify, CountTasks, CompleteRun, storeVars
  <2>4. \A k \in DOMAIN children' : ~Holding(k) BY <1>5, <2>1, <2>2
  <2>5. ASSUME pc'[Driver] \in {"complete", "returned"}
        PROVE  \A k \in DOMAIN children : children[k].status = "SUCCEEDED"
    <3>1. CASE Verify BY <1>1, <2>5, <3>1 DEF Verify, Goto
    <3>2. CASE CompleteRun BY <1>1, <2>5, <3>2 DEF CompleteRun, DriverInv
    <3>3. CASE CountTasks
      <4>1. Statuses(children) \cup {planner.status} = {"SUCCEEDED"}
        BY <1>1, <2>5, <3>3 DEF CountTasks, Goto
      <4> QED BY <4>1 DEF Statuses
    <3> QED BY <1>14, <3>1, <3>2, <3>3
  <2>6. ASSUME run'.status = "SUCCEEDED"
        PROVE  /\ pc'[Driver] = "returned"
               /\ run'.output = children[planner.output.outputs[1]].output
    <3>1. run.status # "SUCCEEDED" BY <1>1, <2>1 DEF DriverInv, Closing
    <3>2. CompleteRun /\ run' # run BY <1>14, <2>6, <3>1 DEF Verify, CountTasks, storeVars
    <3>3. /\ pc'[Driver] = "returned"
          /\ run'.output = view[Driver][planner.output.outputs[1]].output
      BY <1>1, <3>2 DEF CompleteRun, Goto, Planned
    <3> QED BY <2>1, <3>3, ClosingView
  <2> HIDE DEF Holding
  <2>7. DriverInv'
    <3>1. pc'[Driver] \in Working => children' # NoChildren BY <2>1, <2>2
    <3>2. pc'[Driver] # "execute" BY <2>1
    <3>3. view'[Driver] # NoChildren /\ \A o \in ToSet(planner'.output.outputs) :
                                           view'[Driver][o].status = "SUCCEEDED"
      BY <2>1, <2>2, <2>3
    <3> QED BY <2>1, <2>3, <2>4, <2>5, <2>6, <3>1, <3>2, <3>3 DEF DriverInv, Holds, Holding
  <2> QED BY <2>7
<1>15. CASE Bystanders
  <2>1. /\ pc'[Driver] = pc[Driver] /\ target' = target /\ view'[Driver] = view[Driver]
        /\ run'.output = run.output
        /\ run'.status = "SUCCEEDED" => run.status = "SUCCEEDED"
        /\ \A k \in DOMAIN children : Holding(k) => Holds(Driver, k)
    BY <1>15 DEF Bystanders
  <2>2. CASE children = NoChildren
    <3>1. pc'[Driver] \notin Working BY <1>1, <2>1, <2>2 DEF DriverInv
    <3>2. run'.status # "SUCCEEDED" BY <1>1, <2>1, <2>2 DEF DriverInv, Working
    <3>3. \A k \in DOMAIN children' : ~Holding(k)
      <4>1. CASE Evolve
        <5>1. DOMAIN children' = DOMAIN children BY <4>1 DEF Evolve
        <5> QED BY <2>2, <5>1 DEF NoChildren
      <4>2. ASSUME NEW p \in Procs, InsertChildren(p), run.status = "RUNNING",
                   ~Logged("PLAN_MATERIALIZED")
            PROVE  \A k \in DOMAIN children' : ~Holding(k)
        <5>1. \A k \in DOMAIN children' : children'[k].owner = Null BY <4>2, InsertStep
        <5> QED BY <1>1, <5>1
      <4> QED BY <4>1, <4>2, InsertOrEvolve
    <3> HIDE DEF Holding
    <3> QED BY <1>4, <3>1, <3>2, <3>3
  <2>3. CASE children # NoChildren
    <3>1. pc[Driver] \in Working => planner' = planner BY <1>3 DEF Served
    <3>2. /\ children' # NoChildren /\ DOMAIN children' = DOMAIN children
          /\ \A k \in DOMAIN children :
               children[k].status = "SUCCEEDED" =>
                 children'[k].status = "SUCCEEDED" /\ children'[k].output = children[k].output
      BY <1>2, <2>3
    <3>3. pc'[Driver] = "execute" => target' \in DOMAIN children'
      BY <1>1, <2>1, <3>2 DEF DriverInv
    <3>4. \A k \in DOMAIN children' : Holding(k) => pc'[Driver] = "working" /\ target' = k
      BY <1>1, <2>1, <3>2 DEF DriverInv
    <3>5. pc'[Driver] \in Closing =>
            /\ view'[Driver] # NoChildren
            /\ \A o \in ToSet(planner'.output.outputs) : view'[Driver][o].status = "SUCCEEDED"
      BY <1>1, <2>1, <3>1 DEF DriverInv, Working
    <3>6. pc'[Driver] \in {"complete", "returned"} =>
            \A k \in DOMAIN children' : children'[k].status = "SUCCEEDED"
      BY <1>1, <2>1, <3>2 DEF DriverInv
    <3>7. ASSUME run'.status = "SUCCEEDED"
          PROVE  /\ pc'[Driver] = "returned"
                 /\ run'.output = children'[planner'.output.outputs[1]].output
      <4> DEFINE o == planner.output.outputs[1]
      <4>1. pc[Driver] = "returned" /\ run.output = children[o].output
        BY <1>1, <2>1, <3>7 DEF DriverInv
      <4>2. planner' = planner /\ children[o].status = "SUCCEEDED" /\ o \in DOMAIN children
        <5>1. DOMAIN children = Keys(planner.output) /\ Passes(planner.output)
          BY <2>3 DEF IInv, ChildrenInv, Materialized, PlanInv
        <5>2. o \in DOMAIN children BY <5>1, PassesMeans
        <5> QED BY <1>1, <3>1, <4>1, <5>2 DEF DriverInv, Working
      <4> QED BY <2>1, <3>2, <4>1, <4>2
    <3> HIDE DEF Holding
    <3> QED BY <3>2, <3>3, <3>4, <3>5, <3>6, <3>7 DEF DriverInv, Holds, Holding
  <2> QED BY <2>2, <2>3
<1> QED
  BY <1>6, <1>7, <1>8, <1>9, <1>10, <1>11, <1>12, <1>13, <1>14, <1>15, BystandersSee DEF DriverStep

-----------------------------------------------------------------------------
(***************************************************************************)
(* The theorems.                                                           *)
(***************************************************************************)

LEMMA InitInv ==
  ASSUME GeneratedRunAssumption, Init
  PROVE  IInv
<1>1. /\ Driver \in Procs /\ Driver \notin Peers /\ \A p \in Peers : p # Driver
      /\ MaxAttempts \in Nat /\ MaxAttempts > 0 /\ FaultBound \in Nat
  BY DEF GeneratedRunAssumption, Procs
<1>2. /\ children = NoChildren /\ NoChildren \in [{} -> ChildType] /\ DOMAIN children = {}
      /\ \A p \in Procs : view[p] = NoChildren /\ todo[p] = <<>>
      /\ ToSet(<<>>) = {}
  BY DEF Init, NoChildren, ToSet
<1>3. \A x : ~Logged(x)
  BY <1>2 DEF Init, Logged
<1>4. pc[Driver] = "create" BY <1>1 DEF Init
<1>5. TypeInv
  <2>1. /\ run \in [status : RunStatus, definition : {"bootstrap", "generated"},
                    output : Seq(Nat) \cup {Null}]
        /\ planner \in [status : PlannerStatus, attempt : 0 .. MaxAttempts,
                        output : Fragments \cup {Null}]
        /\ planner.output # Null <=> planner.status = "SUCCEEDED"
    BY <1>1 DEF Init, RunStatus, PlannerStatus
  <2>2. /\ children \in [DOMAIN children -> ChildType]
        /\ \A k \in DOMAIN children : ChildOK(children[k])
        /\ log \in Seq(Events)
    BY <1>2 DEF Init
  <2>3. /\ pc \in [Procs -> DriverLabels \cup PeerLabels]
        /\ pc[Driver] \in DriverLabels /\ \A p \in Peers : pc[p] \in PeerLabels
    BY <1>1 DEF Init, DriverLabels, PeerLabels, Fresh, Procs
  <2>4. /\ view \in [Procs -> [{} -> ChildType] \cup [DOMAIN children -> ChildType]]
        /\ todo \in [Procs -> Seq(DOMAIN children)]
    BY <1>2 DEF Init
  <2>5. tries \in 0 .. MaxAttempts /\ faults \in 0 .. FaultBound BY <1>1 DEF Init
  <2> QED BY <2>1, <2>2, <2>3, <2>4, <2>5 DEF TypeInv
<1>6. TriesInv BY <1>1, <1>4 DEF Init, TriesInv
<1>7. PlanInv BY <1>1, <1>4 DEF Init, PlanInv, Served, Working, Closing
<1>8. LogInv /\ ChildrenInv /\ ReleasedInv
  BY <1>2, <1>3, <1>4 DEF LogInv, ChildrenInv, ReleasedInv
<1>9. ViewInv BY <1>2 DEF ViewInv
<1>10. DriverInv BY <1>2, <1>4 DEF Init, DriverInv, Working, Closing
<1> QED BY <1>5, <1>6, <1>7, <1>8, <1>9, <1>10 DEF IInv

\* The invariant is inductive: whatever fragments the planner returns and however
\* many peers serve the run, no step of run_generated, of a peer, of a command or of a
\* crash breaks it.
THEOREM GeneratedInvariant == Spec => []IInv
<1>1. Init => IInv BY InitInv, GeneratedRunAssumption
<1>2. IInv /\ [Next]_vars => IInv'
  BY GeneratedRunAssumption, TypeStep, TriesStep, PlanStep, LogStep, MaterializedStep, DriverInvStep
  DEF IInv
<1> QED BY <1>1, <1>2, PTL DEF Spec

\* The run, the planner and the children have the statuses of the store, a child that
\* may be claimed has its input, exactly the accepted ones have an output, and the
\* rounds of run_generated and the planner's attempts stay within max_attempts.
THEOREM GeneratedTyped == Spec => []TypeOK
<1>1. IInv => TypeOK
  <2> SUFFICES ASSUME IInv PROVE TypeOK OBVIOUS
  <2>1. TypeInv BY DEF IInv
  <2>2. \A k \in DOMAIN children :
          /\ children[k].status \in {"BLOCKED", "READY", "RUNNING", "SUCCEEDED", "FAILED", "CANCELLED"}
          /\ children[k].owner \in Procs \cup {Null}
          /\ children[k].status \notin {"BLOCKED", "CANCELLED"} => children[k].input # Null
          /\ children[k].output # Null <=> children[k].status = "SUCCEEDED"
    BY <2>1 DEF TypeInv, ChildOK, ChildType, ChildStatus
  <2>3. /\ run.status \in {"ABSENT", "RUNNING", "PAUSED", "SUCCEEDED", "FAILED", "CANCELLED"}
        /\ run.definition \in {"bootstrap", "generated"}
        /\ planner.status \in {"ABSENT", "READY", "RUNNING", "SUCCEEDED", "FAILED", "CANCELLED"}
        /\ planner.attempt \in 0 .. MaxAttempts
        /\ planner.output # Null <=> planner.status = "SUCCEEDED"
        /\ tries \in 0 .. MaxAttempts /\ faults \in 0 .. FaultBound
    BY <2>1 DEF TypeInv, RunStatus, PlannerStatus
  <2> QED BY <2>2, <2>3 DEF TypeOK
<1> QED BY <1>1, GeneratedInvariant, PTL

\* The signature that the guardrail keeps in the log is the plan that was judged: for
\* every fragment that validate accepts, the PlanIR lists the steps after their
\* dependencies, and reading it back gives the nodes and outputs it was built from.
THEOREM GeneratedPlanRoundTrips == Spec => []PlanRoundTrips
<1>1. PlanRoundTrips
  <2> SUFFICES ASSUME Validate(Planned, Limits.budget, {}) = "valid"
               PROVE  LET plan == Signature(Planned)
                          place(a) == CHOOSE i \in DOMAIN plan.steps : plan.steps[i].node = a
                      IN  /\ ResolvedNodes(plan) = Resolve(Planned)
                          /\ Outputs(plan) = Planned.outputs
                          /\ \A i \in DOMAIN plan.steps :
                               \A a \in ToSet(plan.steps[i].deps) \ {<<"input">>} : place(a) < i
    BY DEF PlanRoundTrips
  <2> QED BY RoundTrip
<1> QED BY <1>1, PTL

\* However many hosts call materialize for a run, and whenever, its generated tasks are
\* the nodes of the one plan that was approved and then adopted, each with the module
\* and dependencies of its node and with no capability that the region does not grant.
THEOREM GeneratedChildrenAsApproved == Spec => []ChildrenAsApproved
<1>1. IInv => ChildrenAsApproved
  <2> SUFFICES ASSUME IInv, children # NoChildren
               PROVE  /\ Before("PLAN_APPROVED", "RUN_DEFINITION_ADOPTED")
                      /\ Before("RUN_DEFINITION_ADOPTED", "PLAN_MATERIALIZED")
                      /\ run.definition = "generated"
                      /\ Cardinality({i \in DOMAIN log : log[i] = "PLAN_MATERIALIZED"}) = 1
                      /\ DOMAIN children = Keys(Planned)
                      /\ \A k \in Keys(Planned) : /\ children[k].module = EntryOf(Planned, k).module
                                                  /\ children[k].deps = DepsOf(Planned)[k]
                                                  /\ children[k].grant \subseteq RegionGrant
    BY DEF ChildrenAsApproved
  <2>1. Materialized BY DEF IInv, ChildrenInv
  <2>2. Before("PLAN_APPROVED", "RUN_DEFINITION_ADOPTED") /\ Passes(planner.output)
    BY <2>1 DEF Materialized, IInv, PlanInv
  <2>3. \A k \in Keys(planner.output) : EntryOf(planner.output, k).grant \subseteq RegionGrant
    BY <2>2, PassesMeans
  <2>4. Cardinality({i \in DOMAIN log : log[i] = "PLAN_MATERIALIZED"}) = 1
    <3>1. PICK i \in DOMAIN log : {j \in DOMAIN log : log[j] = "PLAN_MATERIALIZED"} = {i}
      BY <2>1 DEF Materialized
    <3>2. Cardinality({i}) = 1 BY FS_Singleton
    <3> QED BY <3>1, <3>2
  <2> QED BY <2>1, <2>2, <2>3, <2>4 DEF Materialized, Planned
<1> QED BY <1>1, GeneratedInvariant, PTL

\* A generated task starts from what its dependencies' accepted results give, also when
\* the pass that made it ready worked from an older snapshot of the history.
THEOREM GeneratedReleasedWithAccepted == Spec => []ReleasedWithAccepted
<1>1. IInv => ReleasedWithAccepted
  BY DEF IInv, ReleasedInv, Released, ReleasedWithAccepted
<1> QED BY <1>1, GeneratedInvariant, PTL

\* A generated run succeeds only with its proof of execution as the last event, with no
\* refusal in the log, with every task accepted, and with the accepted output of the plan.
THEOREM GeneratedSucceededVerified == Spec => []SucceededVerified
<1>1. IInv => SucceededVerified
  <2> SUFFICES ASSUME IInv, run.status = "SUCCEEDED"
               PROVE  /\ Last(log) = "PLAN_EXECUTION_VERIFIED"
                      /\ ~Logged("PLAN_REJECTED") /\ ~Logged("PLAN_EXECUTION_DIVERGED")
                      /\ Statuses(children) = {"SUCCEEDED"}
                      /\ run.output = children[Planned.outputs[1]].output
    BY DEF SucceededVerified
  <2>1. /\ pc[Driver] = "returned" /\ children # NoChildren
        /\ run.output = children[planner.output.outputs[1]].output
        /\ \A k \in DOMAIN children : children[k].status = "SUCCEEDED"
    BY DEF IInv, DriverInv, Working
  <2>2. Passes(planner.output) /\ DOMAIN children = Keys(planner.output)
    BY <2>1 DEF IInv, ChildrenInv, Materialized, PlanInv
  <2>3. DOMAIN children # {} BY <2>2, PassesMeans
  <2>4. Statuses(children) = {"SUCCEEDED"} BY <2>1, <2>3 DEF Statuses
  <2>5. /\ Last(log) = "PLAN_EXECUTION_VERIFIED"
        /\ ~Logged("PLAN_REJECTED") /\ ~Logged("PLAN_EXECUTION_DIVERGED")
    BY <2>1, <2>2 DEF IInv, LogInv, Ended
  <2> QED BY <2>1, <2>4, <2>5 DEF Planned
<1> QED BY <1>1, GeneratedInvariant, PTL

-----------------------------------------------------------------------------
(***************************************************************************)
(* Numbers.                                                                *)
(***************************************************************************)

\* A non-empty finite set of naturals has a greatest member.
LEMMA FiniteMax ==
  ASSUME NEW S \in SUBSET Nat, IsFiniteSet(S), S # {}
  PROVE  Max(S) \in S /\ \A y \in S : y <= Max(S)
<1> DEFINE Above(x) == {y \in S : y > x}
           sizes == {Cardinality(Above(x)) : x \in S}
<1>1. \A x \in S : IsFiniteSet(Above(x)) /\ Cardinality(Above(x)) \in Nat
  <2> SUFFICES ASSUME NEW x \in S
               PROVE  IsFiniteSet(Above(x)) /\ Cardinality(Above(x)) \in Nat
    OBVIOUS
  <2>1. Above(x) \in SUBSET S OBVIOUS
  <2> HIDE DEF Above
  <2> QED BY <2>1, FS_Subset, FS_CardinalityType
<1>2. sizes \in SUBSET Nat /\ sizes # {} BY <1>1
<1>3. PICK x \in S : \A y \in S : Cardinality(Above(x)) <= Cardinality(Above(y))
  <2>1. PICK n \in sizes : \A m \in sizes : n <= m
    <3> HIDE DEF sizes
    <3> QED BY <1>2, NatMin
  <2> HIDE DEF Above
  <2> QED BY <2>1
<1>4. ASSUME NEW y \in S, ~(y <= x) PROVE FALSE
  <2>1. \A z \in S : z > y => z > x BY <1>4
  <2>2. Above(y) \in SUBSET Above(x) /\ y \in Above(x) /\ y \notin Above(y)
    <3>1. Above(y) \in SUBSET Above(x) BY <2>1
    <3>2. y \in Nat /\ x \in Nat /\ y > x /\ ~(y > y) BY <1>4
    <3> QED BY <3>1, <3>2
  <2> HIDE DEF Above
  <2>3. Above(x) # Above(y) BY <2>2
  <2>4. Cardinality(Above(y)) <= Cardinality(Above(x))
        /\ Cardinality(Above(x)) # Cardinality(Above(y))
    BY <1>1, <2>2, <2>3, FS_Subset
  <2>5. Cardinality(Above(x)) <= Cardinality(Above(y)) BY <1>3
  <2> QED BY <1>1, <2>4, <2>5
<1>5. \E m \in S : \A y \in S : m >= y
  <2>1. \A y \in S : x >= y BY <1>4
  <2> QED BY <2>1
<1>6. Max(S) \in S /\ \A y \in S : Max(S) >= y BY <1>5 DEF Max
<1> QED BY <1>6

\* The values of a function on a finite set are finitely many.
LEMMA FiniteValues ==
  ASSUME NEW S, IsFiniteSet(S), NEW f, DOMAIN f = S
  PROVE  IsFiniteSet({f[x] : x \in S})
<1> DEFINE T == {f[x] : x \in S}
           g == [x \in S |-> f[x]]
<1>1. g \in Surjection(S, T) BY DEF Surjection, Range
<1> HIDE DEF g, T
<1>2. IsFiniteSet(T) BY <1>1, FS_Surjection
<1> QED BY <1>2 DEF T

\* g is a computation of N rounds from a through S.
IsRun(g, N, S, a, next) ==
  /\ g \in [0 .. N -> S] /\ g[0] = a
  /\ \A n \in 1 .. N : g[n] = next[n][g[n - 1]]

\* A step from each state and round to the next has a computation of any length.
LEMMA RunOfSteps ==
  ASSUME NEW N \in Nat, NEW S, NEW a \in S, NEW next \in [1 .. N -> [S -> S]]
  PROVE  \E g : IsRun(g, N, S, a, next)
<1> DEFINE Run(g, n) == /\ g \in [0 .. n -> S] /\ g[0] = a
                        /\ \A m \in 1 .. n : g[m] = next[m][g[m - 1]]
           T == {n \in 0 .. N : \E g : Run(g, n)}
<1>1. ASSUME NEW n \in 0 .. N, (0 .. (n - 1)) \subseteq T PROVE n \in T
  <2>1. CASE n = 0
    <3>1. Run([i \in 0 .. 0 |-> a], 0) OBVIOUS
    <3> QED BY <2>1, <3>1
  <2>2. CASE n # 0
    <3>1. n \in 1 .. N /\ n - 1 \in 0 .. (n - 1) BY <2>2
    <3>2. PICK g : Run(g, n - 1) BY <1>1, <3>1
    <3> DEFINE x == next[n][g[n - 1]]
               h == [i \in 0 .. n |-> IF i = n THEN x ELSE g[i]]
    <3>3. g[n - 1] \in S BY <3>1, <3>2
    <3>4. x \in S BY <3>1, <3>3
    <3>5. \A i \in 0 .. n : i = n \/ i \in 0 .. (n - 1) OBVIOUS
    <3>6. \A i \in 0 .. n : h[i] \in S
      <4> HIDE DEF x
      <4> QED BY <3>2, <3>4, <3>5
    <3>7. h \in [0 .. n -> S] BY <3>6
    <3>8. h[0] = a
      <4>1. 0 \in 0 .. n /\ 0 # n BY <2>2
      <4>2. h[0] = g[0] BY <4>1
      <4>3. g[0] = a BY <3>2
      <4> QED BY <4>2, <4>3
    <3>9. ASSUME NEW m \in 1 .. n PROVE h[m] = next[m][h[m - 1]]
      <4>1. m \in 0 .. n /\ m - 1 \in 0 .. n /\ m - 1 # n OBVIOUS
      <4>2. h[m - 1] = g[m - 1] BY <4>1
      <4>3. CASE m = n BY <4>1, <4>2, <4>3
      <4>4. CASE m # n
        <5>1. m \in 1 .. (n - 1) BY <4>4
        <5>2. h[m] = g[m] BY <4>1, <4>4
        <5> QED BY <3>2, <4>2, <5>1, <5>2
      <4> QED BY <4>3, <4>4
    <3>10. Run(h, n) BY <3>7, <3>8, <3>9, Zenon
    <3> QED BY <3>10
  <2> QED BY <2>1, <2>2
<1>2. 0 .. N \subseteq T
  <2> HIDE DEF T
  <2> QED BY <1>1, UpTo
<1>3. N \in 0 .. N OBVIOUS
<1>4. PICK g : Run(g, N) BY <1>2, <1>3
<1> QED BY <1>4 DEF IsRun

\* The partial sums of a sequence.
IsSums(t, s) ==
  /\ t \in [0 .. Len(s) -> Int] /\ t[0] = 0
  /\ \A n \in 1 .. Len(s) : t[n] = t[n - 1] + s[n]

\* Total is the last partial sum.
LEMMA TotalUnfold ==
  ASSUME NEW s \in Seq(Int)
  PROVE  \E t : IsSums(t, s) /\ Total(s) = t[Len(s)]
<1> DEFINE N == Len(s)
           Step(t, n) == IF n = 0 THEN 0 ELSE t[n - 1] + s[n]
           next == [n \in 1 .. N |-> [x \in Int |-> x + s[n]]]
<1>1. N \in Nat /\ \A n \in 1 .. N : s[n] \in Int OBVIOUS
<1>2. \A n \in 1 .. N : \A x \in Int : next[n][x] = x + s[n] OBVIOUS
<1>3. next \in [1 .. N -> [Int -> Int]] BY <1>1
<1>4. PICK g : IsRun(g, N, Int, 0, next)
  <2>1. 0 \in Int OBVIOUS
  <2> HIDE DEF next, N
  <2> QED BY <1>1, <1>3, <2>1, RunOfSteps
<1>5. \A n \in 1 .. N : n - 1 \in 0 .. N OBVIOUS
<1>6. /\ g \in [0 .. N -> Int] /\ g[0] = 0
      /\ \A n \in 1 .. N : g[n] = g[n - 1] + s[n]
  <2> HIDE DEF next
  <2> QED BY <1>2, <1>4, <1>5 DEF IsRun
<1>7. g = [n \in 0 .. N |-> Step(g, n)]
  <2>1. \A n \in 0 .. N : n = 0 \/ n \in 1 .. N OBVIOUS
  <2>2. \A n \in 0 .. N : g[n] = Step(g, n) BY <1>6, <2>1
  <2> HIDE DEF Step
  <2> QED BY <1>6, <2>2
<1> DEFINE t == CHOOSE t : t = [n \in 0 .. N |-> Step(t, n)]
<1>8. t = [n \in 0 .. N |-> Step(t, n)] BY <1>7
<1>9. Total(s) = t[N] BY DEF Total
<1> HIDE DEF t
<1>10. DOMAIN t = 0 .. N BY <1>8
<1>11. t[0] = 0 BY <1>8
<1>12. \A n \in 1 .. N : t[n] = t[n - 1] + s[n]
  <2>1. \A n \in 1 .. N : n \in 0 .. N /\ n # 0 OBVIOUS
  <2> QED BY <1>8, <2>1
<1>13. \A n \in 0 .. N : t[n] \in Int
  <2> DEFINE T == {n \in 0 .. N : t[n] \in Int}
  <2>1. ASSUME NEW n \in 0 .. N, (0 .. (n - 1)) \subseteq T PROVE n \in T
    <3>1. CASE n = 0 BY <1>11, <3>1
    <3>2. CASE n # 0
      <4>1. n \in 1 .. N /\ n - 1 \in 0 .. (n - 1) BY <3>2
      <4>2. t[n - 1] \in Int BY <2>1, <4>1
      <4>3. t[n] \in Int BY <1>1, <1>12, <4>1, <4>2, SMTT(30)
      <4> QED BY <4>3
    <3> QED BY <3>1, <3>2
  <2>2. 0 .. N \subseteq T
    <3> HIDE DEF T
    <3> QED BY <1>1, <2>1, UpTo
  <2> QED BY <2>2
<1>14. t \in [0 .. N -> Int]
  <2>1. t = [n \in 0 .. N |-> t[n]] BY <1>8, <1>10, Zenon
  <2> HIDE DEF N
  <2> QED BY <1>13, <2>1
<1>15. IsSums(t, s) BY <1>11, <1>12, <1>14 DEF IsSums
<1> QED BY <1>9, <1>15

\* Sequences of the same members.
LEMMA SameSeq ==
  ASSUME NEW S, NEW s \in Seq(S), NEW t \in Seq(S), Len(s) = Len(t),
         \A i \in 1 .. Len(s) : s[i] = t[i]
  PROVE  s = t
OBVIOUS

\* Appending a number adds it.
LEMMA TotalAppend ==
  ASSUME NEW s \in Seq(Int), NEW x \in Int
  PROVE  Total(Append(s, x)) = Total(s) + x
<1> DEFINE e == Append(s, x)
           N == Len(s)
<1>1. /\ N \in Nat /\ e \in Seq(Int) /\ Len(e) = N + 1 /\ e[N + 1] = x
      /\ \A n \in 1 .. N : e[n] = s[n] /\ s[n] \in Int
  OBVIOUS
<1>2. PICK t : IsSums(t, s) /\ Total(s) = t[N] BY TotalUnfold
<1>3. PICK u : IsSums(u, e) /\ Total(e) = u[N + 1] BY <1>1, TotalUnfold
<1> HIDE DEF e
<1> DEFINE T == {n \in 0 .. N : u[n] = t[n]}
<1>4. ASSUME NEW n \in 0 .. N, (0 .. (n - 1)) \subseteq T PROVE n \in T
  <2>1. CASE n = 0 BY <1>2, <1>3, <2>1 DEF IsSums
  <2>2. CASE n # 0
    <3>1. n \in 1 .. N /\ n \in 1 .. (N + 1) /\ n - 1 \in 0 .. (n - 1) BY <1>1, <2>2
    <3>2. u[n - 1] = t[n - 1] BY <1>4, <3>1
    <3>3. t[n] = t[n - 1] + s[n] /\ u[n] = u[n - 1] + e[n]
      BY <1>1, <1>2, <1>3, <3>1 DEF IsSums
    <3> QED BY <1>1, <3>1, <3>2, <3>3
  <2> QED BY <2>1, <2>2
<1>5. 0 .. N \subseteq T
  <2> HIDE DEF T, N
  <2> QED BY <1>1, <1>4, UpTo
<1>6. u[N] = t[N] BY <1>1, <1>5
<1>7. N + 1 \in 1 .. Len(e) /\ (N + 1) - 1 = N BY <1>1
<1>8. u[N + 1] = u[N] + x BY <1>1, <1>3, <1>7 DEF IsSums
<1> QED BY <1>2, <1>3, <1>6, <1>8 DEF e

\* A sum of naturals is one, the sum of one number is that number, and the sum of
\* n ones is n.
LEMMA TotalNat ==
  ASSUME NEW s \in Seq(Nat)
  PROVE  /\ Total(s) \in Nat
         /\ Len(s) = 1 => Total(s) = s[1]
         /\ (\A i \in 1 .. Len(s) : s[i] = 1) => Total(s) = Len(s)
<1>1. s \in Seq(Int) /\ Len(s) \in Nat /\ \A n \in 1 .. Len(s) : s[n] \in Nat OBVIOUS
<1>2. PICK t : IsSums(t, s) /\ Total(s) = t[Len(s)] BY <1>1, TotalUnfold
<1> DEFINE Ones == \A i \in 1 .. Len(s) : s[i] = 1
           T == {n \in 0 .. Len(s) : t[n] \in Nat /\ (Ones => t[n] = n)}
<1>3. ASSUME NEW n \in 0 .. Len(s), (0 .. (n - 1)) \subseteq T PROVE n \in T
  <2>1. CASE n = 0 BY <1>2, <2>1 DEF IsSums
  <2>2. CASE n # 0
    <3>1. n \in 1 .. Len(s) /\ n - 1 \in 0 .. (n - 1) BY <2>2
    <3>2. t[n - 1] \in Nat /\ (Ones => t[n - 1] = n - 1)
      <4> HIDE DEF Ones
      <4> QED BY <1>3, <3>1
    <3>3. t[n] = t[n - 1] + s[n] BY <1>2, <3>1 DEF IsSums
    <3>4. t[n] \in Nat /\ (s[n] = 1 => t[n] = t[n - 1] + 1) BY <1>1, <3>1, <3>2, <3>3
    <3>5. Ones => t[n] = n BY <3>1, <3>2, <3>4
    <3> HIDE DEF Ones
    <3> QED BY <3>4, <3>5
  <2> QED BY <2>1, <2>2
<1>4. 0 .. Len(s) \subseteq T
  <2> HIDE DEF T
  <2> QED BY <1>1, <1>3, UpTo
<1>5. Len(s) \in T BY <1>1, <1>4
<1>6. Len(s) = 1 => Total(s) = s[1]
  <2> SUFFICES ASSUME Len(s) = 1 PROVE Total(s) = s[1] OBVIOUS
  <2>1. 1 \in 1 .. Len(s) /\ 1 - 1 = 0 /\ s[1] \in Nat BY <1>1
  <2>2. t[1] = t[0] + s[1] /\ t[0] = 0 BY <1>2, <2>1 DEF IsSums
  <2> QED BY <1>2, <2>1, <2>2
<1> QED BY <1>2, <1>5, <1>6

\* The greatest member of a finite set of naturals, or 0.
LEMMA MaxOrOf ==
  ASSUME NEW S \in SUBSET Nat, IsFiniteSet(S)
  PROVE  /\ MaxOr(0, S) \in Nat
         /\ \A y \in S : y <= MaxOr(0, S)
         /\ IF S = {} THEN MaxOr(0, S) = 0 ELSE MaxOr(0, S) \in S
BY FiniteMax DEF MaxOr

-----------------------------------------------------------------------------
(***************************************************************************)
(* Walks along the dependencies of an acyclic graph, and their weights.    *)
(***************************************************************************)

\* A number of calls, of milliseconds or of units of cost, or no bound.
Cost == Nat \cup {Unbounded}

\* The dependencies of a node on other nodes.
Inner(deps, k) == ToSet(deps[k]) \ {RegionInput}

\* Every dependency is a node or the input.
Closed(deps) == \A k \in DOMAIN deps : Inner(deps, k) \subseteq DOMAIN deps

\* order lists all nodes behind their dependencies.
Topological(deps, order) ==
  /\ order \in Seq(DOMAIN deps) /\ IsInjective(order) /\ ToSet(order) = DOMAIN deps
  /\ \A i \in DOMAIN order : \A d \in Inner(deps, order[i]) : \E j \in 1 .. (i - 1) : order[j] = d

\* The weight of k behind its dependencies with the weights v.
HeavyAt(w, v, deps, k) ==
  LET before == {v[d] : d \in Inner(deps, k)}
  IN  IF Unbounded \in before \cup {w[k]} THEN Unbounded ELSE w[k] + MaxOr(0, before)

\* It is the node's own weight and the greatest of the dependencies', and unbounded
\* if one of these is.
LEMMA HeavyAtOf ==
  ASSUME NEW deps, IsGraph(deps), Closed(deps), NEW k \in DOMAIN deps,
         NEW w \in [DOMAIN deps -> Cost], NEW v \in [DOMAIN deps -> Cost]
  PROVE  LET h == HeavyAt(w, v, deps, k)
         IN  /\ h \in Cost
             /\ h = Unbounded <=> w[k] = Unbounded \/ \E d \in Inner(deps, k) : v[d] = Unbounded
             /\ h # Unbounded => /\ w[k] \in Nat /\ h \in Nat /\ w[k] <= h
                                 /\ \A d \in Inner(deps, k) : v[d] \in Nat /\ w[k] + v[d] <= h
                                 /\ \/ Inner(deps, k) = {} /\ h = w[k]
                                    \/ \E d \in Inner(deps, k) : h = w[k] + v[d]
<1> DEFINE D == Inner(deps, k)
           before == {v[d] : d \in D}
           h == HeavyAt(w, v, deps, k)
<1>1. D \subseteq DOMAIN deps /\ \A d \in D : v[d] \in Cost BY DEF Closed
<1>2. h = IF Unbounded \in before \cup {w[k]} THEN Unbounded ELSE w[k] + MaxOr(0, before)
  BY DEF HeavyAt
<1>3. Unbounded \notin Nat BY DEF Unbounded
<1>4. IsFiniteSet(before)
  <2>1. IsFiniteSet(D) BY <1>1, FS_Subset DEF IsGraph
  <2> DEFINE g == [d \in D |-> v[d]]
  <2>2. IsFiniteSet({g[d] : d \in D})
    <3>1. DOMAIN g = D OBVIOUS
    <3> HIDE DEF g, D
    <3> QED BY <2>1, <3>1, FiniteValues
  <2>3. {g[d] : d \in D} = before OBVIOUS
  <2> QED BY <2>2, <2>3
<1> HIDE DEF D, h
<1>5. CASE Unbounded \in before \cup {w[k]}
  <2>1. h = Unbounded BY <1>2, <1>5
  <2>2. w[k] = Unbounded \/ \E d \in D : v[d] = Unbounded BY <1>5
  <2> QED BY <2>1, <2>2 DEF Cost, D, h
<1>6. CASE Unbounded \notin before \cup {w[k]}
  <2>1. w[k] \in Nat /\ before \in SUBSET Nat /\ \A d \in D : v[d] \in before /\ v[d] \in Nat
    BY <1>1, <1>6 DEF Cost
  <2>2. h = w[k] + MaxOr(0, before) BY <1>2, <1>6
  <2>3. /\ MaxOr(0, before) \in Nat
        /\ \A y \in before : y <= MaxOr(0, before)
        /\ IF before = {} THEN MaxOr(0, before) = 0 ELSE MaxOr(0, before) \in before
    <3> HIDE DEF before
    <3> QED BY <1>4, <2>1, MaxOrOf
  <2>4. h \in Nat /\ w[k] <= h /\ \A d \in D : w[k] + v[d] <= h
    <3>1. \A d \in D : v[d] <= MaxOr(0, before) BY <2>1, <2>3
    <3> HIDE DEF before
    <3> QED BY <2>1, <2>2, <2>3, <3>1
  <2>5. \/ D = {} /\ h = w[k]
        \/ \E d \in D : h = w[k] + v[d]
    <3>1. CASE before = {}
      <4>1. D = {} BY <2>1, <3>1
      <4>2. h = w[k] + 0 BY <2>2, <2>3, <3>1
      <4> QED BY <2>1, <4>1, <4>2
    <3>2. CASE before # {}
      <4>1. PICK d \in D : v[d] = MaxOr(0, before) BY <2>3, <3>2
      <4> QED BY <2>2, <4>1
    <3> QED BY <3>1, <3>2
  <2>6. w[k] # Unbounded /\ \A d \in D : v[d] # Unbounded BY <1>3, <2>1
  <2>7. h # Unbounded BY <1>3, <2>4
  <2> QED BY <2>1, <2>4, <2>5, <2>6, <2>7 DEF Cost, D, h
<1> QED BY <1>5, <1>6

\* A walk goes from each node to one that depends on it.
Walk(deps, s) ==
  /\ s \in Seq(DOMAIN deps) /\ s # <<>>
  /\ \A i \in 1 .. (Len(s) - 1) : s[i] \in ToSet(deps[s[i + 1]])

\* The weights along a walk, and their sum.
WeightsOf(w, s) == [i \in DOMAIN s |-> w[s[i]]]

WeightOf(w, s) == Total(WeightsOf(w, s))

\* v gives every node the weight of HeavyAt.
Weighs(deps, w, v) ==
  /\ w \in [DOMAIN deps -> Cost] /\ v \in [DOMAIN deps -> Cost]
  /\ \A k \in DOMAIN deps : v[k] = HeavyAt(w, v, deps, k)

\* Walks of one node, and walks that go on to a consumer of their last node.
LEMMA WalkOn ==
  ASSUME NEW deps, NEW k \in DOMAIN deps
  PROVE  /\ Walk(deps, <<k>>) /\ Last(<<k>>) = k /\ Head(<<k>>) = k
         /\ \A s : Walk(deps, s) /\ Last(s) \in ToSet(deps[k]) =>
              /\ Walk(deps, Append(s, k))
              /\ Last(Append(s, k)) = k /\ Head(Append(s, k)) = Head(s)
<1>1. Walk(deps, <<k>>) /\ Last(<<k>>) = k /\ Head(<<k>>) = k BY DEF Walk, Last
<1>2. ASSUME NEW s, Walk(deps, s), Last(s) \in ToSet(deps[k])
      PROVE  /\ Walk(deps, Append(s, k))
             /\ Last(Append(s, k)) = k /\ Head(Append(s, k)) = Head(s)
  <2> DEFINE e == Append(s, k)
             N == Len(s)
  <2>1. s \in Seq(DOMAIN deps) /\ N \in Nat \ {0} BY <1>2 DEF Walk
  <2>2. /\ e \in Seq(DOMAIN deps) /\ Len(e) = N + 1 /\ e # <<>> /\ e[N + 1] = k
        /\ \A i \in 1 .. N : e[i] = s[i]
    BY <2>1
  <2>3. Last(s) = s[N] /\ Last(e) = k /\ Head(s) = s[1] /\ Head(e) = e[1]
    BY <2>1, <2>2 DEF Last
  <2>4. ASSUME NEW i \in 1 .. (Len(e) - 1) PROVE e[i] \in ToSet(deps[e[i + 1]])
    <3>1. i \in 1 .. N BY <2>1, <2>2
    <3>2. CASE i = N
      <4>1. e[i] = Last(s) /\ e[i + 1] = k BY <2>2, <2>3, <3>1, <3>2
      <4> QED BY <1>2, <4>1
    <3>3. CASE i # N
      <4>1. i \in 1 .. (N - 1) /\ i + 1 \in 1 .. N BY <2>1, <3>1, <3>3
      <4>2. e[i] = s[i] /\ e[i + 1] = s[i + 1] BY <2>2, <3>1, <4>1
      <4>3. s[i] \in ToSet(deps[s[i + 1]]) BY <1>2, <4>1 DEF Walk
      <4> QED BY <4>2, <4>3
    <3> QED BY <3>2, <3>3
  <2>5. 1 \in 1 .. N BY <2>1
  <2> QED BY <2>2, <2>3, <2>4, <2>5 DEF Walk
<1> QED BY <1>1, <1>2

\* Walks that start from a dependency of the node where another walk starts.
LEMMA WalkBack ==
  ASSUME NEW deps, NEW s, Walk(deps, s), NEW d \in DOMAIN deps, d \in ToSet(deps[Head(s)])
  PROVE  LET u == <<d>> \o s
         IN  /\ Walk(deps, u) /\ Head(u) = d /\ Last(u) = Last(s)
             /\ Len(u) = Len(s) + 1 /\ DOMAIN u = 1 .. (Len(s) + 1)
             /\ \A i \in 1 .. (Len(s) + 1) :
                  \/ i = 1 /\ u[i] = d
                  \/ i # 1 /\ i - 1 \in 1 .. Len(s) /\ u[i] = s[i - 1]
<1> DEFINE u == <<d>> \o s
           N == Len(s)
<1>1. /\ s \in Seq(DOMAIN deps) /\ N \in Nat \ {0} /\ Head(s) = s[1] /\ Last(s) = s[N]
      /\ \A i \in 1 .. (N - 1) : s[i] \in ToSet(deps[s[i + 1]])
  BY DEF Walk, Last
<1>2. <<d>> \in Seq(DOMAIN deps) /\ Len(<<d>>) = 1 OBVIOUS
<1>3. /\ u \in Seq(DOMAIN deps) /\ Len(u) = N + 1 /\ DOMAIN u = 1 .. (N + 1)
      /\ u[1] = d /\ (\A i \in 1 .. N : u[i + 1] = s[i]) /\ Head(u) = u[1]
  BY <1>1, <1>2
<1> HIDE DEF u
<1>4. \A i \in 1 .. (N + 1) :
        \/ i = 1 /\ u[i] = d
        \/ i # 1 /\ i - 1 \in 1 .. N /\ u[i] = s[i - 1]
  <2>1. \A i \in 1 .. (N + 1) : i = 1 \/ (i # 1 /\ i - 1 \in 1 .. N /\ i = (i - 1) + 1)
    BY <1>1
  <2> QED BY <1>3, <2>1
<1>5. ASSUME NEW i \in 1 .. (Len(u) - 1) PROVE u[i] \in ToSet(deps[u[i + 1]])
  <2>1. i \in 1 .. N /\ i \in 1 .. (N + 1) /\ u[i + 1] = s[i] BY <1>1, <1>3
  <2>2. CASE i = 1 BY <1>1, <1>3, <2>1, <2>2
  <2>3. CASE i # 1
    <3>1. i - 1 \in 1 .. (N - 1) /\ (i - 1) + 1 = i BY <1>1, <2>1, <2>3
    <3>2. s[i - 1] \in ToSet(deps[s[(i - 1) + 1]]) BY <1>1, <3>1
    <3> QED BY <1>4, <2>1, <2>3, <3>1, <3>2
  <2> QED BY <2>2, <2>3
<1>6. Last(u) = Last(s)
  <2>1. Last(u) = u[N + 1] /\ N \in 1 .. N BY <1>1, <1>3 DEF Last
  <2> QED BY <1>1, <1>3, <2>1
<1>7. u # <<>> BY <1>1, <1>3
<1> QED BY <1>3, <1>4, <1>5, <1>6, <1>7 DEF Walk, u

\* The dependency that a walk takes is a node's own.
LEMMA WalkStep ==
  ASSUME NEW deps, IsGraph(deps), NEW s, Walk(deps, s), NEW n \in 2 .. Len(s)
  PROVE  /\ n \in 1 .. Len(s) /\ n - 1 \in 1 .. Len(s)
         /\ s[n] \in DOMAIN deps /\ s[n - 1] \in DOMAIN deps
         /\ s[n - 1] \in Inner(deps, s[n])
<1>1. s \in Seq(DOMAIN deps) /\ Len(s) \in Nat BY DEF Walk
<1>2. n \in 1 .. Len(s) /\ n - 1 \in 1 .. Len(s) /\ n - 1 \in 1 .. (Len(s) - 1) /\ (n - 1) + 1 = n
  BY <1>1
<1>3. s[n - 1] \in ToSet(deps[s[(n - 1) + 1]]) BY <1>2 DEF Walk
<1>4. s[n] \in DOMAIN deps /\ s[n - 1] \in DOMAIN deps BY <1>1, <1>2
<1>5. s[n - 1] # RegionInput BY <1>4 DEF IsGraph, RegionInput
<1> QED BY <1>2, <1>3, <1>4, <1>5 DEF Inner

\* Weights do not fall along a walk, and are bounded before a bounded one.
LEMMA WalkRises ==
  ASSUME NEW deps, IsGraph(deps), Closed(deps), NEW w, NEW v, Weighs(deps, w, v),
         NEW s, Walk(deps, s), NEW n \in 1 .. Len(s), v[Last(s)] # Unbounded
  PROVE  v[s[n]] \in Nat /\ w[s[n]] \in Nat /\ v[s[n]] <= v[Last(s)]
<1> DEFINE N == Len(s)
           Low(m) == v[s[m]] # Unbounded => v[s[n]] # Unbounded /\ v[s[n]] <= v[s[m]]
           T == {m \in 0 .. N : m >= n => Low(m)}
<1>1. s \in Seq(DOMAIN deps) /\ N \in Nat \ {0} /\ Last(s) = s[N] BY DEF Walk, Last
<1>2. \A m \in 1 .. N : s[m] \in DOMAIN deps /\ v[s[m]] \in Cost BY <1>1 DEF Weighs
<1>3. ASSUME NEW m \in 0 .. N, (0 .. (m - 1)) \subseteq T PROVE m \in T
  <2>1. CASE m < n BY <2>1
  <2>2. CASE m = n
    <3>1. v[s[n]] \in Cost BY <1>2
    <3>2. Unbounded \in Int BY DEF Unbounded
    <3>3. v[s[n]] <= v[s[n]] BY <3>1, <3>2 DEF Cost
    <3> QED BY <2>2, <3>3
  <2>3. CASE m > n
    <3>1. m \in 2 .. N /\ m - 1 \in 0 .. (m - 1) /\ m - 1 >= n BY <2>3
    <3>2. Low(m - 1)
      <4> HIDE DEF Low
      <4> QED BY <1>3, <3>1
    <3>3. s[m] \in DOMAIN deps /\ s[m - 1] \in Inner(deps, s[m]) BY <3>1, WalkStep
    <3>4. ASSUME v[s[m]] # Unbounded
          PROVE  v[s[m]] \in Nat /\ v[s[m - 1]] \in Nat /\ v[s[m - 1]] <= v[s[m]]
      <4>1. w \in [DOMAIN deps -> Cost] /\ v \in [DOMAIN deps -> Cost]
            /\ v[s[m]] = HeavyAt(w, v, deps, s[m])
        BY <3>3 DEF Weighs
      <4>2. /\ w[s[m]] \in Nat /\ v[s[m]] \in Nat
            /\ v[s[m - 1]] \in Nat /\ w[s[m]] + v[s[m - 1]] <= v[s[m]]
        BY <3>3, <3>4, <4>1, HeavyAtOf
      <4> QED BY <4>2
    <3>5. v[s[n]] \in Cost /\ Unbounded \notin Nat BY <1>2 DEF Unbounded
    <3>6. ASSUME v[s[m]] # Unbounded PROVE v[s[n]] # Unbounded /\ v[s[n]] <= v[s[m]]
      <4>1. v[s[m - 1]] # Unbounded BY <3>4, <3>5, <3>6
      <4>2. v[s[n]] # Unbounded /\ v[s[n]] <= v[s[m - 1]] BY <3>2, <4>1
      <4>3. v[s[n]] \in Nat BY <3>5, <4>2 DEF Cost
      <4> QED BY <3>4, <3>6, <4>2, <4>3
    <3> QED BY <3>6
  <2> QED BY <2>1, <2>2, <2>3
<1>4. 0 .. N \subseteq T
  <2> HIDE DEF T
  <2> QED BY <1>1, <1>3, UpTo
<1>5. N \in T /\ N >= n BY <1>1, <1>4
<1>6. v[s[n]] # Unbounded /\ v[s[n]] <= v[Last(s)] BY <1>1, <1>5
<1>7. s[n] \in DOMAIN deps /\ v[s[n]] = HeavyAt(w, v, deps, s[n]) BY <1>2 DEF Weighs
<1>8. w[s[n]] \in Nat /\ v[s[n]] \in Nat BY <1>6, <1>7, HeavyAtOf DEF Weighs
<1> QED BY <1>6, <1>8

\* The weights of a walk, as a sequence of numbers.
LEMMA WeightsSeq ==
  ASSUME NEW deps, NEW w \in [DOMAIN deps -> Cost], NEW s \in Seq(DOMAIN deps)
  PROVE  /\ WeightsOf(w, s) \in Seq(Int) /\ Len(WeightsOf(w, s)) = Len(s)
         /\ \A i \in 1 .. Len(s) : WeightsOf(w, s)[i] = w[s[i]] /\ w[s[i]] \in Cost
<1>1. \A c \in Cost : c \in Int BY DEF Cost, Unbounded
<1>2. Len(s) \in Nat /\ DOMAIN s = 1 .. Len(s) /\ \A i \in 1 .. Len(s) : w[s[i]] \in Cost
  OBVIOUS
<1>3. \A i \in 1 .. Len(s) : w[s[i]] \in Int BY <1>1, <1>2
<1> QED BY <1>2, <1>3 DEF WeightsOf

\* No walk weighs more than the node it ends with.
LEMMA WalkWeight ==
  ASSUME NEW deps, IsGraph(deps), Closed(deps), NEW w, NEW v, Weighs(deps, w, v),
         NEW s, Walk(deps, s), v[Last(s)] # Unbounded
  PROVE  WeightOf(w, s) <= v[Last(s)]
<1> DEFINE N == Len(s)
           x == WeightsOf(w, s)
<1>1. s \in Seq(DOMAIN deps) /\ N \in Nat \ {0} /\ Last(s) = s[N] BY DEF Walk, Last
<1>2. x \in Seq(Int) /\ Len(x) = N /\ \A i \in 1 .. N : x[i] = w[s[i]]
  <2>1. w \in [DOMAIN deps -> Cost] BY DEF Weighs
  <2> QED BY <1>1, <2>1, WeightsSeq
<1>3. PICK t : IsSums(t, x) /\ Total(x) = t[N] BY <1>2, TotalUnfold
<1> HIDE DEF x
<1>4. \A n \in 1 .. N : v[s[n]] \in Nat /\ w[s[n]] \in Nat BY WalkRises
<1> DEFINE T == {n \in 0 .. N : n >= 1 => t[n] <= v[s[n]]}
<1>5. ASSUME NEW n \in 0 .. N, (0 .. (n - 1)) \subseteq T PROVE n \in T
  <2>1. CASE n = 0 BY <2>1
  <2>2. CASE n # 0
    <3>1. n \in 1 .. N /\ n - 1 \in 0 .. (n - 1) /\ n - 1 \in 0 .. N BY <2>2
    <3>2. t[n] = t[n - 1] + w[s[n]] /\ t[n - 1] \in Int BY <1>2, <1>3, <3>1 DEF IsSums
    <3>3. w[s[n]] \in Nat /\ v[s[n]] \in Nat BY <1>4, <3>1
    <3>4. /\ s[n] \in DOMAIN deps
          /\ w \in [DOMAIN deps -> Cost] /\ v \in [DOMAIN deps -> Cost]
          /\ v[s[n]] = HeavyAt(w, v, deps, s[n]) /\ v[s[n]] # Unbounded
      BY <1>1, <3>1, <3>3 DEF Weighs, Unbounded
    <3>5. /\ w[s[n]] <= v[s[n]]
          /\ \A d \in Inner(deps, s[n]) : v[d] \in Nat /\ w[s[n]] + v[d] <= v[s[n]]
      BY <3>4, HeavyAtOf
    <3>6. CASE n = 1
      <4>1. t[n - 1] = 0 BY <1>3, <3>6 DEF IsSums
      <4> QED BY <3>2, <3>3, <3>5, <4>1
    <3>7. CASE n # 1
      <4>1. n \in 2 .. N /\ n - 1 >= 1 BY <3>1, <3>7
      <4>2. s[n - 1] \in Inner(deps, s[n]) BY <4>1, WalkStep
      <4>3. v[s[n - 1]] \in Nat /\ w[s[n]] + v[s[n - 1]] <= v[s[n]] BY <3>5, <4>2
      <4>4. t[n - 1] <= v[s[n - 1]] BY <1>5, <3>1, <4>1
      <4>5. t[n - 1] + w[s[n]] <= v[s[n]] BY <3>2, <3>3, <4>3, <4>4
      <4> QED BY <3>2, <4>5
    <3> QED BY <3>6, <3>7
  <2> QED BY <2>1, <2>2
<1>6. 0 .. N \subseteq T
  <2> HIDE DEF T
  <2> QED BY <1>1, <1>5, UpTo
<1>7. N \in T /\ N >= 1 BY <1>1, <1>6
<1> QED BY <1>1, <1>3, <1>7 DEF WeightOf, x

\* A walk of the weight of the node it ends with, or with a node of no bound.
Heaviest(deps, w, v, k, s) ==
  /\ Walk(deps, s) /\ Last(s) = k
  /\ IF v[k] = Unbounded THEN \E i \in DOMAIN s : w[s[i]] = Unbounded ELSE WeightOf(w, s) = v[k]

\* One node makes such a walk, or goes on from the one of a dependency.
LEMMA HeaviestOn ==
  ASSUME NEW deps, IsGraph(deps), Closed(deps), NEW w, NEW v, Weighs(deps, w, v),
         NEW k \in DOMAIN deps, \A d \in Inner(deps, k) : \E s : Heaviest(deps, w, v, d, s)
  PROVE  \E s : Heaviest(deps, w, v, k, s)
<1>1. /\ w \in [DOMAIN deps -> Cost] /\ v \in [DOMAIN deps -> Cost]
      /\ v[k] = HeavyAt(w, v, deps, k)
  BY DEF Weighs
<1>2. /\ v[k] = Unbounded <=> w[k] = Unbounded \/ \E d \in Inner(deps, k) : v[d] = Unbounded
      /\ v[k] # Unbounded => /\ w[k] \in Nat /\ v[k] \in Nat /\ w[k] <= v[k]
                             /\ \A d \in Inner(deps, k) : v[d] \in Nat /\ w[k] + v[d] <= v[k]
                             /\ \/ Inner(deps, k) = {} /\ v[k] = w[k]
                                \/ \E d \in Inner(deps, k) : v[k] = w[k] + v[d]
  BY <1>1, HeavyAtOf
<1>3. Walk(deps, <<k>>) /\ Last(<<k>>) = k BY WalkOn
<1>4. CASE w[k] = Unbounded
  <2>1. v[k] = Unbounded /\ 1 \in DOMAIN <<k>> /\ <<k>>[1] = k BY <1>2, <1>4
  <2>2. Heaviest(deps, w, v, k, <<k>>) BY <1>3, <1>4, <2>1 DEF Heaviest
  <2> QED BY <2>2
<1>5. CASE v[k] # Unbounded /\ Inner(deps, k) = {} /\ v[k] = w[k]
  <2> DEFINE x == WeightsOf(w, <<k>>)
  <2>1. x \in Seq(Nat) /\ Len(x) = 1 /\ x[1] = w[k]
    <3>1. w[k] \in Nat BY <1>2, <1>5
    <3>2. <<k>> \in Seq(DOMAIN deps) /\ Len(<<k>>) = 1 /\ <<k>>[1] = k OBVIOUS
    <3>3. ASSUME NEW z \in Seq(DOMAIN deps), Len(z) = 1, z[1] = k
          PROVE  /\ WeightsOf(w, z) \in Seq(Nat) /\ Len(WeightsOf(w, z)) = 1
                 /\ WeightsOf(w, z)[1] = w[k]
      <4>1. DOMAIN z = 1 .. 1 BY <3>3
      <4>2. WeightsOf(w, z) = [i \in 1 .. 1 |-> w[z[i]]] BY <4>1 DEF WeightsOf
      <4>3. \A i \in 1 .. 1 : w[z[i]] \in Nat /\ w[z[i]] = w[k] BY <3>1, <3>3
      <4> QED BY <4>2, <4>3
    <3> HIDE DEF x
    <3> QED BY <3>2, <3>3 DEF x
  <2>2. Total(x) = w[k]
    <3> HIDE DEF x
    <3> QED BY <2>1, TotalNat
  <2>3. WeightOf(w, <<k>>) = v[k] BY <1>5, <2>2 DEF WeightOf
  <2> QED BY <1>3, <1>5, <2>3 DEF Heaviest
<1>6. ASSUME NEW d \in Inner(deps, k),
             IF v[k] = Unbounded THEN v[d] = Unbounded ELSE v[k] = w[k] + v[d]
      PROVE  \E s : Heaviest(deps, w, v, k, s)
  <2>1. PICK s : Heaviest(deps, w, v, d, s) OBVIOUS
  <2> DEFINE e == Append(s, k)
             x == WeightsOf(w, s)
             y == WeightsOf(w, e)
  <2>2. Walk(deps, s) /\ Last(s) = d /\ d \in ToSet(deps[k]) BY <2>1 DEF Heaviest, Inner
  <2>3. Walk(deps, e) /\ Last(e) = k BY <2>2, WalkOn, ZenonT(60)
  <2>4. s \in Seq(DOMAIN deps) /\ e \in Seq(DOMAIN deps) /\ Len(e) = Len(s) + 1 /\ Len(s) \in Nat
        /\ e[Len(s) + 1] = k /\ \A i \in 1 .. Len(s) : e[i] = s[i] /\ i \in 1 .. Len(e)
    BY <2>2, <2>3 DEF Walk
  <2>5. CASE v[k] = Unbounded
    <3>1. PICK i \in DOMAIN s : w[s[i]] = Unbounded BY <1>6, <2>1, <2>5 DEF Heaviest
    <3>2. i \in 1 .. Len(s) /\ i \in DOMAIN e /\ w[e[i]] = Unbounded BY <2>4, <3>1
    <3>3. Heaviest(deps, w, v, k, e) BY <2>3, <2>5, <3>2 DEF Heaviest
    <3> QED BY <3>3
  <2>6. CASE v[k] # Unbounded
    <3>1. v[d] \in Nat /\ w[k] \in Nat /\ v[d] # Unbounded
          /\ v[k] = w[k] + v[d]
      BY <1>2, <1>6, <2>6 DEF Unbounded
    <3>2. WeightOf(w, s) = v[d] BY <2>1, <3>1 DEF Heaviest
    <3>3. x \in Seq(Int) /\ Len(x) = Len(s) /\ \A i \in 1 .. Len(s) : x[i] = w[s[i]]
      BY <1>1, <2>4, WeightsSeq
    <3>4. y \in Seq(Int) /\ Len(y) = Len(e) /\ \A i \in 1 .. Len(e) : y[i] = w[e[i]]
      <4>1. e \in Seq(DOMAIN deps) BY <2>4
      <4> HIDE DEF e
      <4> QED BY <4>1, <1>1, <2>4, WeightsSeq, SMTT(30)
    <3>5. y = Append(x, w[k])
      <4> HIDE DEF x, y, e
      <4>1. w[k] \in Int BY <3>1
      <4>2. Append(x, w[k]) \in Seq(Int) /\ Len(Append(x, w[k])) = Len(y)
            /\ Append(x, w[k])[Len(s) + 1] = w[k]
            /\ \A i \in 1 .. Len(s) : Append(x, w[k])[i] = x[i]
        BY <2>4, <3>3, <3>4, <4>1
      <4>3. \A i \in 1 .. Len(y) : i \in 1 .. Len(s) \/ i = Len(s) + 1 BY <2>4, <3>4
      <4>4. Len(s) + 1 \in 1 .. Len(e) BY <2>4
      <4>5. \A i \in 1 .. Len(y) : y[i] = Append(x, w[k])[i]
        BY <2>4, <3>3, <3>4, <4>2, <4>3, <4>4, SMTT(30)
      <4> QED BY <3>4, <4>2, <4>5, SameSeq
    <3>6. Total(y) = Total(x) + w[k]
      <4> HIDE DEF x, y
      <4>1. w[k] \in Int BY <3>1
      <4> QED BY <3>3, <3>5, <4>1, TotalAppend
    <3>7. WeightOf(w, e) = v[d] + w[k] BY <3>2, <3>6 DEF WeightOf
    <3>8. Heaviest(deps, w, v, k, e)
      <4> HIDE DEF e
      <4> QED BY <2>3, <2>6, <3>1, <3>7 DEF Heaviest
    <3> QED BY <3>8
  <2> QED BY <2>5, <2>6
<1> QED BY <1>2, <1>4, <1>5, <1>6

\* Every node ends such a walk.
LEMMA HeaviestWalk ==
  ASSUME NEW deps, IsGraph(deps), Closed(deps), NEW w, NEW v, Weighs(deps, w, v),
         NEW order, Topological(deps, order), NEW k \in DOMAIN deps
  PROVE  \E s : Heaviest(deps, w, v, k, s)
<1> DEFINE N == Len(order)
           T == {i \in 0 .. N : i >= 1 => \E s : Heaviest(deps, w, v, order[i], s)}
<1>1. order \in Seq(DOMAIN deps) /\ N \in Nat /\ DOMAIN order = 1 .. N BY DEF Topological
<1>2. ASSUME NEW i \in 0 .. N, (0 .. (i - 1)) \subseteq T PROVE i \in T
  <2>1. CASE i = 0 BY <2>1
  <2>2. CASE i # 0
    <3>1. i \in DOMAIN order /\ order[i] \in DOMAIN deps BY <1>1, <2>2
    <3>2. ASSUME NEW d \in Inner(deps, order[i]) PROVE \E s : Heaviest(deps, w, v, d, s)
      <4>1. PICK j \in 1 .. (i - 1) : order[j] = d BY <3>1 DEF Topological
      <4>2. j \in 0 .. (i - 1) /\ j >= 1 OBVIOUS
      <4>3. j \in T BY <1>2, <4>2
      <4> QED BY <4>1, <4>2, <4>3
    <3>3. \E s : Heaviest(deps, w, v, order[i], s) BY <3>1, <3>2, HeaviestOn
    <3> QED BY <3>3
  <2> QED BY <2>1, <2>2
<1>3. 0 .. N \subseteq T
  <2> HIDE DEF T
  <2> QED BY <1>1, <1>2, UpTo
<1>4. PICK i \in DOMAIN order : order[i] = k BY DEF Topological, ToSet
<1>5. i \in T /\ i >= 1 BY <1>1, <1>3
<1> QED BY <1>4, <1>5

\* A walk that repeats no node is one of the Paths, and these are such walks.
LEMMA SimpleWalks ==
  ASSUME NEW deps, IsGraph(deps), NEW s
  PROVE  /\ s \in Paths(deps) <=> Walk(deps, s) /\ IsInjective(s)
         /\ Walk(deps, s) /\ IsInjective(s) => Len(s) \in 1 .. Cardinality(DOMAIN deps)
<1> DEFINE n == Cardinality(DOMAIN deps)
<1>1. IsFiniteSet(DOMAIN deps) /\ n \in Nat BY FS_CardinalityType DEF IsGraph
<1> HIDE DEF n
<1>2. SeqOf(DOMAIN deps, n) \subseteq Seq(DOMAIN deps)
  <2> SUFFICES ASSUME NEW x \in SeqOf(DOMAIN deps, n) PROVE x \in Seq(DOMAIN deps) OBVIOUS
  <2>1. PICK m \in 0 .. n : x \in [1 .. m -> DOMAIN deps] BY DEF SeqOf
  <2>2. m \in Nat BY <1>1
  <2> QED BY <2>1, <2>2
<1>3. ASSUME Walk(deps, s), IsInjective(s)
      PROVE  Len(s) \in 1 .. n /\ s \in SeqOf(DOMAIN deps, n)
  <2>1. s \in Seq(DOMAIN deps) /\ Len(s) \in Nat \ {0} /\ s \in [1 .. Len(s) -> DOMAIN deps]
    BY <1>3 DEF Walk
  <2>2. s \in Injection(1 .. Len(s), DOMAIN deps) BY <1>3, <2>1 DEF Injection
  <2>3. Cardinality(1 .. Len(s)) = Len(s) BY <2>1, FS_Interval
  <2>4. Cardinality(1 .. Len(s)) <= Cardinality(DOMAIN deps) BY <1>1, <2>2, FS_Injection
  <2>5. Len(s) \in 1 .. n /\ Len(s) \in 0 .. n BY <1>1, <2>1, <2>3, <2>4 DEF n
  <2>6. s \in SeqOf(DOMAIN deps, n) BY <2>1, <2>5 DEF SeqOf
  <2> QED BY <2>5, <2>6
<1>4. s \in Paths(deps) <=>
        /\ s \in SeqOf(DOMAIN deps, n) /\ s # <<>> /\ IsInjective(s)
        /\ \A i \in 1 .. (Len(s) - 1) : s[i] \in ToSet(deps[s[i + 1]])
  BY DEF Paths, n
<1>5. s \in Paths(deps) => Walk(deps, s) /\ IsInjective(s) BY <1>2, <1>4 DEF Walk
<1>6. Walk(deps, s) /\ IsInjective(s) => s \in Paths(deps) BY <1>3, <1>4 DEF Walk
<1> QED BY <1>3, <1>5, <1>6 DEF n

\* In a topological order every walk goes forward: it repeats no node, and does not
\* lead back.
LEMMA WalkForward ==
  ASSUME NEW deps, IsGraph(deps), NEW order, Topological(deps, order), NEW s, Walk(deps, s)
  PROVE  s \in Paths(deps) /\ Last(s) \notin ToSet(deps[Head(s)])
<1> DEFINE N == Len(s)
           at(k) == CHOOSE i \in DOMAIN order : order[i] = k
<1>1. s \in Seq(DOMAIN deps) /\ N \in Nat \ {0} /\ Last(s) = s[N] /\ Head(s) = s[1]
  BY DEF Walk, Last
<1>2. /\ order \in Seq(DOMAIN deps) /\ DOMAIN order = 1 .. Len(order) /\ Len(order) \in Nat
      /\ \A k \in DOMAIN deps : at(k) \in DOMAIN order /\ order[at(k)] = k
  BY DEF Topological, ToSet
<1>3. ASSUME NEW k \in DOMAIN deps, NEW d \in Inner(deps, k) PROVE at(d) < at(k)
  <2> HIDE DEF at
  <2>1. PICK j \in 1 .. (at(k) - 1) : order[j] = d BY <1>2 DEF Topological
  <2>2. at(k) \in 1 .. Len(order) BY <1>2
  <2>3. j \in DOMAIN order /\ j < at(k) BY <1>2, <2>2
  <2>4. d \in DOMAIN deps BY <1>2, <2>1, <2>3
  <2>5. at(d) = j BY <1>2, <2>1, <2>3, <2>4 DEF Topological, IsInjective
  <2> QED BY <2>3, <2>5
<1>4. \A n \in 1 .. N : s[n] \in DOMAIN deps /\ at(s[n]) \in Nat
  <2> HIDE DEF at
  <2> QED BY <1>1, <1>2
<1> HIDE DEF at
<1> DEFINE T == {m \in 0 .. N : \A n \in 1 .. (m - 1) : at(s[n]) < at(s[m])}
<1>5. ASSUME NEW m \in 0 .. N, (0 .. (m - 1)) \subseteq T PROVE m \in T
  <2> SUFFICES ASSUME NEW n \in 1 .. (m - 1) PROVE at(s[n]) < at(s[m]) OBVIOUS
  <2>1. m \in 2 .. N /\ m - 1 \in 1 .. N /\ m \in 1 .. N /\ m - 1 \in 0 .. (m - 1) /\ n \in 1 .. N
    OBVIOUS
  <2>2. at(s[m - 1]) < at(s[m]) BY <1>3, <2>1, WalkStep
  <2>3. CASE n = m - 1 BY <2>2, <2>3
  <2>4. CASE n # m - 1
    <3>1. n \in 1 .. ((m - 1) - 1) BY <2>1, <2>4
    <3>2. m - 1 \in T BY <1>5, <2>1
    <3>3. at(s[n]) < at(s[m - 1]) BY <3>1, <3>2
    <3> QED BY <1>4, <2>1, <2>2, <3>3
  <2> QED BY <2>3, <2>4
<1>6. 0 .. N \subseteq T
  <2> HIDE DEF T
  <2> QED BY <1>1, <1>5, UpTo
<1>7. \A m, n \in 1 .. N : n < m => at(s[n]) < at(s[m])
  <2> SUFFICES ASSUME NEW m \in 1 .. N, NEW n \in 1 .. N, n < m PROVE at(s[n]) < at(s[m]) OBVIOUS
  <2>1. m \in T BY <1>6
  <2>2. n \in 1 .. (m - 1) OBVIOUS
  <2> QED BY <2>1, <2>2
<1>8. IsInjective(s)
  <2> SUFFICES ASSUME NEW m \in 1 .. N, NEW n \in 1 .. N, s[m] = s[n] PROVE m = n
    BY <1>1 DEF IsInjective
  <2>1. ~(at(s[n]) < at(s[m])) /\ ~(at(s[m]) < at(s[n])) BY <1>4
  <2> QED BY <1>7, <2>1
<1>9. Last(s) \notin ToSet(deps[Head(s)])
  <2> SUFFICES ASSUME Last(s) \in ToSet(deps[Head(s)]) PROVE FALSE OBVIOUS
  <2>1. 1 \in 1 .. N /\ N \in 1 .. N BY <1>1
  <2>2. s[N] # RegionInput BY <1>4, <2>1 DEF IsGraph, RegionInput
  <2>3. at(s[N]) < at(s[1]) BY <1>1, <1>3, <1>4, <2>1, <2>2 DEF Inner
  <2>4. N = 1 \/ at(s[1]) < at(s[N])
    <3>1. N \in Nat /\ N # 0 BY <1>1
    <3> HIDE DEF N, T
    <3>2. N = 1 \/ 1 < N BY <3>1
    <3> QED BY <1>7, <2>1, <3>2
  <2> QED BY <1>4, <2>1, <2>3, <2>4
<1> QED BY <1>8, <1>9, SimpleWalks

-----------------------------------------------------------------------------
(***************************************************************************)
(* The algorithms of the validator and the walks.                          *)
(***************************************************************************)

\* The depths of the ordered nodes are their weights when every node weighs one.
DepthInv(deps, s) ==
  /\ s.depths \in [DOMAIN deps -> Nat]
  /\ \A k \in ToSet(s.order) : s.depths[k] = HeavyAt([x \in DOMAIN deps |-> 1], s.depths, deps, k)

\* Each round keeps the depths: the node it takes lies one below its dependencies.
LEMMA DepthStep ==
  ASSUME NEW deps, IsGraph(deps), Closed(deps), NEW s, SortInv(deps, s), DepthInv(deps, s),
         s.ready # <<>>
  PROVE  DepthInv(deps, TakeReady(deps, s))
<1> DEFINE key == Last(s.ready)
           t == TakeReady(deps, s)
           ones == [x \in DOMAIN deps |-> 1]
           before == {s.depths[d] : d \in Inner(deps, key)}
<1>1. /\ key \in DOMAIN deps /\ key \in ToSet(s.ready) /\ key \notin ToSet(s.order)
      /\ s.order \in Seq(DOMAIN deps) /\ IsInjective(s.order)
  BY FrontLast DEF SortInv
<1>2. t.order = Append(s.order, key) /\ t.depths = [s.depths EXCEPT ![key] = 1 + MaxOr(0, before)]
  BY DEF TakeReady, Inner
<1>3. ToSet(t.order) = ToSet(s.order) \cup {key} BY <1>1, <1>2, AppendSet
<1>4. \A d \in Inner(deps, key) : d \in ToSet(s.order)
  <2> SUFFICES ASSUME NEW d \in Inner(deps, key) PROVE d \in ToSet(s.order) OBVIOUS
  <2>1. Held(deps, s, key) = {} BY <1>1 DEF SortInv, Free
  <2>2. PICK p \in DOMAIN deps[key] : deps[key][p] = d /\ d # RegionInput BY DEF Inner, ToSet
  <2> QED BY <2>1, <2>2 DEF Held, Waits
<1>5. \A k \in ToSet(s.order) : \A d \in Inner(deps, k) : d \in ToSet(s.order)
  <2> SUFFICES ASSUME NEW k \in ToSet(s.order), NEW d \in Inner(deps, k) PROVE d \in ToSet(s.order)
    OBVIOUS
  <2>1. PICK i \in DOMAIN s.order : s.order[i] = k BY DEF ToSet
  <2>2. PICK j \in 1 .. (i - 1) : s.order[j] = d BY <2>1 DEF SortInv, Inner
  <2>3. j \in DOMAIN s.order BY <1>1, <2>1, <2>2
  <2> QED BY <2>2, <2>3 DEF ToSet
<1>6. ones \in [DOMAIN deps -> Cost] /\ s.depths \in [DOMAIN deps -> Cost]
      /\ s.depths \in [DOMAIN deps -> Nat] /\ Unbounded \notin Nat
  BY DEF DepthInv, Cost, Unbounded
<1>7. HeavyAt(ones, s.depths, deps, key) = 1 + MaxOr(0, before)
      /\ HeavyAt(ones, s.depths, deps, key) \in Nat
  <2>1. before \in SUBSET Nat /\ ones[key] = 1 BY <1>1, <1>6 DEF Closed
  <2>2. Unbounded \notin before \cup {1} BY <1>6, <2>1
  <2>3. HeavyAt(ones, s.depths, deps, key) = 1 + MaxOr(0, before) BY <2>1, <2>2 DEF HeavyAt
  <2>4. HeavyAt(ones, s.depths, deps, key) \in Cost
        /\ (HeavyAt(ones, s.depths, deps, key) = Unbounded
            <=> ones[key] = Unbounded \/ \E d \in Inner(deps, key) : s.depths[d] = Unbounded)
    <3> HIDE DEF ones
    <3> QED BY <1>1, <1>6, HeavyAtOf
  <2>5. HeavyAt(ones, s.depths, deps, key) # Unbounded BY <2>1, <2>2, <2>4
  <2> QED BY <2>3, <2>4, <2>5 DEF Cost
<1>8. t.depths \in [DOMAIN deps -> Nat] /\ t.depths[key] = 1 + MaxOr(0, before)
      /\ \A k \in DOMAIN deps : k # key => t.depths[k] = s.depths[k]
  <2> HIDE DEF before
  <2> QED BY <1>1, <1>2, <1>6, <1>7
<1> HIDE DEF t, ones, before
<1>9. \A k \in ToSet(t.order) :
        /\ k \in DOMAIN deps
        /\ HeavyAt(ones, t.depths, deps, k) = HeavyAt(ones, s.depths, deps, k)
  <2> SUFFICES ASSUME NEW k \in ToSet(t.order)
               PROVE  /\ k \in DOMAIN deps
                      /\ HeavyAt(ones, t.depths, deps, k) = HeavyAt(ones, s.depths, deps, k)
    OBVIOUS
  <2>1. k \in DOMAIN deps
    <3>1. ToSet(s.order) \subseteq DOMAIN deps BY <1>1 DEF ToSet
    <3> QED BY <1>1, <1>3, <3>1
  <2>2. \A d \in Inner(deps, k) : d \in ToSet(s.order) BY <1>3, <1>4, <1>5
  <2>3. \A d \in Inner(deps, k) : t.depths[d] = s.depths[d]
    BY <1>1, <1>8, <2>1, <2>2 DEF Closed
  <2>4. {t.depths[d] : d \in Inner(deps, k)} = {s.depths[d] : d \in Inner(deps, k)} BY <2>3
  <2> QED BY <2>1, <2>4 DEF HeavyAt
<1>10. \A k \in ToSet(s.order) : t.depths[k] = s.depths[k] BY <1>1, <1>8, <1>9, <1>3
<1>11. \A k \in ToSet(t.order) : t.depths[k] = HeavyAt(ones, t.depths, deps, k)
  <2> SUFFICES ASSUME NEW k \in ToSet(t.order) PROVE t.depths[k] = HeavyAt(ones, t.depths, deps, k)
    OBVIOUS
  <2>1. CASE k = key BY <1>7, <1>8, <1>9, <2>1
  <2>2. CASE k # key
    <3>1. k \in ToSet(s.order) BY <1>3, <2>2
    <3>2. s.depths[k] = HeavyAt(ones, s.depths, deps, k) BY <3>1 DEF DepthInv, ones
    <3> QED BY <1>9, <1>10, <3>1, <3>2
  <2> QED BY <2>1, <2>2
<1> QED BY <1>8, <1>11 DEF DepthInv, t, ones

\* The loop goes on until nothing is ready, or every node is ordered.
LEMMA RoundsEnd ==
  ASSUME NEW deps, IsGraph(deps)
  PROVE  LET s == TopologicalDepths(deps)
         IN  /\ SortInv(deps, s)
             /\ Closed(deps) => DepthInv(deps, s)
             /\ s.ready = <<>> \/ Len(s.order) = Cardinality(DOMAIN deps)
<1> DEFINE N == Cardinality(DOMAIN deps)
           R(n) == Rounds(deps)[n]
           Good(n) == /\ Closed(deps) => DepthInv(deps, R(n))
                      /\ R(n).ready = <<>> \/ Len(R(n).order) = n
           T == {n \in 0 .. N : Good(n)}
<1>1. N \in Nat BY FS_CardinalityType DEF IsGraph
<1>2. \A n \in 0 .. N : SortInv(deps, R(n)) BY RoundsInv
<1>3. ASSUME NEW n \in 0 .. N, (0 .. (n - 1)) \subseteq T PROVE n \in T
  <2>1. CASE n = 0
    <3>1. R(n) = Unsorted(deps) BY <2>1, RoundsUnfold
    <3>2. R(n).order = <<>> /\ R(n).depths = [k \in DOMAIN deps |-> 0] BY <3>1 DEF Unsorted
    <3>3. ToSet(R(n).order) = {} /\ Len(R(n).order) = 0 BY <3>2 DEF ToSet
    <3>4. DepthInv(deps, R(n)) BY <3>2, <3>3 DEF DepthInv
    <3> QED BY <2>1, <3>3, <3>4
  <2>2. CASE n # 0
    <3>1. n - 1 \in 0 .. (n - 1) /\ n - 1 \in 0 .. N /\ n - 1 \in Nat /\ (n - 1) + 1 = n
      BY <1>1, <2>2
    <3>2. R(n) = NextRound(deps, R(n - 1)) BY <3>1, RoundsUnfold
    <3>3. Good(n - 1)
      <4> HIDE DEF Good
      <4> QED BY <1>3, <3>1
    <3>4. SortInv(deps, R(n - 1)) BY <1>2, <3>1
    <3> HIDE DEF R
    <3>5. CASE R(n - 1).ready = <<>> BY <3>2, <3>3, <3>5 DEF NextRound
    <3>6. CASE R(n - 1).ready # <<>>
      <4>1. R(n) = TakeReady(deps, R(n - 1)) BY <3>2, <3>6 DEF NextRound
      <4>2. Closed(deps) => DepthInv(deps, R(n)) BY <3>3, <3>4, <3>6, <4>1, DepthStep
      <4>3. R(n).order = Append(R(n - 1).order, Last(R(n - 1).ready)) BY <4>1 DEF TakeReady
      <4>4. R(n - 1).order \in Seq(DOMAIN deps) BY <3>4 DEF SortInv
      <4>5. Len(R(n).order) = Len(R(n - 1).order) + 1 BY <4>3, <4>4
      <4>6. Len(R(n).order) = n BY <3>1, <3>3, <3>6, <4>5
      <4> QED BY <4>2, <4>6
    <3> QED BY <3>5, <3>6
  <2> QED BY <2>1, <2>2
<1>4. 0 .. N \subseteq T
  <2> HIDE DEF T
  <2> QED BY <1>1, <1>3, UpTo
<1>5. Good(N)
  <2>1. N \in 0 .. N BY <1>1
  <2> HIDE DEF Good
  <2> QED BY <1>4, <2>1
<1> QED BY <1>1, <1>2, <1>5 DEF TopologicalDepths

\* A complete order lists the nodes behind their dependencies.
LEMMA OrderTopological ==
  ASSUME NEW deps, IsGraph(deps),
         Len(TopologicalDepths(deps).order) = Cardinality(DOMAIN deps)
  PROVE  Topological(deps, TopologicalDepths(deps).order)
BY OrderComplete DEF Topological, Inner

\* A graph without a cycle is ordered completely: otherwise each of the nodes left
\* waits for another of them, and a longest walk through them could go on.
LEMMA AcyclicOrdered ==
  ASSUME NEW deps, IsGraph(deps), Closed(deps),
         \A s \in Paths(deps) : Last(s) \notin ToSet(deps[Head(s)])
  PROVE  Len(TopologicalDepths(deps).order) = Cardinality(DOMAIN deps)
<1> DEFINE N == Cardinality(DOMAIN deps)
           sorted == TopologicalDepths(deps)
           Left == DOMAIN deps \ ToSet(sorted.order)
           Ways == {s \in Paths(deps) : ToSet(s) \subseteq Left}
           lengths == {Len(s) : s \in Ways}
<1> SUFFICES ASSUME Len(sorted.order) # N PROVE FALSE OBVIOUS
<1>1. IsFiniteSet(DOMAIN deps) /\ N \in Nat BY FS_CardinalityType DEF IsGraph
<1>2. SortInv(deps, sorted) /\ sorted.ready = <<>> BY RoundsEnd
<1> HIDE DEF N, sorted
<1>3. sorted.order \in Seq(DOMAIN deps) /\ IsInjective(sorted.order) BY <1>2 DEF SortInv
<1>4. Left # {}
  <2> SUFFICES ASSUME Left = {} PROVE FALSE OBVIOUS
  <2> DEFINE order == sorted.order
  <2>1. Len(order) \in Nat /\ DOMAIN order = 1 .. Len(order) BY <1>3
  <2>2. order \in [1 .. Len(order) -> DOMAIN deps] BY <1>3
  <2> HIDE DEF order
  <2>3. ToSet(order) = DOMAIN deps
    <3>1. ToSet(order) \subseteq DOMAIN deps BY <2>1, <2>2 DEF ToSet
    <3> QED BY <3>1 DEF order
  <2>4. order \in Injection(1 .. Len(order), DOMAIN deps)
        /\ order \in Surjection(1 .. Len(order), DOMAIN deps)
    BY <1>3, <2>1, <2>2, <2>3 DEF Injection, Surjection, ToSet, order
  <2>5. Cardinality(1 .. Len(order)) = Cardinality(DOMAIN deps) BY <1>1, <2>4, FS_Injection
  <2>6. Cardinality(1 .. Len(order)) = Len(order) BY <2>1, FS_Interval, SMTT(30)
  <2> QED BY <2>5, <2>6 DEF order, N
<1>5. ASSUME NEW k \in Left PROVE \E d \in Left : d \in ToSet(deps[k])
  <2>1. k \notin Free(sorted)
    <3>1. ToSet(sorted.ready) = {} BY <1>2 DEF ToSet
    <3> QED BY <3>1 DEF Free
  <2>2. Held(deps, sorted, k) # {} BY <1>2, <2>1 DEF SortInv
  <2>3. PICK i \in DOMAIN deps[k] : deps[k][i] # RegionInput /\ deps[k][i] \notin ToSet(sorted.order)
    BY <2>2 DEF Held, Waits
  <2>4. deps[k][i] \in Inner(deps, k) BY <2>3 DEF Inner, ToSet
  <2>5. deps[k][i] \in DOMAIN deps BY <2>4 DEF Closed
  <2> QED BY <2>3, <2>4, <2>5 DEF Inner
<1>6. \A s \in Ways : /\ Walk(deps, s) /\ IsInjective(s) /\ Len(s) \in 1 .. N
                      /\ ToSet(s) \subseteq Left
  BY SimpleWalks DEF N
<1>7. lengths \in SUBSET (1 .. N) BY <1>6
<1>8. lengths # {}
  <2>1. PICK k \in Left : TRUE BY <1>4
  <2>2. Walk(deps, <<k>>) BY WalkOn
  <2>3. IsInjective(<<k>>) BY DEF IsInjective
  <2>4. ToSet(<<k>>) = {k} BY DEF ToSet
  <2>5. <<k>> \in Paths(deps) BY <2>2, <2>3, SimpleWalks
  <2>6. <<k>> \in Ways BY <2>4, <2>5
  <2> QED BY <2>6
<1>9. PICK s \in Ways : \A u \in Ways : Len(u) <= Len(s)
  <2>1. PICK m \in lengths : \A l \in lengths : l <= m
    <3> HIDE DEF lengths
    <3> QED BY <1>1, <1>7, <1>8, IntervalMax
  <2> QED BY <2>1
<1> HIDE DEF Ways, lengths
<1>10. /\ s \in Seq(DOMAIN deps) /\ Len(s) \in Nat \ {0} /\ IsInjective(s)
       /\ ToSet(s) \subseteq Left /\ Head(s) = s[1] /\ s[1] \in Left
       /\ DOMAIN s = 1 .. Len(s)
       /\ \A i \in 1 .. (Len(s) - 1) : s[i] \in ToSet(deps[s[i + 1]])
  <2>1. Walk(deps, s) /\ IsInjective(s) /\ ToSet(s) \subseteq Left BY <1>6
  <2>2. s \in Seq(DOMAIN deps) /\ Len(s) \in Nat \ {0} BY <2>1 DEF Walk
  <2>3. 1 \in DOMAIN s /\ s[1] \in ToSet(s) BY <2>2 DEF ToSet
  <2> QED BY <2>1, <2>2, <2>3 DEF Walk
<1>11. PICK d \in Left : d \in ToSet(deps[s[1]]) BY <1>5, <1>10
<1>12. CASE d \in ToSet(s)
  <2>1. PICK j \in 1 .. Len(s) : s[j] = d BY <1>10, <1>12 DEF ToSet
  <2> DEFINE u == SubSeq(s, 1, j)
  <2>2. /\ u \in Seq(DOMAIN deps) /\ Len(u) = j /\ DOMAIN u = 1 .. j
        /\ \A i \in 1 .. j : u[i] = s[i] /\ i \in 1 .. Len(s)
    BY <1>10, <2>1
  <2> HIDE DEF u
  <2>3. Walk(deps, u)
    <3>1. u # <<>> BY <2>1, <2>2
    <3>2. \A i \in 1 .. (j - 1) : i \in 1 .. (Len(s) - 1) /\ i \in 1 .. j /\ i + 1 \in 1 .. j
      BY <1>10, <2>1
    <3>3. \A i \in 1 .. (j - 1) : u[i] \in ToSet(deps[u[i + 1]]) BY <1>10, <2>2, <3>2
    <3> QED BY <2>2, <3>1, <3>3 DEF Walk
  <2>4. IsInjective(u) BY <1>10, <2>2 DEF IsInjective
  <2>5. Last(u) = d /\ Head(u) = s[1]
    <3>1. Last(u) = u[j] /\ Head(u) = u[1] BY <2>2 DEF Last
    <3>2. 1 \in 1 .. j /\ j \in 1 .. j BY <2>1
    <3> QED BY <2>1, <2>2, <3>1, <3>2
  <2>6. u \in Paths(deps) BY <2>3, <2>4, SimpleWalks
  <2> QED BY <1>11, <2>5, <2>6
<1>13. CASE d \notin ToSet(s)
  <2> DEFINE u == <<d>> \o s
  <2>1. d \in DOMAIN deps /\ d \in ToSet(deps[Head(s)]) /\ Walk(deps, s) BY <1>6, <1>10, <1>11
  <2>2. /\ Walk(deps, u) /\ Len(u) = Len(s) + 1 /\ DOMAIN u = 1 .. (Len(s) + 1)
        /\ \A i \in 1 .. (Len(s) + 1) :
             \/ i = 1 /\ u[i] = d
             \/ i # 1 /\ i - 1 \in 1 .. Len(s) /\ u[i] = s[i - 1]
    BY <2>1, WalkBack
  <2> HIDE DEF u
  <2>5. IsInjective(u)
    <3>1. \A i \in 1 .. Len(s) : s[i] # d BY <1>10, <1>13 DEF ToSet
    <3>2. ASSUME NEW i \in 1 .. (Len(s) + 1), NEW j \in 1 .. (Len(s) + 1), u[i] = u[j]
          PROVE  i = j
      <4>1. CASE i = 1 \/ j = 1 BY <2>2, <3>1, <3>2, <4>1
      <4>2. CASE i # 1 /\ j # 1
        <5>1. i - 1 \in 1 .. Len(s) /\ j - 1 \in 1 .. Len(s) /\ s[i - 1] = s[j - 1]
          BY <2>2, <3>2, <4>2
        <5>2. i - 1 = j - 1 BY <1>10, <5>1 DEF IsInjective
        <5> QED BY <5>2
      <4> QED BY <4>1, <4>2
    <3> QED BY <2>2, <3>2 DEF IsInjective
  <2>6. ToSet(u) \subseteq Left
    <3>1. \A i \in DOMAIN u : u[i] = d \/ u[i] \in ToSet(s) BY <1>10, <2>2 DEF ToSet
    <3> QED BY <1>10, <3>1 DEF ToSet
  <2>7. u \in Ways BY <2>2, <2>5, <2>6, SimpleWalks DEF Ways
  <2>8. Len(u) <= Len(s) BY <1>9, <2>7
  <2> QED BY <1>10, <2>2, <2>8
<1> QED BY <1>12, <1>13

\* The length of a walk is its weight when every node weighs one.
LEMMA WeightOnes ==
  ASSUME NEW deps, NEW s, Walk(deps, s)
  PROVE  WeightOf([k \in DOMAIN deps |-> 1], s) = Len(s)
<1> DEFINE w == [k \in DOMAIN deps |-> 1]
           x == WeightsOf(w, s)
<1>1. s \in Seq(DOMAIN deps) BY DEF Walk
<1>2. Len(s) \in Nat /\ DOMAIN s = 1 .. Len(s) /\ \A i \in 1 .. Len(s) : w[s[i]] = 1 BY <1>1
<1>3. x = [i \in 1 .. Len(s) |-> 1] BY <1>2 DEF WeightsOf
<1>4. x \in Seq(Nat) /\ Len(x) = Len(s) /\ \A i \in 1 .. Len(x) : x[i] = 1 BY <1>2, <1>3
<1> HIDE DEF x
<1>5. Total(x) = Len(x) BY <1>4, TotalNat
<1> QED BY <1>4, <1>5 DEF WeightOf, x

\* The greatest depth is the length of the longest path.
LEMMA DepthBound ==
  ASSUME NEW deps, IsGraph(deps), Closed(deps), DOMAIN deps # {},
         Len(TopologicalDepths(deps).order) = Cardinality(DOMAIN deps), NEW L \in Nat
  PROVE  Max(Range(TopologicalDepths(deps).depths)) > L <=> ~ \A s \in Paths(deps) : Len(s) <= L
<1> DEFINE order == TopologicalDepths(deps).order
           v == TopologicalDepths(deps).depths
           w == [k \in DOMAIN deps |-> 1]
           M == Max(Range(v))
<1>1. Topological(deps, order) BY OrderTopological
<1>2. v \in [DOMAIN deps -> Nat] /\ \A k \in DOMAIN deps : v[k] = HeavyAt(w, v, deps, k)
  BY <1>1, RoundsEnd DEF DepthInv, Topological
<1>3. Weighs(deps, w, v) BY <1>2 DEF Weighs, Cost
<1>4. M \in Nat /\ (\A k \in DOMAIN deps : v[k] <= M) /\ \E k \in DOMAIN deps : v[k] = M
  <2> HIDE DEF v
  <2>1. Range(v) = {v[k] : k \in DOMAIN deps} BY <1>2 DEF Range
  <2>2. IsFiniteSet({v[k] : k \in DOMAIN deps}) BY <1>2, FiniteValues DEF IsGraph
  <2>3. Range(v) \in SUBSET Nat /\ Range(v) # {} BY <1>2, <2>1
  <2>4. M \in Range(v) /\ \A y \in Range(v) : y <= M BY <2>1, <2>2, <2>3, FiniteMax
  <2> HIDE DEF M
  <2> QED BY <2>1, <2>3, <2>4
<1> HIDE DEF order, v, w, M
<1>5. ASSUME NEW s \in Paths(deps) PROVE Len(s) \in Nat /\ Len(s) <= M
  <2>1. Walk(deps, s) BY SimpleWalks
  <2>2. s \in Seq(DOMAIN deps) /\ Len(s) \in Nat \ {0} /\ Last(s) = s[Len(s)] BY <2>1 DEF Walk, Last
  <2>3. Last(s) \in DOMAIN deps BY <2>2
  <2>4. v[Last(s)] \in Nat /\ v[Last(s)] # Unbounded BY <1>2, <2>3 DEF Unbounded
  <2>5. WeightOf(w, s) <= v[Last(s)] BY <1>3, <2>1, <2>4, WalkWeight
  <2>6. WeightOf(w, s) = Len(s) BY <2>1, WeightOnes DEF w
  <2>7. v[Last(s)] <= M BY <1>4, <2>3
  <2> QED BY <1>4, <2>2, <2>4, <2>5, <2>6, <2>7
<1>6. \E s \in Paths(deps) : Len(s) = M
  <2>1. PICK k \in DOMAIN deps : v[k] = M BY <1>4
  <2>2. PICK s : Heaviest(deps, w, v, k, s) BY <1>1, <1>3, HeaviestWalk
  <2>3. v[k] # Unbounded BY <1>4, <2>1 DEF Unbounded
  <2>4. Walk(deps, s) /\ WeightOf(w, s) = M BY <2>1, <2>2, <2>3 DEF Heaviest
  <2>5. s \in Paths(deps) BY <1>1, <2>4, WalkForward
  <2>6. WeightOf(w, s) = Len(s) BY <2>4, WeightOnes DEF w
  <2> QED BY <2>4, <2>5, <2>6
<1>7. CASE M > L
  <2>1. PICK s \in Paths(deps) : Len(s) = M BY <1>6
  <2>2. ~(Len(s) <= L) BY <1>4, <1>7, <2>1
  <2> QED BY <1>7, <2>2 DEF M, v
<1>8. CASE ~(M > L)
  <2>1. \A s \in Paths(deps) : Len(s) <= L BY <1>4, <1>5, <1>8
  <2> QED BY <1>8, <2>1 DEF M, v
<1> QED BY <1>7, <1>8

\* The greatest number of consumers exceeds a limit when some node's does.
LEMMA FanoutBound ==
  ASSUME NEW deps, IsGraph(deps), NEW L \in Nat
  PROVE  MaxFanout(deps) > L <=>
           ~ \A d \in DOMAIN deps \cup {RegionInput} :
               Cardinality({k \in DOMAIN deps : d \in ToSet(deps[k])}) <= L
<1> DEFINE D == DOMAIN deps \cup {RegionInput}
           users == [d \in D |-> Cardinality({k \in DOMAIN deps : d \in ToSet(deps[k])})]
           S == {0} \cup {users[d] : d \in D}
<1>1. IsFiniteSet(DOMAIN deps) BY DEF IsGraph
<1>2. IsFiniteSet(D) BY <1>1, FS_AddElement
<1>3. \A d \in D : users[d] \in Nat
  <2> SUFFICES ASSUME NEW d \in D PROVE users[d] \in Nat OBVIOUS
  <2> DEFINE K == {k \in DOMAIN deps : d \in ToSet(deps[k])}
  <2>1. K \in SUBSET DOMAIN deps OBVIOUS
  <2> HIDE DEF K
  <2>2. Cardinality(K) \in Nat BY <1>1, <2>1, FS_Subset, FS_CardinalityType
  <2> QED BY <2>2 DEF K
<1>4. {users[d] : d \in D} = {Cardinality({k \in DOMAIN deps : d \in ToSet(deps[k])}) : d \in D}
  OBVIOUS
<1>5. MaxFanout(deps) = Max(S) BY <1>4, Zenon DEF MaxFanout
<1>6. DOMAIN users = D OBVIOUS
<1>7. (\A d \in D : Cardinality({k \in DOMAIN deps : d \in ToSet(deps[k])}) <= L)
        <=> \A d \in D : users[d] <= L
  OBVIOUS
<1> HIDE DEF users, D
<1>8. IsFiniteSet({users[d] : d \in D}) BY <1>2, <1>6, FiniteValues
<1>9. IsFiniteSet(S)
  <2>1. S = {users[d] : d \in D} \cup {0} OBVIOUS
  <2> QED BY <1>8, <2>1, FS_AddElement
<1>10. S \in SUBSET Nat /\ S # {} BY <1>3
<1>11. Max(S) \in S /\ Max(S) \in Nat /\ \A y \in S : y <= Max(S)
  <2> HIDE DEF S
  <2> QED BY <1>9, <1>10, FiniteMax
<1>12. Max(S) > L <=> ~ \A d \in D : users[d] <= L
  <2>1. ASSUME Max(S) > L PROVE \E d \in D : ~(users[d] <= L)
    <3>1. Max(S) # 0 BY <1>11, <2>1
    <3>2. PICK d \in D : users[d] = Max(S) BY <1>11, <3>1
    <3> HIDE DEF S
    <3> QED BY <1>11, <2>1, <3>2
  <2>2. ASSUME NEW d \in D, ~(users[d] <= L) PROVE Max(S) > L
    <3>1. users[d] <= Max(S) /\ users[d] \in Nat BY <1>3, <1>11
    <3> HIDE DEF S
    <3> QED BY <1>11, <2>2, <3>1
  <2> HIDE DEF S
  <2> QED BY <2>1, <2>2
<1> QED BY <1>5, <1>7, <1>12 DEF D

\* What the worklist has found so far leads to an output; what it has seen, leads on
\* to nodes that it has found.
FoundInv(deps, outputs, s) ==
  /\ s \in [pending : SUBSET DOMAIN deps, seen : SUBSET DOMAIN deps]
  /\ s.pending \cap s.seen = {}
  /\ ToSet(outputs) \subseteq s.pending \cup s.seen
  /\ \A k \in s.seen : ToSet(deps[k]) \cap DOMAIN deps \subseteq s.pending \cup s.seen
  /\ \A k \in s.pending \cup s.seen :
       \E u : Walk(deps, u) /\ Head(u) = k /\ Last(u) \in ToSet(outputs)

\* Visiting a pending node keeps what is found, and finds one node more.
LEMMA VisitFinds ==
  ASSUME NEW deps, NEW outputs, NEW s, FoundInv(deps, outputs, s), s.pending # {}
  PROVE  /\ FoundInv(deps, outputs, Visit(deps, s))
         /\ \E k \in DOMAIN deps \ s.seen : Visit(deps, s).seen = s.seen \cup {k}
<1> DEFINE key == CHOOSE k \in s.pending : TRUE
           t == Visit(deps, s)
           more == ToSet(deps[key]) \cap DOMAIN deps
<1>1. key \in s.pending OBVIOUS
<1> HIDE DEF key
<1>2. t = [pending |-> (s.pending \cup more) \ (s.seen \cup {key}), seen |-> s.seen \cup {key}]
  BY DEF Visit, key
<1>3. s.pending \subseteq DOMAIN deps /\ s.seen \subseteq DOMAIN deps /\ key \notin s.seen
  BY <1>1 DEF FoundInv
<1>4. t.seen = s.seen \cup {key} /\ t.pending = (s.pending \cup more) \ (s.seen \cup {key}) BY <1>2
<1>5. t \in [pending : SUBSET DOMAIN deps, seen : SUBSET DOMAIN deps]
  <2>1. (s.pending \cup more) \ (s.seen \cup {key}) \in SUBSET DOMAIN deps
        /\ s.seen \cup {key} \in SUBSET DOMAIN deps
    BY <1>1, <1>3
  <2> QED BY <1>2, <2>1
<1> HIDE DEF t
<1>6. t.pending \cup t.seen = s.pending \cup s.seen \cup more BY <1>1, <1>4
<1>7. ASSUME NEW k \in more
      PROVE  \E u : Walk(deps, u) /\ Head(u) = k /\ Last(u) \in ToSet(outputs)
  <2>1. PICK u : Walk(deps, u) /\ Head(u) = key /\ Last(u) \in ToSet(outputs) BY <1>1 DEF FoundInv
  <2>2. k \in DOMAIN deps /\ k \in ToSet(deps[Head(u)]) BY <2>1
  <2>3. Walk(deps, <<k>> \o u) /\ Head(<<k>> \o u) = k /\ Last(<<k>> \o u) = Last(u)
    BY <2>1, <2>2, WalkBack
  <2> QED BY <2>1, <2>3
<1>8. \A k \in t.seen : ToSet(deps[k]) \cap DOMAIN deps \subseteq t.pending \cup t.seen
  BY <1>4, <1>6 DEF FoundInv
<1>9. \A k \in t.pending \cup t.seen :
        \E u : Walk(deps, u) /\ Head(u) = k /\ Last(u) \in ToSet(outputs)
  <2>1. \A k \in s.pending \cup s.seen :
          \E u : Walk(deps, u) /\ Head(u) = k /\ Last(u) \in ToSet(outputs)
    BY DEF FoundInv
  <2> HIDE DEF more
  <2> QED BY <1>6, <1>7, <2>1
<1>10. FoundInv(deps, outputs, t)
  <2>1. t.pending \cap t.seen = {} BY <1>4
  <2>2. ToSet(outputs) \subseteq t.pending \cup t.seen BY <1>6 DEF FoundInv
  <2> QED BY <1>5, <1>8, <1>9, <2>1, <2>2 DEF FoundInv
<1> QED BY <1>1, <1>3, <1>4, <1>10 DEF t

\* What the worklist finds are the nodes with a walk to an output.
LEMMA ReachableOf ==
  ASSUME NEW deps, IsGraph(deps), NEW outputs, ToSet(outputs) \subseteq DOMAIN deps
  PROVE  \A k : k \in Reachable(deps, outputs) <=>
                  k \in DOMAIN deps
                  /\ \E u : Walk(deps, u) /\ Head(u) = k /\ Last(u) \in ToSet(outputs)
<1> DEFINE N == Cardinality(DOMAIN deps)
           S == [pending : SUBSET DOMAIN deps, seen : SUBSET DOMAIN deps]
           a == [pending |-> ToSet(outputs), seen |-> {}]
           On(s) == IF s.pending = {} THEN s ELSE Visit(deps, s)
           Step(t, n) == IF n = 0 THEN a ELSE On(t[n - 1])
           next == [n \in 1 .. N |-> [s \in S |-> On(s)]]
<1>1. N \in Nat /\ IsFiniteSet(DOMAIN deps) BY FS_CardinalityType DEF IsGraph
<1> HIDE DEF N
<1>2. a \in S OBVIOUS
<1>3. \A s \in S : On(s) \in S
  <2> SUFFICES ASSUME NEW s \in S, s.pending # {} PROVE Visit(deps, s) \in S OBVIOUS
  <2> DEFINE key == CHOOSE k \in s.pending : TRUE
  <2>1. key \in s.pending OBVIOUS
  <2>2. s.pending \subseteq DOMAIN deps /\ s.seen \subseteq DOMAIN deps OBVIOUS
  <2>3. Visit(deps, s) = [pending |-> (s.pending \cup (ToSet(deps[key]) \cap DOMAIN deps))
                                        \ (s.seen \cup {key}),
                          seen |-> s.seen \cup {key}]
    BY DEF Visit
  <2> HIDE DEF key
  <2> QED BY <2>1, <2>2, <2>3
<1>4. next \in [1 .. N -> [S -> S]] BY <1>3
<1>5. PICK g : IsRun(g, N, S, a, next)
  <2> HIDE DEF next, S, a
  <2> QED BY <1>1, <1>2, <1>4, RunOfSteps
<1>6. g = [n \in 0 .. N |-> Step(g, n)]
  <2>1. /\ g \in [0 .. N -> S] /\ g[0] = a
        /\ \A n \in 1 .. N : g[n] = next[n][g[n - 1]]
    BY <1>5 DEF IsRun
  <2>2. \A n \in 1 .. N : n - 1 \in 0 .. N /\ g[n - 1] \in S
    <3>1. \A n \in 1 .. N : n - 1 \in 0 .. N BY <1>1
    <3> HIDE DEF S
    <3> QED BY <2>1, <3>1
  <2>3. \A n \in 1 .. N : g[n] = On(g[n - 1])
    <3> HIDE DEF S, On
    <3> QED BY <2>1, <2>2
  <2>4. \A n \in 0 .. N : n = 0 \/ n \in 1 .. N BY <1>1
  <2> HIDE DEF On, a, S, next
  <2>5. \A n \in 0 .. N : g[n] = Step(g, n) BY <2>1, <2>3, <2>4
  <2> HIDE DEF Step
  <2> QED BY <2>1, <2>5
<1> DEFINE t == CHOOSE t : t = [n \in 0 .. N |-> Step(t, n)]
<1>7. t = [n \in 0 .. N |-> Step(t, n)] BY <1>6, Zenon
<1>8. Reachable(deps, outputs) = t[N].seen BY DEF Reachable, N
<1> HIDE DEF t
<1>9. t[0] = a BY <1>1, <1>7
<1>10. \A n \in 1 .. N : t[n] = On(t[n - 1])
  <2>1. \A n \in 1 .. N : n \in 0 .. N /\ n # 0 BY <1>1
  <2> HIDE DEF On
  <2> QED BY <1>7, <2>1
<1> DEFINE Good(n) == /\ FoundInv(deps, outputs, t[n])
                      /\ t[n].pending = {} \/ Cardinality(t[n].seen) = n
           T == {n \in 0 .. N : Good(n)}
<1>11. ASSUME NEW n \in 0 .. N, (0 .. (n - 1)) \subseteq T PROVE n \in T
  <2>1. CASE n = 0
    <3>1. \A k \in ToSet(outputs) : k \in DOMAIN deps /\ Walk(deps, <<k>>) /\ Head(<<k>>) = k
                                     /\ Last(<<k>>) = k
      BY WalkOn
    <3>2. FoundInv(deps, outputs, a) BY <1>2, <3>1 DEF FoundInv
    <3>3. Cardinality(a.seen) = 0 BY FS_EmptySet
    <3> QED BY <1>9, <2>1, <3>2, <3>3
  <2>2. CASE n # 0
    <3>1. n \in 1 .. N /\ n - 1 \in 0 .. (n - 1) /\ n - 1 \in 0 .. N BY <1>1, <2>2
    <3>2. Good(n - 1)
      <4> HIDE DEF Good
      <4> QED BY <1>11, <3>1
    <3>3. t[n] = On(t[n - 1]) BY <1>10, <3>1
    <3>4. CASE t[n - 1].pending = {} BY <3>2, <3>3, <3>4
    <3>5. CASE t[n - 1].pending # {}
      <4>1. t[n] = Visit(deps, t[n - 1]) BY <3>3, <3>5
      <4> DEFINE s == t[n - 1]
      <4>2. FoundInv(deps, outputs, s) /\ s.pending # {} BY <3>2, <3>5
      <4> HIDE DEF s
      <4>3. /\ FoundInv(deps, outputs, Visit(deps, s))
            /\ \E k \in DOMAIN deps \ s.seen : Visit(deps, s).seen = s.seen \cup {k}
        BY <4>2, VisitFinds, Zenon
      <4>4. t[n] = Visit(deps, s) BY <4>1 DEF s
      <4>5. PICK k \in DOMAIN deps \ s.seen : t[n].seen = s.seen \cup {k} BY <4>3, <4>4
      <4>6. s.seen \in SUBSET DOMAIN deps BY <4>2 DEF FoundInv
      <4>7. IsFiniteSet(s.seen) BY <1>1, <4>6, FS_Subset
      <4>8. Cardinality(t[n].seen) = Cardinality(s.seen) + 1 BY <4>7, <4>5, FS_AddElement
      <4>9. Cardinality(t[n].seen) = n BY <3>1, <3>2, <3>5, <4>8 DEF s
      <4> QED BY <4>3, <4>9, <4>4
    <3> QED BY <3>4, <3>5
  <2> QED BY <2>1, <2>2
<1>12. 0 .. N \subseteq T
  <2> HIDE DEF T
  <2> QED BY <1>1, <1>11, UpTo
<1>13. Good(N)
  <2>1. N \in 0 .. N BY <1>1
  <2> HIDE DEF Good
  <2> QED BY <1>12, <2>1
<1>14. t[N].seen \subseteq DOMAIN deps /\ t[N].pending = {}
  <2>1. t[N].seen \in SUBSET DOMAIN deps /\ t[N].pending \in SUBSET DOMAIN deps
        /\ t[N].pending \cap t[N].seen = {}
    BY <1>13 DEF FoundInv
  <2>2. Cardinality(t[N].seen) = N => t[N].seen = DOMAIN deps BY <1>1, <2>1, FS_Subset DEF N
  <2> QED BY <1>13, <2>1, <2>2
<1>15. ASSUME NEW u, Walk(deps, u), Last(u) \in ToSet(outputs) PROVE Head(u) \in t[N].seen
  <2> DEFINE M == Len(u)
             V == {i \in 0 .. M : i < M => u[M - i] \in t[N].seen}
  <2>1. u \in Seq(DOMAIN deps) /\ M \in Nat \ {0} /\ Last(u) = u[M] /\ Head(u) = u[1]
    BY <1>15 DEF Walk, Last
  <2>2. ASSUME NEW i \in 0 .. M, (0 .. (i - 1)) \subseteq V PROVE i \in V
    <3> SUFFICES ASSUME i < M PROVE u[M - i] \in t[N].seen OBVIOUS
    <3>1. CASE i = 0 BY <1>13, <1>14, <1>15, <2>1, <3>1 DEF FoundInv
    <3>2. CASE i # 0
      <4>1. i - 1 \in 0 .. (i - 1) /\ i - 1 < M /\ M - i \in 1 .. (M - 1) /\ M - i \in 1 .. M
            /\ M - (i - 1) = (M - i) + 1
        BY <2>1, <3>2
      <4>2. u[(M - i) + 1] \in t[N].seen BY <2>2, <4>1
      <4>3. u[M - i] \in ToSet(deps[u[(M - i) + 1]]) BY <1>15, <4>1 DEF Walk
      <4>4. u[M - i] \in DOMAIN deps BY <2>1, <4>1
      <4> QED BY <1>13, <1>14, <4>2, <4>3, <4>4 DEF FoundInv
    <3> QED BY <3>1, <3>2
  <2>3. 0 .. M \subseteq V
    <3> HIDE DEF V
    <3> QED BY <2>1, <2>2, UpTo
  <2>4. M - 1 \in 0 .. M /\ M - 1 < M /\ M - (M - 1) = 1 BY <2>1
  <2>5. u[M - (M - 1)] \in t[N].seen BY <2>3, <2>4
  <2> QED BY <2>1, <2>4, <2>5
<1>16. ASSUME NEW k \in t[N].seen
       PROVE  \E u : Walk(deps, u) /\ Head(u) = k /\ Last(u) \in ToSet(outputs)
  BY <1>13 DEF FoundInv
<1> QED BY <1>8, <1>14, <1>15, <1>16

\* After n rounds the first n nodes of the order have their weights.
TimesInv(deps, w, order, p, n) ==
  /\ p \in [DOMAIN deps -> Cost]
  /\ \A i \in 1 .. n : p[order[i]] = HeavyAt(w, p, deps, order[i])

\* Each step of path_ms gives the next node of the order its time.
LEMMA TimesStep ==
  ASSUME NEW deps, IsGraph(deps), Closed(deps), NEW w \in [DOMAIN deps -> Cost],
         NEW order, Topological(deps, order), NEW n \in 1 .. Len(order),
         NEW p, TimesInv(deps, w, order, p, n - 1)
  PROVE  TimesInv(deps, w, order,
                  [p EXCEPT ![order[n]] = HeavyAt(w, p, deps, order[n])], n)
<1> DEFINE key == order[n]
           h == HeavyAt(w, p, deps, key)
           q == [p EXCEPT ![key] = h]
<1>1. /\ order \in Seq(DOMAIN deps) /\ IsInjective(order) /\ DOMAIN order = 1 .. Len(order)
      /\ Len(order) \in Nat /\ key \in DOMAIN deps
  BY DEF Topological
<1>2. p \in [DOMAIN deps -> Cost] BY DEF TimesInv
<1>3. h \in Cost BY <1>1, <1>2, HeavyAtOf
<1> HIDE DEF h
<1>4. /\ q \in [DOMAIN deps -> Cost] /\ q[key] = h
      /\ \A k \in DOMAIN deps : k # key => q[k] = p[k]
  BY <1>1, <1>2, <1>3
<1> HIDE DEF q, key
<1>5. ASSUME NEW i \in 1 .. n, NEW j \in 1 .. (i - 1) PROVE order[j] \in DOMAIN deps /\ order[j] # key
  <2>1. j \in DOMAIN order /\ n \in DOMAIN order /\ j # n BY <1>1
  <2> QED BY <1>1, <2>1 DEF IsInjective, key
<1>6. ASSUME NEW i \in 1 .. n PROVE HeavyAt(w, q, deps, order[i]) = HeavyAt(w, p, deps, order[i])
  <2>1. i \in DOMAIN order BY <1>1
  <2>2. ASSUME NEW d \in Inner(deps, order[i]) PROVE q[d] = p[d]
    <3>1. PICK j \in 1 .. (i - 1) : order[j] = d BY <2>1 DEF Topological
    <3>2. d \in DOMAIN deps /\ d # key BY <1>5, <3>1
    <3> QED BY <1>4, <3>2
  <2>3. {q[d] : d \in Inner(deps, order[i])} = {p[d] : d \in Inner(deps, order[i])} BY <2>2
  <2> QED BY <2>3 DEF HeavyAt
<1>7. ASSUME NEW i \in 1 .. n PROVE q[order[i]] = HeavyAt(w, q, deps, order[i])
  <2>1. CASE i = n BY <1>4, <1>6, <2>1 DEF key, h
  <2>2. CASE i # n
    <3>1. i \in 1 .. (n - 1) /\ i \in 1 .. n /\ n \in 1 .. n BY <1>1, <2>2
    <3>2. order[i] \in DOMAIN deps /\ order[i] # key BY <1>5, <3>1
    <3>3. p[order[i]] = HeavyAt(w, p, deps, order[i]) BY <3>1 DEF TimesInv
    <3> QED BY <1>4, <1>6, <3>2, <3>3
  <2> QED BY <2>1, <2>2
<1> QED BY <1>4, <1>7 DEF TimesInv, q, h, key

\* The times of the paths are the weights when every node weighs its own.
LEMMA PathTimesOf ==
  ASSUME NEW nodes, NEW deps, deps = [k \in DOMAIN nodes |-> nodes[k].deps],
         IsGraph(deps), Closed(deps),
         NEW w \in [DOMAIN deps -> Cost], w = [k \in DOMAIN nodes |-> nodes[k].entry.time],
         NEW order, Topological(deps, order)
  PROVE  Weighs(deps, w, PathTimes(nodes, order))
<1> DEFINE N == Len(order)
           S == [DOMAIN deps -> Cost]
           a == [k \in DOMAIN nodes |-> 0]
           On(p, n) == PathTime(nodes, p, order[n])
           Step(t, n) == IF n = 0 THEN a ELSE On(t[n - 1], n)
           next == [n \in 1 .. N |-> [p \in S |-> On(p, n)]]
<1>1. N \in Nat /\ (\A n \in 1 .. N : order[n] \in DOMAIN deps) /\ DOMAIN deps = DOMAIN nodes
  BY DEF Topological
<1>2. a \in S BY <1>1 DEF Cost
<1>3. ASSUME NEW n \in 1 .. N, NEW p \in S
      PROVE  /\ On(p, n) = [p EXCEPT ![order[n]] = HeavyAt(w, p, deps, order[n])]
             /\ On(p, n) \in S
  <2> DEFINE key == order[n]
  <2>1. key \in DOMAIN deps BY <1>1
  <2>2. nodes[key].deps = deps[key] /\ nodes[key].entry.time = w[key] BY <1>1, <2>1
  <2>3. On(p, n) = [p EXCEPT ![key] = HeavyAt(w, p, deps, key)]
    BY <2>2 DEF PathTime, HeavyAt, Inner
  <2>4. HeavyAt(w, p, deps, key) \in Cost BY <2>1, HeavyAtOf
  <2> HIDE DEF On, key
  <2>5. On(p, n) \in S BY <2>3, <2>4, Zenon
  <2> QED BY <2>3, <2>5 DEF key
<1> HIDE DEF On
<1>4. next \in [1 .. N -> [S -> S]] BY <1>3
<1>5. PICK g : IsRun(g, N, S, a, next)
  <2> HIDE DEF next, S, a, N
  <2> QED BY <1>1, <1>2, <1>4, RunOfSteps
<1>6. g = [n \in 0 .. N |-> Step(g, n)]
  <2>1. /\ g \in [0 .. N -> S] /\ g[0] = a
        /\ \A n \in 1 .. N : g[n] = next[n][g[n - 1]]
    BY <1>5 DEF IsRun
  <2>2. \A n \in 1 .. N : n - 1 \in 0 .. N /\ g[n - 1] \in S
    <3>1. \A n \in 1 .. N : n - 1 \in 0 .. N BY <1>1
    <3> HIDE DEF S, N
    <3> QED BY <2>1, <3>1
  <2>3. \A n \in 1 .. N : g[n] = On(g[n - 1], n)
    <3> HIDE DEF S, N
    <3> QED BY <2>1, <2>2
  <2>4. \A n \in 0 .. N : n = 0 \/ n \in 1 .. N BY <1>1
  <2> HIDE DEF a, S, next, N
  <2>5. \A n \in 0 .. N : g[n] = Step(g, n) BY <2>1, <2>3, <2>4
  <2> HIDE DEF Step
  <2> QED BY <2>1, <2>5
<1> DEFINE t == CHOOSE t : t = [n \in 0 .. N |-> Step(t, n)]
<1>7. t = [n \in 0 .. N |-> Step(t, n)] BY <1>6
<1>8. PathTimes(nodes, order) = t[N] BY DEF PathTimes, On
<1> HIDE DEF t, N
<1>9. t[0] = a BY <1>1, <1>7
<1>10. \A n \in 1 .. N : t[n] = On(t[n - 1], n)
  <2>1. \A n \in 1 .. N : n \in 0 .. N /\ n # 0 BY <1>1
  <2> QED BY <1>7, <2>1
<1> DEFINE T == {n \in 0 .. N : TimesInv(deps, w, order, t[n], n)}
<1>11. ASSUME NEW n \in 0 .. N, (0 .. (n - 1)) \subseteq T PROVE n \in T
  <2>1. CASE n = 0 BY <1>2, <1>9, <2>1 DEF TimesInv
  <2>2. CASE n # 0
    <3> DEFINE p == t[n - 1]
    <3>1. n \in 1 .. N /\ n - 1 \in 0 .. (n - 1) /\ n \in 1 .. Len(order) BY <1>1, <2>2 DEF N
    <3>2. TimesInv(deps, w, order, p, n - 1) BY <1>11, <3>1
    <3>3. t[n] = On(p, n) BY <1>10, <3>1
    <3> HIDE DEF p
    <3>4. p \in S BY <3>2 DEF TimesInv
    <3>5. t[n] = [p EXCEPT ![order[n]] = HeavyAt(w, p, deps, order[n])] BY <1>3, <3>1, <3>3, <3>4
    <3>6. TimesInv(deps, w, order, [p EXCEPT ![order[n]] = HeavyAt(w, p, deps, order[n])], n)
      BY <3>1, <3>2, TimesStep
    <3> QED BY <3>5, <3>6
  <2> QED BY <2>1, <2>2
<1>12. 0 .. N \subseteq T
  <2> HIDE DEF T
  <2> QED BY <1>1, <1>11, UpTo
<1>13. TimesInv(deps, w, order, t[N], N)
  <2>1. N \in 0 .. N BY <1>1
  <2> QED BY <1>12, <2>1
<1>14. \A k \in DOMAIN deps : \E i \in 1 .. N : order[i] = k BY DEF Topological, ToSet, N
<1> QED BY <1>8, <1>13, <1>14 DEF Weighs, TimesInv

\* All nodes have a time, and no path of nodes with these times takes longer than T.
Bounded(deps, w) == \A k \in DOMAIN deps : w[k] # Unbounded

Within(deps, w, T) == \A s \in Paths(deps) : WeightOf(w, s) <= T

\* The time of the plan is bounded when the time of all nodes is, and then it is
\* within a number when the times of all paths are.
LEMMA TimeBound ==
  ASSUME NEW nodes, NEW outputs, ToSet(outputs) \subseteq DOMAIN nodes,
         NEW deps, deps = [k \in DOMAIN nodes |-> nodes[k].deps], IsGraph(deps), Closed(deps),
         NEW w \in [DOMAIN deps -> Cost], w = [k \in DOMAIN nodes |-> nodes[k].entry.time],
         Topological(deps, TopologicalDepths(deps).order),
         \A k \in DOMAIN deps :
           \E u : Walk(deps, u) /\ Head(u) = k /\ Last(u) \in ToSet(outputs)
  PROVE  LET time == AggregateBudget(nodes, outputs).time
         IN  /\ time \in Cost /\ (time # Unbounded <=> Bounded(deps, w))
             /\ Bounded(deps, w) => \A T \in Nat : time <= T <=> Within(deps, w, T)
<1> DEFINE order == TopologicalDepths(deps).order
           v == PathTimes(nodes, order)
           ends == {v[o] : o \in ToSet(outputs)}
           time == AggregateBudget(nodes, outputs).time
<1>1. time = IF Unbounded \in ends THEN Unbounded ELSE MaxOr(0, ends) BY DEF AggregateBudget
<1>2. Weighs(deps, w, v) BY PathTimesOf
<1>3. DOMAIN deps = DOMAIN nodes OBVIOUS
<1>4. IsFiniteSet(ends) /\ ends \in SUBSET Cost
  <2> DEFINE O == ToSet(outputs)
             x == [o \in O |-> v[o]]
  <2>1. O \in SUBSET DOMAIN deps BY <1>3
  <2>2. IsFiniteSet(O) BY <2>1, FS_Subset DEF IsGraph
  <2>3. {x[o] : o \in O} = ends OBVIOUS
  <2>4. DOMAIN x = O OBVIOUS
  <2>5. IsFiniteSet({x[o] : o \in O})
    <3> HIDE DEF x, O
    <3> QED BY <2>2, <2>4, FiniteValues
  <2>6. ends \in SUBSET Cost
    <3> HIDE DEF v
    <3> QED BY <1>2, <2>1 DEF Weighs
  <2> QED BY <2>3, <2>5, <2>6
<1> HIDE DEF v, time, order
<1>5. ends \in SUBSET Nat \/ Unbounded \in ends BY <1>4 DEF Cost
<1>6. ASSUME time # Unbounded
      PROVE  /\ time \in Nat /\ \A o \in ToSet(outputs) : v[o] \in Nat /\ v[o] # Unbounded /\ v[o] <= time
             /\ time = 0 \/ time \in ends
  <2>1. Unbounded \notin ends /\ time = MaxOr(0, ends) /\ ends \in SUBSET Nat BY <1>1, <1>5, <1>6
  <2>2. time \in Nat /\ (time = 0 \/ time \in ends) /\ \A y \in ends : y <= time
    <3> HIDE DEF ends
    <3> QED BY <1>4, <2>1, MaxOrOf
  <2>3. \A o \in ToSet(outputs) : v[o] \in ends OBVIOUS
  <2> HIDE DEF ends
  <2> QED BY <2>1, <2>2, <2>3
<1>7. ASSUME time # Unbounded, NEW u, Walk(deps, u), Last(u) \in ToSet(outputs)
      PROVE  w[Head(u)] # Unbounded /\ v[Head(u)] \in Nat /\ v[Head(u)] <= time
  <2>1. u \in Seq(DOMAIN deps) /\ 1 \in 1 .. Len(u) /\ Head(u) = u[1] BY <1>7 DEF Walk
  <2>2. v[Last(u)] # Unbounded /\ v[Last(u)] \in Nat /\ v[Last(u)] <= time /\ time \in Nat
    BY <1>6, <1>7
  <2>3. v[u[1]] \in Nat /\ w[u[1]] \in Nat /\ v[u[1]] <= v[Last(u)]
    BY <1>2, <1>7, <2>1, <2>2, WalkRises
  <2>4. w[u[1]] # Unbounded BY <2>3 DEF Unbounded
  <2>5. v[u[1]] <= time BY <2>2, <2>3
  <2> QED BY <2>1, <2>3, <2>4, <2>5
<1>8. ASSUME time # Unbounded PROVE Bounded(deps, w)
  <2> SUFFICES ASSUME NEW k \in DOMAIN deps PROVE w[k] # Unbounded BY DEF Bounded
  <2>1. PICK u : Walk(deps, u) /\ Head(u) = k /\ Last(u) \in ToSet(outputs) OBVIOUS
  <2> QED BY <1>7, <1>8, <2>1
<1>9. ASSUME Bounded(deps, w) PROVE time # Unbounded
  <2> SUFFICES ASSUME NEW o \in ToSet(outputs) PROVE v[o] # Unbounded
    <3>1. Unbounded \notin ends BY <1>9
    <3>2. ends \in SUBSET Nat /\ time = MaxOr(0, ends) BY <1>1, <1>5, <3>1
    <3>3. time \in Nat
      <4> HIDE DEF ends
      <4> QED BY <1>4, <3>2, MaxOrOf
    <3> QED BY <3>3 DEF Unbounded
  <2>1. o \in DOMAIN deps BY <1>3
  <2>2. PICK s : Heaviest(deps, w, v, o, s) BY <1>2, <2>1, HeaviestWalk DEF order
  <2>3. \A i \in DOMAIN s : s[i] \in DOMAIN deps BY <2>2 DEF Heaviest, Walk
  <2>4. \A i \in DOMAIN s : w[s[i]] # Unbounded BY <1>9, <2>3 DEF Bounded
  <2> QED BY <2>2, <2>4 DEF Heaviest
<1>10. ASSUME NEW T \in Nat, time # Unbounded, time <= T, NEW s \in Paths(deps)
       PROVE  WeightOf(w, s) <= T
  <2>1. Walk(deps, s) BY SimpleWalks
  <2>2. s \in Seq(DOMAIN deps) /\ Last(s) \in DOMAIN deps
    <3>1. s \in Seq(DOMAIN deps) /\ Len(s) \in Nat \ {0} BY <2>1 DEF Walk
    <3> QED BY <3>1 DEF Last
  <2>3. PICK u : Walk(deps, u) /\ Head(u) = Last(s) /\ Last(u) \in ToSet(outputs) BY <2>2
  <2>4. v[Last(s)] \in Nat /\ v[Last(s)] <= time BY <1>7, <1>10, <2>3
  <2>5. v[Last(s)] # Unbounded BY <2>4 DEF Unbounded
  <2>6. WeightOf(w, s) <= v[Last(s)] BY <1>2, <2>1, <2>5, WalkWeight
  <2>7. WeightOf(w, s) \in Int
    <3>1. WeightsOf(w, s) \in Seq(Int) BY <2>2, WeightsSeq
    <3>2. \A x \in Seq(Int) : Total(x) \in Int
      <4> SUFFICES ASSUME NEW x \in Seq(Int) PROVE Total(x) \in Int OBVIOUS
      <4>1. PICK t : IsSums(t, x) /\ Total(x) = t[Len(x)] BY TotalUnfold
      <4>2. Len(x) \in 0 .. Len(x) OBVIOUS
      <4> QED BY <4>1, <4>2, SMTT(30) DEF IsSums
    <3> QED BY <3>1, <3>2 DEF WeightOf
  <2>8. time \in Nat BY <1>6, <1>10
  <2> HIDE DEF ends
  <2> QED BY <1>10, <2>4, <2>6, <2>7, <2>8, SMTT(30)
<1>11. ASSUME NEW T \in Nat, time # Unbounded, Within(deps, w, T) PROVE time <= T
  <2>1. ASSUME NEW o \in ToSet(outputs) PROVE v[o] <= T
    <3>1. o \in DOMAIN deps BY <1>3
    <3>2. PICK s : Heaviest(deps, w, v, o, s) BY <1>2, <3>1, HeaviestWalk DEF order
    <3>3. s \in Paths(deps) BY <3>2, WalkForward DEF Heaviest
    <3>4. v[o] # Unbounded BY <1>6, <1>11
    <3>5. WeightOf(w, s) = v[o] BY <3>2, <3>4 DEF Heaviest
    <3> QED BY <1>11, <3>3, <3>5 DEF Within
  <2>2. \A y \in ends : y <= T BY <2>1
  <2>3. time \in Nat /\ (time = 0 \/ time \in ends) BY <1>6, <1>11
  <2> HIDE DEF ends
  <2> QED BY <2>2, <2>3, SMTT(30)
<1>12. time \in Cost BY <1>6 DEF Cost
<1>13. Bounded(deps, w) => \A T \in Nat : time <= T <=> Within(deps, w, T)
  BY <1>9, <1>10, <1>11, Zenon DEF Within
<1> QED BY <1>8, <1>9, <1>12, <1>13 DEF time

\* The calls of all nodes together exceed a limit when their sum does.
LEMMA CallsBound ==
  ASSUME NEW nodes, NEW outputs, NEW D \in SUBSET Nat, D = DOMAIN nodes, IsFiniteSet(D),
         NEW calls \in [D -> Cost], calls = [k \in DOMAIN nodes |-> nodes[k].entry.calls],
         NEW L \in Cost
  PROVE  Exceeds(AggregateBudget(nodes, outputs).calls, L) <=>
           ~ (L # Unbounded => (\A k \in D : calls[k] # Unbounded) /\ Sum(calls, D) <= L)
<1> DEFINE x == [i \in 1 .. Cardinality(D) |-> calls[Descending(D)[i]]]
           actual == AggregateBudget(nodes, outputs).calls
<1>1. actual = IF Unbounded \in Range(calls) THEN Unbounded ELSE Sum(calls, D)
  BY DEF AggregateBudget
<1>2. Unbounded \in Range(calls) <=> \E k \in D : calls[k] = Unbounded BY DEF Range
<1>3. Sum(calls, D) = Total(x) BY DEF Sum
<1>4. ASSUME \A k \in D : calls[k] # Unbounded
      PROVE  Sum(calls, D) \in Nat
  <2>1. \A k \in D : calls[k] \in Nat BY <1>4 DEF Cost
  <2>2. Descending(D) \in Seq(D) /\ DOMAIN Descending(D) = 1 .. Cardinality(D)
    BY DescendingOf DEF Descending
  <2>3. Cardinality(D) \in Nat BY FS_CardinalityType
  <2>4. \A i \in 1 .. Cardinality(D) : calls[Descending(D)[i]] \in Nat
    <3> DEFINE q == Descending(D)
    <3>1. q \in Seq(D) /\ DOMAIN q = 1 .. Cardinality(D) BY <2>2
    <3> HIDE DEF q
    <3>2. \A i \in 1 .. Cardinality(D) : q[i] \in D
      <4>1. q \in Seq(D) BY <3>1
      <4>2. q \in [1 .. Len(q) -> D] /\ DOMAIN q = 1 .. Len(q) BY <4>1
      <4>3. \A i \in DOMAIN q : q[i] \in D BY <4>2
      <4> QED BY <3>1, <4>3
    <3> QED BY <2>1, <3>2 DEF q
  <2>5. x \in Seq(Nat) BY <2>3, <2>4
  <2> HIDE DEF x
  <2>6. Total(x) \in Nat BY <2>5, TotalNat
  <2> QED BY <1>3, <2>6
<1> HIDE DEF actual, x
<1>5. Exceeds(actual, L) <=>
        ~ (L # Unbounded => /\ \A k \in D : calls[k] # Unbounded
                            /\ Sum(calls, D) <= L)
  <2>1. CASE L = Unbounded BY <2>1 DEF Exceeds
  <2>2. CASE L # Unbounded /\ \E k \in D : calls[k] = Unbounded
    <3>1. actual = Unbounded BY <1>1, <1>2, <2>2
    <3> QED BY <2>2, <3>1 DEF Exceeds
  <2>3. CASE L # Unbounded /\ \A k \in D : calls[k] # Unbounded
    <3>1. actual = Sum(calls, D) /\ Sum(calls, D) \in Nat BY <1>1, <1>2, <1>4, <2>3
    <3>2. L \in Nat /\ actual # Unbounded BY <2>3, <3>1 DEF Cost, Unbounded
    <3>3. Exceeds(actual, L) <=> actual > L BY <2>3, <3>2 DEF Exceeds
    <3>4. actual > L <=> ~(Sum(calls, D) <= L) BY <3>1, <3>2
    <3> QED BY <2>3, <3>3, <3>4
  <2> QED BY <2>1, <2>2, <2>3
<1> QED BY <1>5 DEF actual

\* The cost of the plan is a number when it has no bound or its sum is in the range of
\* a float, and then it exceeds a limit when the float does.
LEMMA CostBound ==
  ASSUME NEW nodes, NEW outputs, NEW D, D = DOMAIN nodes,
         NEW cost, cost = [k \in DOMAIN nodes |-> nodes[k].entry.cost],
         NEW L \in Cost
  PROVE  LET actual == AggregateBudget(nodes, outputs).cost
             sum == CostSum(cost, D)
             bounded == \A k \in D : cost[k] # Unbounded
         IN  actual # Infinite /\ ~Exceeds(actual, L) <=>
               /\ bounded => sum \in DOMAIN Double
               /\ L # Unbounded => bounded /\ Double[sum] <= L
<1> DEFINE actual == AggregateBudget(nodes, outputs).cost
           sum == CostSum(cost, D)
           bounded == \A k \in D : cost[k] # Unbounded
           Kept == actual # Infinite /\ ~Exceeds(actual, L)
           Fits == /\ bounded => sum \in DOMAIN Double
                   /\ L # Unbounded => bounded /\ Double[sum] <= L
<1>1. actual = IF Unbounded \in Range(cost) THEN Unbounded ELSE FloatOf(sum) BY DEF AggregateBudget
<1>2. Unbounded \in Range(cost) <=> ~bounded BY DEF Range
<1> HIDE DEF actual, sum, bounded
<1>3. sum \in DOMAIN Double => Double[sum] \in Nat BY PlanValidatorAssumption
<1>4. ASSUME ~bounded PROVE Kept <=> Fits
  <2>1. actual = Unbounded /\ Unbounded # Infinite BY <1>1, <1>2, <1>4 DEF Unbounded, Infinite
  <2> QED BY <1>4, <2>1 DEF Exceeds
<1>5. ASSUME bounded, sum \in DOMAIN Double PROVE Kept <=> Fits
  <2>1. actual = Double[sum] /\ actual \in Nat BY <1>1, <1>2, <1>3, <1>5 DEF FloatOf
  <2>2. actual # Infinite /\ actual # Unbounded BY <2>1 DEF Infinite, Unbounded
  <2>3. CASE L = Unbounded BY <1>5, <2>2, <2>3 DEF Exceeds
  <2>4. CASE L # Unbounded
    <3>1. L \in Nat BY <2>4 DEF Cost
    <3>2. ~(actual > L) <=> actual <= L BY <2>1, <3>1
    <3>3. ~Exceeds(actual, L) <=> actual <= L BY <2>2, <2>4, <3>2 DEF Exceeds
    <3> QED BY <1>5, <2>1, <2>2, <2>4, <3>3
  <2> QED BY <2>3, <2>4
<1>6. ASSUME bounded, sum \notin DOMAIN Double PROVE Kept <=> Fits
  <2>1. actual = Infinite BY <1>1, <1>2, <1>6 DEF FloatOf
  <2> QED BY <1>6, <2>1
<1>7. Kept <=> Fits BY <1>4, <1>5, <1>6
<1> QED BY <1>7 DEF actual, sum, bounded

-----------------------------------------------------------------------------
(***************************************************************************)
(* validate and the reference.                                             *)
(***************************************************************************)

\* What validate computes of a well-formed fragment.
Judged(f, limit, approved) ==
  LET sorted == TopologicalDepths(DepsOf(f))
      metrics == Metrics(Signature(f))
  IN
  /\ ~(Len(f.nodes) > Limits.nodes)
  /\ Reachable(DepsOf(f), f.outputs) = Keys(f)
  /\ \A n \in ToSet(f.nodes) : Len(n.deps) = Len(Catalog[n.alias].inputs)
  /\ Len(sorted.order) = Cardinality(Keys(f))
  /\ ~(Max(Range(sorted.depths)) > Limits.depth)
  /\ ~(MaxFanout(DepsOf(f)) > Limits.fanout)
  /\ EdgesTyped(Resolve(f)) /\ OutputsTyped(Resolve(f), f.outputs)
  /\ InRange(metrics.budget)
  /\ metrics.grant \subseteq RegionGrant
  /\ ~Exceeds(metrics.budget.calls, limit.calls)
  /\ ~Exceeds(metrics.budget.cost, limit.cost)
  /\ ~Exceeds(metrics.budget.time, limit.time)
  /\ metrics.approvals \subseteq approved

\* A fragment has no bad node exactly when each of its nodes passes.
LEMMA NoBadNode ==
  ASSUME NEW f, NamedNodes(f)
  PROVE  LET bad == {i \in DOMAIN f.nodes : NodeError(f.nodes[i]) # "valid"}
         IN  /\ bad = {} <=> \A n \in ToSet(f.nodes) :
                               /\ n.alias \in DOMAIN Catalog /\ IsInjective(n.deps)
                               /\ Len(n.deps) = Len(Catalog[n.alias].inputs)
             /\ bad # {} => NodeError(f.nodes[Min(bad)]) # "valid"
<1> DEFINE bad == {i \in DOMAIN f.nodes : NodeError(f.nodes[i]) # "valid"}
           Passing(n) == /\ n.alias \in DOMAIN Catalog /\ IsInjective(n.deps)
                         /\ Len(n.deps) = Len(Catalog[n.alias].inputs)
<1>1. \A n : NodeError(n) = "valid" <=> Passing(n) BY DEF NodeError
<1>2. bad = {} <=> \A n \in ToSet(f.nodes) : Passing(n)
  <2> HIDE DEF Passing
  <2> QED BY <1>1 DEF ToSet
<1>3. ASSUME bad # {} PROVE NodeError(f.nodes[Min(bad)]) # "valid"
  <2>1. bad \in SUBSET Nat BY DEF NamedNodes
  <2>2. \E x \in bad : \A y \in bad : x <= y
    <3> HIDE DEF bad
    <3> QED BY <1>3, <2>1, NatMin
  <2>3. Min(bad) \in bad BY <2>2 DEF Min
  <2> QED BY <2>3
<1> QED BY <1>2, <1>3

\* What the part of _resolve_graph about the graph establishes.
LEMMA ShapeMeans ==
  ASSUME NEW f, IsFragment(f), Canonical(f)
  PROVE  ShapeError(f) = "valid" <=>
           /\ WellFormed(f)
           /\ ~(Len(f.nodes) > Limits.nodes)
           /\ Reachable(DepsOf(f), f.outputs) = Keys(f)
           /\ \A n \in ToSet(f.nodes) : Len(n.deps) = Len(Catalog[n.alias].inputs)
           /\ Len(TopologicalDepths(DepsOf(f)).order) = Cardinality(Keys(f))
           /\ ~(Max(Range(TopologicalDepths(DepsOf(f)).depths)) > Limits.depth)
           /\ ~(MaxFanout(DepsOf(f)) > Limits.fanout)
<1> DEFINE bad == {i \in DOMAIN f.nodes : NodeError(f.nodes[i]) # "valid"}
           sorted == TopologicalDepths(DepsOf(f))
           Passing == \A n \in ToSet(f.nodes) :
                        /\ n.alias \in DOMAIN Catalog /\ IsInjective(n.deps)
                        /\ Len(n.deps) = Len(Catalog[n.alias].inputs)
           Inside == \A n \in ToSet(f.nodes) : ToSet(n.deps) \subseteq Keys(f) \cup {RegionInput}
           long == Len(f.nodes) > Limits.nodes
           found == Reachable(DepsOf(f), f.outputs)
           deep == Max(Range(sorted.depths)) > Limits.depth
           wide == MaxFanout(DepsOf(f)) > Limits.fanout
           short == Len(sorted.order) # Cardinality(Keys(f))
<1>1. /\ bad = {} <=> Passing
      /\ bad # {} => NodeError(f.nodes[Min(bad)]) # "valid"
  BY NoBadNode DEF IsFragment
<1>2. ShapeError(f) =
        IF f.nodes = <<>> THEN "PLAN_TOPOLOGY_INVALID"
        ELSE IF long THEN "PLAN_LIMIT_EXCEEDED"
        ELSE IF \/ f.outputs = <<>> \/ ~IsInjective(f.outputs)
                \/ ~(ToSet(f.outputs) \subseteq Keys(f))
                \/ found # Keys(f)
                \/ ~Inside
             THEN "PLAN_TOPOLOGY_INVALID"
        ELSE IF bad # {} THEN NodeError(f.nodes[Min(bad)])
        ELSE IF short THEN "PLAN_TOPOLOGY_INVALID"
        ELSE IF deep \/ wide THEN "PLAN_LIMIT_EXCEEDED"
        ELSE "valid"
  BY DEF ShapeError
<1>3. WellFormed(f) /\ (\A n \in ToSet(f.nodes) : Len(n.deps) = Len(Catalog[n.alias].inputs))
        <=> /\ f.nodes # <<>> /\ f.outputs # <<>> /\ IsInjective(f.outputs)
            /\ ToSet(f.outputs) \subseteq Keys(f) /\ Inside /\ Passing
  BY DEF WellFormed
<1> HIDE DEF bad, sorted, Passing, Inside, long, found, deep, wide, short
<1>4. ShapeError(f) = "valid" <=>
        /\ f.nodes # <<>> /\ ~long /\ f.outputs # <<>> /\ IsInjective(f.outputs)
        /\ ToSet(f.outputs) \subseteq Keys(f) /\ found = Keys(f) /\ Inside
        /\ bad = {} /\ ~short /\ ~deep /\ ~wide
  BY <1>1, <1>2
<1>5. ShapeError(f) = "valid" <=>
        /\ WellFormed(f) /\ (\A n \in ToSet(f.nodes) : Len(n.deps) = Len(Catalog[n.alias].inputs))
        /\ ~long /\ found = Keys(f) /\ ~short /\ ~deep /\ ~wide
  BY <1>1, <1>3, <1>4
<1> QED BY <1>5 DEF sorted, long, found, deep, wide, short

\* validate raises no error exactly when its computations pass a well-formed fragment.
LEMMA ValidJudged ==
  ASSUME NEW f, NEW limit, NEW check
  PROVE  Validate(f, limit, check) = "valid" <=> WellFormed(f) /\ Judged(f, limit, UNION check)
<1> DEFINE metrics == Metrics(Signature(f))
           shape == ShapeError(f)
           over == \/ Exceeds(metrics.budget.calls, limit.calls)
                   \/ Exceeds(metrics.budget.cost, limit.cost)
                   \/ Exceeds(metrics.budget.time, limit.time)
           typed == EdgesTyped(Resolve(f)) /\ OutputsTyped(Resolve(f), f.outputs)
           ranged == InRange(metrics.budget)
           granted == metrics.grant \subseteq RegionGrant
           unchecked == metrics.approvals # {} /\ check = {}
           passed == metrics.approvals \subseteq UNION check
<1>1. Validate(f, limit, check) =
        IF ~NamedNodes(f) \/ ~Ordered(f) THEN "PLAN_FRAGMENT_INVALID"
        ELSE IF ~Canonical(f) THEN "PLAN_TOPOLOGY_INVALID"
        ELSE IF ~IsFragment(f) THEN "PLAN_FRAGMENT_INVALID"
        ELSE IF shape # "valid" THEN shape
        ELSE IF ~typed THEN "PLAN_SCHEMA_INVALID"
        ELSE IF ~ranged THEN "PLAN_BUDGET_INVALID"
        ELSE IF ~granted THEN "PLAN_CAPABILITY_ESCALATION"
        ELSE IF over THEN "PLAN_BUDGET_EXCEEDED"
        ELSE IF unchecked THEN "PLAN_APPROVAL_REQUIRED"
        ELSE IF ~passed THEN "PLAN_APPROVAL_VALIDATION_FAILED"
        ELSE "valid"
  BY DEF Validate, Signature
<1>2. IsFragment(f) /\ Canonical(f) => NamedNodes(f) /\ Ordered(f)
  <2> SUFFICES ASSUME IsFragment(f), Canonical(f) PROVE NamedNodes(f) /\ Ordered(f) OBVIOUS
  <2>1. NamedNodes(f) BY DEF IsFragment
  <2>2. \A i \in DOMAIN f.nodes : f.nodes[i].key \in Nat BY <2>1 DEF NamedNodes, ToSet
  <2> QED BY <2>1, <2>2 DEF Canonical, Ordered
<1>3. WellFormed(f) => IsFragment(f) /\ Canonical(f) BY DEF WellFormed
<1>4. IsFragment(f) /\ Canonical(f) =>
        ((WellFormed(f) /\ Judged(f, limit, UNION check)) <=>
           /\ shape = "valid" /\ typed /\ ranged /\ granted /\ ~over /\ passed)
  BY ShapeMeans DEF Judged
<1>5. passed => ~unchecked
  <2> HIDE DEF metrics
  <2> QED OBVIOUS
<1> HIDE DEF metrics, shape, over, typed, ranged, granted, unchecked, passed
<1>6. Validate(f, limit, check) = "valid" <=>
        /\ NamedNodes(f) /\ Ordered(f) /\ Canonical(f) /\ IsFragment(f)
        /\ shape = "valid" /\ typed /\ ranged /\ granted /\ ~over /\ ~unchecked /\ passed
  BY <1>1
<1> QED BY <1>2, <1>3, <1>4, <1>5, <1>6

\* A well-formed fragment: its keys number its nodes, whose entries the catalog has,
\* and its dependencies are a graph closed but for the region's input.
LEMMA WellFormedMeans ==
  ASSUME NEW f, WellFormed(f)
  PROVE  /\ DOMAIN DepsOf(f) = Keys(f) /\ IsGraph(DepsOf(f)) /\ Closed(DepsOf(f))
         /\ Keys(f) # {} /\ ToSet(f.outputs) \subseteq Keys(f)
         /\ Keys(f) \in SUBSET (Nat \ {RegionInput}) /\ IsFiniteSet(Keys(f))
         /\ Cardinality(Keys(f)) = Len(f.nodes) /\ Len(f.nodes) \in Nat
         /\ \A n \in ToSet(f.nodes) : n.key \in Keys(f) /\ NodeAt(f, n.key) = n
         /\ \A k \in Keys(f) :
              /\ NodeAt(f, k) \in ToSet(f.nodes) /\ DepsOf(f)[k] = NodeAt(f, k).deps
              /\ EntryOf(f, k).calls \in Cost /\ EntryOf(f, k).time \in Cost
              /\ EntryOf(f, k).inputs \in Seq(ToSet(EntryOf(f, k).inputs))
<1>1. /\ IsFragment(f) /\ Canonical(f) /\ f.nodes # <<>>
      /\ ToSet(f.outputs) \subseteq Keys(f)
      /\ \A n \in ToSet(f.nodes) : n.alias \in DOMAIN Catalog
                                   /\ ToSet(n.deps) \subseteq Keys(f) \cup {RegionInput}
  BY DEF WellFormed
<1>2. /\ \A k \in Keys(f) : NodeAt(f, k) \in ToSet(f.nodes) /\ NodeAt(f, k).key = k
      /\ DOMAIN DepsOf(f) = Keys(f) /\ IsGraph(DepsOf(f)) /\ Keys(f) # {}
  BY <1>1, FragmentGraph
<1>3. Keys(f) \in SUBSET (Nat \ {RegionInput}) /\ IsFiniteSet(Keys(f))
  BY <1>2 DEF IsGraph, RegionInput
<1>4. \A k \in Keys(f) : DepsOf(f)[k] = NodeAt(f, k).deps BY DEF DepsOf
<1>5. Closed(DepsOf(f)) BY <1>1, <1>2, <1>4 DEF Closed, Inner
<1>6. /\ f.nodes \in Seq(ToSet(f.nodes)) /\ Len(f.nodes) \in Nat
      /\ DOMAIN f.nodes = 1 .. Len(f.nodes)
      /\ \A i \in DOMAIN f.nodes : f.nodes[i].key \in Nat
  BY <1>1 DEF IsFragment, NamedNodes, ToSet
<1>7. \A i, j \in DOMAIN f.nodes : f.nodes[i].key = f.nodes[j].key => i = j
  <2> SUFFICES ASSUME NEW i \in DOMAIN f.nodes, NEW j \in DOMAIN f.nodes,
                      f.nodes[i].key = f.nodes[j].key, i # j
               PROVE  FALSE
    OBVIOUS
  <2>1. i < j \/ j < i BY <1>6
  <2>2. /\ i < j => f.nodes[i].key < f.nodes[j].key
        /\ j < i => f.nodes[j].key < f.nodes[i].key
    BY <1>1 DEF Canonical
  <2>3. f.nodes[i].key \in Nat BY <1>6
  <2> QED BY <2>1, <2>2, <2>3
<1>8. \A n \in ToSet(f.nodes) : n.key \in Keys(f) /\ NodeAt(f, n.key) = n
  <2> SUFFICES ASSUME NEW n \in ToSet(f.nodes)
               PROVE  n.key \in Keys(f) /\ NodeAt(f, n.key) = n
    OBVIOUS
  <2>1. n.key \in Keys(f) BY DEF Keys
  <2>2. NodeAt(f, n.key) \in ToSet(f.nodes) /\ NodeAt(f, n.key).key = n.key BY <1>2, <2>1
  <2> QED BY <1>7, <2>1, <2>2 DEF ToSet
<1>9. Cardinality(Keys(f)) = Len(f.nodes)
  <2> DEFINE N == 1 .. Len(f.nodes)
             g == [i \in N |-> f.nodes[i].key]
  <2>1. Keys(f) = {f.nodes[i].key : i \in N} BY <1>6 DEF Keys, ToSet
  <2>2. g \in [N -> Keys(f)] BY <2>1
  <2>3. g \in Surjection(N, Keys(f)) BY <2>1 DEF Surjection, Range
  <2>4. IsInjective(g) BY <1>6, <1>7 DEF IsInjective
  <2>5. g \in Injection(N, Keys(f)) BY <2>2, <2>4 DEF Injection
  <2>6. IsFiniteSet(N) /\ Cardinality(N) = Len(f.nodes)
    <3>1. 1 \in Int /\ Len(f.nodes) \in Int /\ Len(f.nodes) \in Nat BY <1>6
    <3> HIDE DEF g
    <3> QED BY <3>1, FS_Interval
  <2> HIDE DEF g, N
  <2> QED BY <2>3, <2>5, <2>6, FS_Surjection
<1>10. ASSUME NEW k \in Keys(f)
       PROVE  /\ EntryOf(f, k).calls \in Cost /\ EntryOf(f, k).time \in Cost
              /\ EntryOf(f, k).inputs \in Seq(ToSet(EntryOf(f, k).inputs))
  <2>1. NodeAt(f, k).alias \in DOMAIN Catalog BY <1>1, <1>2
  <2> QED BY <2>1, PlanValidatorAssumption DEF IsBudget, EntryOf, Cost
<1> QED BY <1>1, <1>2, <1>3, <1>4, <1>5, <1>6, <1>8, <1>9, <1>10

-----------------------------------------------------------------------------
\* The conjuncts of the reference: no cycle, ...
Acyclic(f) == \A s \in Paths(DepsOf(f)) : Last(s) \notin ToSet(DepsOf(f)[Head(s)])

\* Every node lies on a path to an output.
Serving(f) ==
  \A k \in Keys(f) : \E s \in Paths(DepsOf(f)) : Head(s) = k /\ Last(s) \in ToSet(f.outputs)

\* What a dependency provides.
Schema(f, d) == IF d = RegionInput THEN InputSchema ELSE EntryOf(f, d).output

\* Every node is given the inputs that its entry lists.
Fed(f) ==
  \A k \in Keys(f) :
    EntryOf(f, k).inputs = [i \in DOMAIN DepsOf(f)[k] |-> Schema(f, DepsOf(f)[k][i])]

\* The outputs are those expected.
Returned(f) == [i \in DOMAIN f.outputs |-> Schema(f, f.outputs[i])] = OutputSchemas

\* The bounds on the nodes, the paths and the consumers.
Small(f) == Cardinality(Keys(f)) <= Limits.nodes

Shallow(f) == \A s \in Paths(DepsOf(f)) : Len(s) <= Limits.depth

Narrow(f) ==
  \A d \in Keys(f) \cup {RegionInput} :
    Cardinality({k \in Keys(f) : d \in ToSet(DepsOf(f)[k])}) <= Limits.fanout

\* The names asked for are granted, and the effects approved.
Granted(f) == \A k \in Keys(f) : EntryOf(f, k).grant \subseteq RegionGrant

Permitted(f, approved) == \A k \in Keys(f) : {k} \X EntryOf(f, k).approvals \subseteq approved

\* The budget: the calls and the costs of all nodes, and the time of every path.
CallsWithin(f, limit) ==
  limit.calls # Unbounded =>
    /\ \A k \in Keys(f) : EntryOf(f, k).calls # Unbounded
    /\ Sum([k \in Keys(f) |-> EntryOf(f, k).calls], Keys(f)) <= limit.calls

CostOf(f) == [k \in Keys(f) |-> EntryOf(f, k).cost]

CostWithin(f, limit) ==
  LET sum == CostSum(CostOf(f), Keys(f))
      bounded == \A k \in Keys(f) : CostOf(f)[k] # Unbounded
  IN  /\ bounded => sum \in DOMAIN Double
      /\ limit.cost # Unbounded => bounded /\ Double[sum] <= limit.cost

TimeOf(f) == [k \in Keys(f) |-> EntryOf(f, k).time]

TimeWithin(f, limit) ==
  /\ Bounded(DepsOf(f), TimeOf(f)) => Within(DepsOf(f), TimeOf(f), MaxTime)
  /\ limit.time # Unbounded =>
       Bounded(DepsOf(f), TimeOf(f)) /\ Within(DepsOf(f), TimeOf(f), limit.time)

\* The reference by its conjuncts.
LEMMA AdmissibleParts ==
  ASSUME NEW f, NEW limit, NEW approved, WellFormed(f)
  PROVE  Admissible(f, limit, approved) <=>
           /\ Acyclic(f) /\ Serving(f) /\ Fed(f) /\ Returned(f)
           /\ Small(f) /\ Shallow(f) /\ Narrow(f)
           /\ Granted(f) /\ Permitted(f, approved)
           /\ CallsWithin(f, limit) /\ CostWithin(f, limit) /\ TimeWithin(f, limit)
<1> DEFINE deps == DepsOf(f)
           keys == DOMAIN deps
           entry == [k \in keys |-> EntryOf(f, k)]
           paths == Paths(deps)
           schema(d) == IF d = RegionInput THEN InputSchema ELSE entry[d].output
           consumers(d) == {k \in keys : d \in ToSet(deps[k])}
           fed == \A k \in keys : entry[k].inputs = [i \in DOMAIN deps[k] |-> schema(deps[k][i])]
           returned == [i \in DOMAIN f.outputs |-> schema(f.outputs[i])] = OutputSchemas
           narrow == \A d \in keys \cup {RegionInput} : Cardinality(consumers(d)) <= Limits.fanout
           granted == \A k \in keys : entry[k].grant \subseteq RegionGrant
           permitted == \A k \in keys : {k} \X entry[k].approvals \subseteq approved
           calls == limit.calls # Unbounded =>
                      /\ \A k \in keys : entry[k].calls # Unbounded
                      /\ Sum([k \in keys |-> entry[k].calls], keys) <= limit.calls
           costs == [k \in keys |-> entry[k].cost]
           cost == LET sum == CostSum(costs, keys)
                       bounded == \A k \in keys : entry[k].cost # Unbounded
                   IN  /\ bounded => sum \in DOMAIN Double
                       /\ limit.cost # Unbounded => bounded /\ Double[sum] <= limit.cost
           timed == \A k \in keys : entry[k].time # Unbounded
           within(T) == \A s \in paths : Total([i \in DOMAIN s |-> entry[s[i]].time]) <= T
           time == /\ timed => within(MaxTime)
                   /\ limit.time # Unbounded => timed /\ within(limit.time)
<1>1. Admissible(f, limit, approved) <=>
        /\ \A s \in paths : Last(s) \notin ToSet(deps[Head(s)])
        /\ \A k \in keys : \E s \in paths : Head(s) = k /\ Last(s) \in ToSet(f.outputs)
        /\ fed /\ returned
        /\ Cardinality(keys) <= Limits.nodes
        /\ \A s \in paths : Len(s) <= Limits.depth
        /\ narrow /\ granted /\ permitted /\ calls /\ cost /\ time
  BY DEF Admissible
<1>2. /\ keys = Keys(f) /\ IsGraph(deps) /\ Closed(deps) /\ ToSet(f.outputs) \subseteq Keys(f)
      /\ \A k \in keys : entry[k] = EntryOf(f, k)
  BY WellFormedMeans
<1>3. \A d \in keys \cup {RegionInput} : schema(d) = Schema(f, d) BY <1>2 DEF Schema
<1>4. ASSUME NEW k \in keys, NEW i \in DOMAIN deps[k]
      PROVE  deps[k][i] \in keys \cup {RegionInput}
  <2>1. deps[k][i] \in ToSet(deps[k]) BY DEF ToSet
  <2> QED BY <1>2, <2>1 DEF Closed, Inner
<1>5. fed <=> Fed(f)
  <2>1. ASSUME NEW k \in keys
        PROVE  [i \in DOMAIN deps[k] |-> schema(deps[k][i])] =
                 [i \in DOMAIN deps[k] |-> Schema(f, deps[k][i])]
    <3>1. \A i \in DOMAIN deps[k] : schema(deps[k][i]) = Schema(f, deps[k][i]) BY <1>3, <1>4
    <3> HIDE DEF schema
    <3> QED BY <3>1
  <2>2. \A k \in keys : entry[k].inputs = EntryOf(f, k).inputs BY <1>2
  <2> HIDE DEF entry, schema
  <2> QED BY <1>2, <2>1, <2>2 DEF Fed
<1>6. returned <=> Returned(f)
  <2>1. \A i \in DOMAIN f.outputs : f.outputs[i] \in keys BY <1>2 DEF ToSet
  <2>2. \A i \in DOMAIN f.outputs : schema(f.outputs[i]) = Schema(f, f.outputs[i])
    BY <1>3, <2>1
  <2>3. [i \in DOMAIN f.outputs |-> schema(f.outputs[i])] =
          [i \in DOMAIN f.outputs |-> Schema(f, f.outputs[i])]
    <3> HIDE DEF schema
    <3> QED BY <2>2
  <2> QED BY <2>3 DEF Returned
<1>7. narrow <=> Narrow(f) BY <1>2 DEF Narrow
<1>8. granted <=> Granted(f) BY <1>2 DEF Granted
<1>9. permitted <=> Permitted(f, approved) BY <1>2 DEF Permitted
<1>10. calls <=> CallsWithin(f, limit)
  <2>1. [k \in keys |-> entry[k].calls] = [k \in Keys(f) |-> EntryOf(f, k).calls] BY <1>2
  <2> HIDE DEF entry
  <2> QED BY <1>2, <2>1 DEF CallsWithin
<1>11. cost <=> CostWithin(f, limit)
  <2>1. costs = CostOf(f) BY <1>2 DEF CostOf
  <2>2. \A k \in keys : entry[k].cost = CostOf(f)[k] BY <1>2 DEF CostOf
  <2> HIDE DEF entry, costs
  <2> QED BY <1>2, <2>1, <2>2 DEF CostWithin
<1>12. time <=> TimeWithin(f, limit)
  <2>1. \A k \in keys : entry[k].time = TimeOf(f)[k] BY <1>2 DEF TimeOf
  <2>2. ASSUME NEW s \in paths
        PROVE  Total([i \in DOMAIN s |-> entry[s[i]].time]) = WeightOf(TimeOf(f), s)
    <3>1. s \in Seq(keys) BY <1>2, SimpleWalks DEF Walk
    <3>2. \A i \in DOMAIN s : s[i] \in keys BY <3>1
    <3> HIDE DEF entry
    <3>3. [i \in DOMAIN s |-> entry[s[i]].time] = WeightsOf(TimeOf(f), s)
      BY <2>1, <3>2 DEF WeightsOf
    <3> QED BY <3>3 DEF WeightOf
  <2>3. timed <=> Bounded(deps, TimeOf(f))
    <3> HIDE DEF entry, deps
    <3> QED BY <2>1 DEF Bounded
  <2>4. ASSUME NEW T PROVE within(T) <=> Within(deps, TimeOf(f), T)
    <3> HIDE DEF entry
    <3> QED BY <2>2, Zenon DEF Within
  <2> HIDE DEF timed, within
  <2> QED BY <2>3, <2>4, Zenon DEF TimeWithin
<1> HIDE DEF fed, returned, narrow, granted, permitted, calls, cost, time
<1>13. /\ (\A s \in paths : Last(s) \notin ToSet(deps[Head(s)])) <=> Acyclic(f)
       /\ (\A k \in keys : \E s \in paths : Head(s) = k /\ Last(s) \in ToSet(f.outputs))
            <=> Serving(f)
       /\ (Cardinality(keys) <= Limits.nodes) <=> Small(f)
       /\ (\A s \in paths : Len(s) <= Limits.depth) <=> Shallow(f)
  BY <1>2 DEF Acyclic, Serving, Small, Shallow
<1> HIDE DEF deps, keys, paths
<1> QED BY <1>1, <1>5, <1>6, <1>7, <1>8, <1>9, <1>10, <1>11, <1>12, <1>13

\* The order of a graph is complete exactly when the graph has no cycle.
LEMMA OrderedAcyclic ==
  ASSUME NEW f, WellFormed(f)
  PROVE  Len(TopologicalDepths(DepsOf(f)).order) = Cardinality(Keys(f)) <=> Acyclic(f)
<1> DEFINE deps == DepsOf(f)
           order == TopologicalDepths(deps).order
<1>1. DOMAIN deps = Keys(f) /\ IsGraph(deps) /\ Closed(deps) BY WellFormedMeans
<1> HIDE DEF deps
<1>2. ASSUME Len(order) = Cardinality(Keys(f)), NEW s \in Paths(deps)
      PROVE  Last(s) \notin ToSet(deps[Head(s)])
  <2>1. Topological(deps, order) BY <1>1, <1>2, OrderTopological
  <2>2. Walk(deps, s) BY <1>1, <1>2, SimpleWalks
  <2> QED BY <1>1, <2>1, <2>2, WalkForward
<1>3. ASSUME \A s \in Paths(deps) : Last(s) \notin ToSet(deps[Head(s)])
      PROVE  Len(order) = Cardinality(Keys(f))
  BY <1>1, <1>3, AcyclicOrdered
<1> QED BY <1>2, <1>3 DEF Acyclic, deps

\* Every node is found from the outputs exactly when each serves one of them.
LEMMA ReachableServing ==
  ASSUME NEW f, WellFormed(f),
         Len(TopologicalDepths(DepsOf(f)).order) = Cardinality(Keys(f))
  PROVE  /\ Reachable(DepsOf(f), f.outputs) = Keys(f) <=> Serving(f)
         /\ Serving(f) => \A k \in Keys(f) :
              \E u : Walk(DepsOf(f), u) /\ Head(u) = k /\ Last(u) \in ToSet(f.outputs)
<1> DEFINE deps == DepsOf(f)
           order == TopologicalDepths(deps).order
           served(k) == \E u : Walk(deps, u) /\ Head(u) = k /\ Last(u) \in ToSet(f.outputs)
           found == Reachable(deps, f.outputs)
<1>1. /\ DOMAIN deps = Keys(f) /\ IsGraph(deps) /\ Closed(deps)
      /\ ToSet(f.outputs) \subseteq Keys(f) /\ Len(order) = Cardinality(Keys(f))
  BY WellFormedMeans
<1> HIDE DEF deps
<1>2. Topological(deps, order) BY <1>1, OrderTopological
<1>3. \A k : k \in found <=> k \in Keys(f) /\ served(k) BY <1>1, ReachableOf
<1>4. \A s : Walk(deps, s) <=> s \in Paths(deps) BY <1>1, <1>2, WalkForward, SimpleWalks
<1>5. Serving(f) <=> \A k \in Keys(f) : served(k) BY <1>4 DEF Serving, deps
<1> HIDE DEF served, found
<1>6. found = Keys(f) <=> \A k \in Keys(f) : served(k)
  <2>1. ASSUME found = Keys(f) PROVE \A k \in Keys(f) : served(k) BY <1>3, <2>1
  <2>2. ASSUME \A k \in Keys(f) : served(k) PROVE found = Keys(f)
    <3>1. \A k : k \in found <=> k \in Keys(f) BY <1>3, <2>2
    <3> QED BY <3>1
  <2> QED BY <2>1, <2>2
<1> QED BY <1>5, <1>6 DEF served, found, deps

\* The dependencies of each node have the schemas of its inputs, in their number,
\* and the outputs those that are expected.
LEMMA TypedFed ==
  ASSUME NEW f, WellFormed(f)
  PROVE  /\ (/\ \A n \in ToSet(f.nodes) : Len(n.deps) = Len(Catalog[n.alias].inputs)
             /\ EdgesTyped(Resolve(f))) <=> Fed(f)
         /\ OutputsTyped(Resolve(f), f.outputs) <=> Returned(f)
<1> DEFINE deps == DepsOf(f)
           nodes == Resolve(f)
           inputs(k) == EntryOf(f, k).inputs
           fits(k) == /\ Len(deps[k]) = Len(inputs(k))
                      /\ \A i \in DOMAIN deps[k] : Schema(f, deps[k][i]) = inputs(k)[i]
<1>1. /\ DOMAIN deps = Keys(f) /\ IsGraph(deps) /\ Closed(deps)
      /\ ToSet(f.outputs) \subseteq Keys(f)
      /\ Keys(f) \in SUBSET (Nat \ {RegionInput})
      /\ \A n \in ToSet(f.nodes) : n.key \in Keys(f) /\ NodeAt(f, n.key) = n
      /\ \A k \in Keys(f) :
           /\ NodeAt(f, k) \in ToSet(f.nodes) /\ deps[k] = NodeAt(f, k).deps
           /\ inputs(k) \in Seq(ToSet(inputs(k)))
  BY WellFormedMeans
<1>2. /\ DOMAIN nodes = Keys(f)
      /\ \A k \in Keys(f) : nodes[k].entry = EntryOf(f, k) /\ nodes[k].deps = deps[k]
  BY DEF Resolve, DepsOf
<1>3. (\A n \in ToSet(f.nodes) : Len(n.deps) = Len(Catalog[n.alias].inputs))
        <=> \A k \in Keys(f) : Len(deps[k]) = Len(inputs(k))
  <2>1. \A k \in Keys(f) : inputs(k) = Catalog[NodeAt(f, k).alias].inputs BY DEF EntryOf
  <2> HIDE DEF deps, inputs
  <2> QED BY <1>1, <2>1
<1> HIDE DEF deps, nodes
<1>4. \A d \in Keys(f) \cup {RegionInput} : SchemaOf(nodes, d) = Schema(f, d)
  BY <1>2 DEF SchemaOf, Schema
<1>5. \A k \in Keys(f) : \A i \in DOMAIN deps[k] : deps[k][i] \in Keys(f) \cup {RegionInput}
  BY <1>1 DEF Closed, Inner, ToSet
<1>6. EdgesTyped(nodes) <=>
        \A k \in Keys(f) : \A i \in DOMAIN deps[k] : Schema(f, deps[k][i]) = inputs(k)[i]
  <2>1. \A k \in Keys(f) : nodes[k].entry.inputs = inputs(k) BY <1>2
  <2> HIDE DEF inputs
  <2> QED BY <1>2, <1>4, <1>5, <2>1 DEF EdgesTyped
<1>7. ASSUME NEW k \in Keys(f)
      PROVE  fits(k) <=> inputs(k) = [i \in DOMAIN deps[k] |-> Schema(f, deps[k][i])]
  <2>1. deps[k] \in Seq(Nat) BY <1>1 DEF IsGraph
  <2>2. DOMAIN deps[k] = 1 .. Len(deps[k]) /\ Len(deps[k]) \in Nat BY <2>1
  <2> DEFINE in == inputs(k)
             given == [i \in DOMAIN deps[k] |-> Schema(f, deps[k][i])]
  <2>3. in \in Seq(ToSet(in)) BY <1>1
  <2> HIDE DEF inputs, in
  <2>4. /\ DOMAIN in = 1 .. Len(in) /\ Len(in) \in Nat /\ in = [i \in 1 .. Len(in) |-> in[i]]
    BY <2>3
  <2>5. ASSUME fits(k) PROVE in = given
    <3>1. DOMAIN in = DOMAIN deps[k] BY <2>2, <2>4, <2>5 DEF in
    <3>2. \A i \in DOMAIN deps[k] : in[i] = Schema(f, deps[k][i]) BY <2>5 DEF in
    <3> QED BY <2>2, <2>4, <3>1, <3>2
  <2>6. ASSUME in = given PROVE fits(k)
    <3>1. DOMAIN in = DOMAIN deps[k] BY <2>6
    <3>2. \A i \in DOMAIN deps[k] : in[i] = Schema(f, deps[k][i]) BY <2>6
    <3> HIDE DEF given
    <3>3. 1 .. Len(in) = 1 .. Len(deps[k]) BY <2>2, <2>4, <3>1
    <3>4. Len(deps[k]) = Len(in) BY <2>2, <2>4, <3>3
    <3> QED BY <3>2, <3>4 DEF in
  <2> QED BY <2>5, <2>6 DEF in
<1>8. OutputsTyped(nodes, f.outputs) <=> Returned(f)
  <2>1. \A i \in DOMAIN f.outputs : f.outputs[i] \in Keys(f) BY <1>1 DEF ToSet
  <2>2. \A i \in DOMAIN f.outputs : nodes[f.outputs[i]].entry.output = Schema(f, f.outputs[i])
    BY <1>1, <1>2, <2>1 DEF Schema
  <2>3. [i \in DOMAIN f.outputs |-> nodes[f.outputs[i]].entry.output] =
          [i \in DOMAIN f.outputs |-> Schema(f, f.outputs[i])]
    BY <2>2
  <2> QED BY <2>3 DEF OutputsTyped, Returned
<1>9. (/\ \A n \in ToSet(f.nodes) : Len(n.deps) = Len(Catalog[n.alias].inputs)
       /\ EdgesTyped(nodes)) <=> \A k \in Keys(f) : fits(k)
  BY <1>3, <1>6
<1> HIDE DEF fits
<1>10. (\A k \in Keys(f) : fits(k)) <=> Fed(f) BY <1>7 DEF Fed, deps
<1> QED BY <1>8, <1>9, <1>10 DEF nodes

\* The metrics of the plan: what its nodes ask for.
LEMMA MetricsBound ==
  ASSUME NEW f, NEW limit, IsBudget(limit), NEW approved, WellFormed(f),
         Len(TopologicalDepths(DepsOf(f)).order) = Cardinality(Keys(f))
  PROVE  LET metrics == Metrics(Signature(f))
         IN  /\ metrics.grant \subseteq RegionGrant <=> Granted(f)
             /\ metrics.approvals \subseteq approved <=> Permitted(f, approved)
             /\ ~Exceeds(metrics.budget.calls, limit.calls) <=> CallsWithin(f, limit)
             /\ metrics.budget.cost # Infinite /\ ~Exceeds(metrics.budget.cost, limit.cost)
                  <=> CostWithin(f, limit)
             /\ Serving(f) =>
                  (metrics.budget.time <= MaxTime /\ ~Exceeds(metrics.budget.time, limit.time)
                     <=> TimeWithin(f, limit))
<1> DEFINE deps == DepsOf(f)
           order == TopologicalDepths(deps).order
           nodes == Resolve(f)
           metrics == Metrics(Signature(f))
           w == TimeOf(f)
<1>1. /\ DOMAIN deps = Keys(f) /\ IsGraph(deps) /\ Closed(deps)
      /\ ToSet(f.outputs) \subseteq Keys(f)
      /\ Keys(f) \in SUBSET Nat /\ IsFiniteSet(Keys(f))
      /\ \A k \in Keys(f) : EntryOf(f, k).calls \in Cost /\ EntryOf(f, k).time \in Cost
  BY WellFormedMeans
<1>2. IsFragment(f) BY DEF WellFormed
<1>3. ResolvedNodes(Signature(f)) = nodes /\ Outputs(Signature(f)) = f.outputs
  BY <1>1, <1>2, PlanReadsBack
<1>4. /\ DOMAIN nodes = Keys(f)
      /\ \A k \in Keys(f) : nodes[k].entry = EntryOf(f, k) /\ nodes[k].deps = deps[k]
  BY DEF Resolve, DepsOf
<1>5. /\ metrics.grant = UNION {nodes[k].entry.grant : k \in DOMAIN nodes}
      /\ metrics.approvals = UNION {{k} \X nodes[k].entry.approvals : k \in DOMAIN nodes}
      /\ metrics.budget = AggregateBudget(nodes, f.outputs)
  <2> HIDE DEF nodes
  <2> QED BY <1>3 DEF Metrics
<1>6. deps = [k \in DOMAIN nodes |-> nodes[k].deps] BY DEF Resolve, DepsOf
<1>7. w = [k \in DOMAIN nodes |-> nodes[k].entry.time] BY <1>4 DEF TimeOf
<1>8. w \in [DOMAIN deps -> Cost] BY <1>1 DEF TimeOf
<1>9. Topological(deps, order)
  <2> HIDE DEF deps
  <2>1. Len(order) = Cardinality(DOMAIN deps) BY <1>1 DEF deps
  <2> QED BY <1>1, <2>1, OrderTopological
<1>10. limit.calls \in Cost /\ limit.cost \in Cost /\ limit.time \in Cost /\ MaxTime \in Nat
  BY PlanValidatorAssumption DEF IsBudget, Cost, Range
<1>11. Serving(f) => \A k \in DOMAIN deps :
         \E u : Walk(deps, u) /\ Head(u) = k /\ Last(u) \in ToSet(f.outputs)
  BY <1>1, ReachableServing
<1> HIDE DEF deps, nodes, metrics, w
<1>12. metrics.grant \subseteq RegionGrant <=> Granted(f) BY <1>4, <1>5 DEF Granted
<1>13. metrics.approvals \subseteq approved <=> Permitted(f, approved)
  <2>1. metrics.approvals = UNION {{k} \X EntryOf(f, k).approvals : k \in Keys(f)}
    BY <1>4, <1>5
  <2> DEFINE asks(k) == {k} \X EntryOf(f, k).approvals
  <2>2. metrics.approvals = UNION {asks(k) : k \in Keys(f)} BY <2>1
  <2>3. Permitted(f, approved) <=> \A k \in Keys(f) : asks(k) \subseteq approved BY DEF Permitted
  <2> HIDE DEF asks
  <2> QED BY <2>2, <2>3
<1>14. ~Exceeds(metrics.budget.calls, limit.calls) <=> CallsWithin(f, limit)
  <2> DEFINE calls == [k \in DOMAIN nodes |-> nodes[k].entry.calls]
             over == Exceeds(AggregateBudget(nodes, f.outputs).calls, limit.calls)
             within == limit.calls # Unbounded => /\ \A k \in Keys(f) : calls[k] # Unbounded
                                                  /\ Sum(calls, Keys(f)) <= limit.calls
  <2>1. /\ calls = [k \in DOMAIN nodes |-> nodes[k].entry.calls]
        /\ calls = [k \in Keys(f) |-> EntryOf(f, k).calls]
    BY <1>4
  <2>2. calls \in [Keys(f) -> Cost] BY <1>1, <2>1
  <2>3. \A k \in Keys(f) : calls[k] = EntryOf(f, k).calls BY <2>1
  <2> HIDE DEF calls
  <2>4. over <=> ~within BY <1>1, <1>4, <1>10, <2>1, <2>2, CallsBound, Zenon
  <2>5. within <=> CallsWithin(f, limit) BY <2>1, <2>3 DEF CallsWithin
  <2>6. over <=> Exceeds(metrics.budget.calls, limit.calls) BY <1>5
  <2> HIDE DEF within, over
  <2> QED BY <2>4, <2>5, <2>6
<1>15. metrics.budget.cost # Infinite /\ ~Exceeds(metrics.budget.cost, limit.cost)
         <=> CostWithin(f, limit)
  <2> DEFINE cost == [k \in DOMAIN nodes |-> nodes[k].entry.cost]
  <2>1. cost = CostOf(f) BY <1>4 DEF CostOf
  <2>2. cost = [k \in DOMAIN nodes |-> nodes[k].entry.cost] OBVIOUS
  <2> HIDE DEF cost
  <2> QED BY <1>4, <1>5, <1>10, <2>1, <2>2, CostBound DEF CostWithin
<1>16. ASSUME Serving(f)
       PROVE  metrics.budget.time <= MaxTime /\ ~Exceeds(metrics.budget.time, limit.time)
                <=> TimeWithin(f, limit)
  <2> DEFINE time == AggregateBudget(nodes, f.outputs).time
             bounded == Bounded(deps, w)
  <2>1. /\ time \in Cost /\ (time # Unbounded <=> bounded)
        /\ bounded => \A T \in Nat : time <= T <=> Within(deps, w, T)
    <3>1. ToSet(f.outputs) \subseteq DOMAIN nodes BY <1>1, <1>4
    <3>2. IsGraph(deps) /\ Closed(deps) BY <1>1
    <3>3. \A k \in DOMAIN deps :
            \E u : Walk(deps, u) /\ Head(u) = k /\ Last(u) \in ToSet(f.outputs)
      BY <1>11, <1>16
    <3> QED BY <1>6, <1>7, <1>8, <1>9, <3>1, <3>2, <3>3, TimeBound
  <2>2. metrics.budget.time = time BY <1>5
  <2> HIDE DEF time, bounded
  <2>3. time <= MaxTime <=> (bounded => Within(deps, w, MaxTime))
    <3>1. CASE bounded BY <1>10, <2>1, <3>1
    <3>2. CASE ~bounded
      <4>1. time = -1 BY <2>1, <3>2 DEF Unbounded
      <4> QED BY <1>10, <3>2, <4>1
    <3> QED BY <3>1, <3>2
  <2>4. ~Exceeds(time, limit.time) <=>
          (limit.time # Unbounded => bounded /\ Within(deps, w, limit.time))
    <3>1. CASE limit.time = Unbounded BY <3>1 DEF Exceeds
    <3>2. CASE limit.time # Unbounded /\ ~bounded BY <2>1, <3>2 DEF Exceeds
    <3>3. CASE limit.time # Unbounded /\ bounded
      <4>1. limit.time \in Nat /\ time \in Nat /\ time # Unbounded BY <1>10, <2>1, <3>3 DEF Cost
      <4>2. ~(time > limit.time) <=> time <= limit.time BY <4>1
      <4> QED BY <2>1, <3>3, <4>1, <4>2 DEF Exceeds
    <3> QED BY <3>1, <3>2, <3>3
  <2>5. TimeWithin(f, limit) <=>
          /\ bounded => Within(deps, w, MaxTime)
          /\ limit.time # Unbounded => bounded /\ Within(deps, w, limit.time)
    BY DEF TimeWithin, bounded, deps, w
  <2> QED BY <2>2, <2>3, <2>4, <2>5, Zenon
<1> QED BY <1>12, <1>13, <1>14, <1>15, <1>16 DEF metrics

\* validate lets a fragment pass exactly when it is admissible, whatever the planner
\* returned, whatever the budget of the region's limits is, or whether it sets any, and with
\* any approval check or none.
THEOREM ValidatorDecides ==
  ASSUME NEW f, NEW limit, IsBudget(limit), NEW check
  PROVE  Validate(f, limit, check) = "valid" <=> Admissible(f, limit, UNION check)
<1> DEFINE approved == UNION check
           deps == DepsOf(f)
           sorted == TopologicalDepths(deps)
           ordered == Len(sorted.order) = Cardinality(Keys(f))
           deep == Max(Range(sorted.depths)) > Limits.depth
           wide == MaxFanout(deps) > Limits.fanout
           arity == \A n \in ToSet(f.nodes) : Len(n.deps) = Len(Catalog[n.alias].inputs)
           metrics == Metrics(Signature(f))
           found == Reachable(deps, f.outputs) = Keys(f)
           long == Len(f.nodes) > Limits.nodes
<1>1. Validate(f, limit, check) = "valid" <=> WellFormed(f) /\ Judged(f, limit, approved) BY ValidJudged
<1>2. Admissible(f, limit, approved) => WellFormed(f) BY DEF Admissible
<1>3. ASSUME WellFormed(f) PROVE Judged(f, limit, approved) <=> Admissible(f, limit, approved)
  <2>1. /\ DOMAIN deps = Keys(f) /\ IsGraph(deps) /\ Closed(deps) /\ Keys(f) # {}
        /\ Cardinality(Keys(f)) = Len(f.nodes) /\ Len(f.nodes) \in Nat
    BY <1>3, WellFormedMeans
  <2>2. Limits.nodes \in Nat /\ Limits.depth \in Nat /\ Limits.fanout \in Nat
    BY PlanValidatorAssumption
  <2>3. Judged(f, limit, approved) <=>
          /\ ~long /\ found /\ arity /\ ordered /\ ~deep /\ ~wide
          /\ EdgesTyped(Resolve(f)) /\ OutputsTyped(Resolve(f), f.outputs)
          /\ metrics.grant \subseteq RegionGrant
          /\ ~Exceeds(metrics.budget.calls, limit.calls)
          /\ metrics.budget.cost # Infinite /\ ~Exceeds(metrics.budget.cost, limit.cost)
          /\ metrics.budget.time <= MaxTime /\ ~Exceeds(metrics.budget.time, limit.time)
          /\ metrics.approvals \subseteq approved
    BY DEF Judged, InRange
  <2>4. ordered <=> Acyclic(f) BY <1>3, OrderedAcyclic
  <2>5. ordered => (found <=> Serving(f)) BY <1>3, ReachableServing
  <2>6. ~long <=> Small(f) BY <2>1, <2>2 DEF Small
  <2>7. /\ arity /\ EdgesTyped(Resolve(f)) <=> Fed(f)
        /\ OutputsTyped(Resolve(f), f.outputs) <=> Returned(f)
    BY <1>3, TypedFed
  <2>8. ordered => (~deep <=> Shallow(f))
    <3> SUFFICES ASSUME ordered PROVE ~deep <=> Shallow(f) OBVIOUS
    <3>1. ordered OBVIOUS
    <3>2. Shallow(f) <=> \A s \in Paths(deps) : Len(s) <= Limits.depth BY DEF Shallow
    <3> HIDE DEF deps
    <3>3. deep <=> ~ \A s \in Paths(deps) : Len(s) <= Limits.depth
      BY <2>1, <2>2, <3>1, DepthBound
    <3> HIDE DEF deep
    <3> QED BY <3>2, <3>3
  <2>9. ~wide <=> Narrow(f)
    <3>1. Narrow(f) <=> \A d \in DOMAIN deps \cup {RegionInput} :
                          Cardinality({k \in DOMAIN deps : d \in ToSet(deps[k])}) <= Limits.fanout
      BY <2>1 DEF Narrow
    <3> HIDE DEF deps
    <3>2. wide <=> ~ \A d \in DOMAIN deps \cup {RegionInput} :
                       Cardinality({k \in DOMAIN deps : d \in ToSet(deps[k])}) <= Limits.fanout
      BY <2>1, <2>2, FanoutBound
    <3> HIDE DEF wide
    <3> QED BY <3>1, <3>2
  <2>10. ordered =>
           /\ metrics.grant \subseteq RegionGrant <=> Granted(f)
           /\ metrics.approvals \subseteq approved <=> Permitted(f, approved)
           /\ ~Exceeds(metrics.budget.calls, limit.calls) <=> CallsWithin(f, limit)
           /\ metrics.budget.cost # Infinite /\ ~Exceeds(metrics.budget.cost, limit.cost)
                <=> CostWithin(f, limit)
           /\ Serving(f) =>
                (metrics.budget.time <= MaxTime /\ ~Exceeds(metrics.budget.time, limit.time)
                   <=> TimeWithin(f, limit))
    BY <1>3, MetricsBound
  <2>11. Admissible(f, limit, approved) <=>
           /\ Acyclic(f) /\ Serving(f) /\ Fed(f) /\ Returned(f)
           /\ Small(f) /\ Shallow(f) /\ Narrow(f)
           /\ Granted(f) /\ Permitted(f, approved)
           /\ CallsWithin(f, limit) /\ CostWithin(f, limit) /\ TimeWithin(f, limit)
    BY <1>3, AdmissibleParts
  <2> HIDE DEF approved, long, found, arity, ordered, deep, wide, metrics
  <2> QED BY <2>3, <2>4, <2>5, <2>6, <2>7, <2>8, <2>9, <2>10, <2>11
<1> QED BY <1>1, <1>2, <1>3

\* Whatever the planner returns, the validation decides as the reference does.
THEOREM GeneratedAdmittedAsSpecified == Spec => []AdmittedAsSpecified
<1>1. IsBudget(Limits.budget) /\ IsBudget(NoLimit)
  BY PlanValidatorAssumption DEF IsBudget, NoLimit
<1>2. AdmittedAsSpecified BY <1>1, ValidatorDecides, Zenon DEF AdmittedAsSpecified
<1> QED BY <1>2, PTL

=============================================================================
