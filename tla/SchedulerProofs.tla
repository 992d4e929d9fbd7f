-------------------------- MODULE SchedulerProofs --------------------------
(***************************************************************************)
(* Proofs about the walk of a plan (PlanEval), and about the runs that any *)
(* number of schedulers drive (Scheduler).                                 *)
(*                                                                         *)
(* First, one walk: a node is always walked under the same scope, and what *)
(* a walk asks for and returns agrees with what the plan denotes.  Then,   *)
(* many: what schedulers ask of the store when they load the history of a  *)
(* run stays right while others go on, until the call is made.  (plan and  *)
(* root are variables of Scheduler: here flow is any plan and seed any     *)
(* root input.)                                                            *)
(***************************************************************************)
EXTENDS Scheduler, SetLemmas, TLAPS

-----------------------------------------------------------------------------
(***************************************************************************)
(* Sequences.                                                              *)
(***************************************************************************)

\* What it is to be a sequence.
LEMMA SeqIs ==
  ASSUME NEW S, NEW s \in Seq(S)
  PROVE  Len(s) \in Nat /\ DOMAIN s = 1 .. Len(s) /\ \A i \in DOMAIN s : s[i] \in S
OBVIOUS

\* A sequence without its last member.
LEMMA FrontType ==
  ASSUME NEW S, NEW s \in Seq(S), s # <<>>
  PROVE  /\ Front(s) \in Seq(S) /\ Len(Front(s)) = Len(s) - 1
         /\ \A i \in 1 .. (Len(s) - 1) : Front(s)[i] = s[i]
<1>1. Len(s) \in Nat \ {0} /\ DOMAIN s = 1 .. Len(s) OBVIOUS
<1> QED BY <1>1 DEF Front

\* The members of a sequence stay members when it is flattened.
LEMMA FlattenType ==
  ASSUME NEW S, NEW seqs \in Seq(Seq(S))
  PROVE  FlattenSeq(seqs) \in Seq(S)
<1> DEFINE n == Len(seqs)
           Body(f, i) == IF i = 1 THEN seqs[i] ELSE f[i - 1] \o seqs[i]
<1>1. n \in Nat /\ \A i \in 1 .. n : seqs[i] \in Seq(S) OBVIOUS
<1>2. CASE n = 0
  <2>1. seqs = <<>> BY <1>2
  <2>2. FlattenSeq(seqs) = seqs BY <1>2 DEF FlattenSeq
  <2>3. <<>> \in Seq(S) OBVIOUS
  <2> QED BY <2>1, <2>2, <2>3, Zenon
<1>3. CASE n # 0
  <2> DEFINE Computes(f, m) ==
               f = [i \in 1 .. m |-> Body(f, i)] /\ \A i \in 1 .. m : f[i] \in Seq(S)
             Missing == {m \in 1 .. n : ~ \E f : Computes(f, m)}
  <2>1. ASSUME Missing # {} PROVE FALSE
    <3>1. Missing \in SUBSET Nat
      <4>1. Missing \subseteq 1 .. n OBVIOUS
      <4> HIDE DEF Missing
      <4> QED BY <4>1, <1>1
    <3>2. PICK m \in Missing : \A k \in Missing : m <= k
      <4> HIDE DEF Missing
      <4> QED BY <2>1, <3>1, NatMin
    <3>3. CASE m = 1
      <4> DEFINE g == [i \in 1 .. m |-> seqs[1]]
      <4>1. \A i \in 1 .. m : i = 1 BY <3>3
      <4>2. g = [i \in 1 .. m |-> Body(g, i)] BY <4>1
      <4>3. \A i \in 1 .. m : g[i] \in Seq(S) BY <1>1, <1>3
      <4>4. Computes(g, m) BY <4>2, <4>3
      <4> QED BY <3>2, <4>4
    <3>4. CASE m # 1
      <4>1. m - 1 \in 1 .. n /\ ~(m <= m - 1) /\ m \in 1 .. n /\ m \in Nat BY <3>2, <3>4, <1>1
      <4>2. m - 1 \notin Missing BY <3>2, <4>1
      <4>3. PICK f : Computes(f, m - 1) BY <4>1, <4>2
      <4> DEFINE g == [i \in 1 .. m |-> IF i = m THEN f[m - 1] \o seqs[m] ELSE f[i]]
      <4>4. ASSUME NEW i \in 1 .. m PROVE g[i] = Body(g, i) /\ g[i] \in Seq(S)
        <5>1. CASE i = m
          <6>1. g[m - 1] = f[m - 1] BY <4>1, <3>4
          <6>2. f[m - 1] \in Seq(S) BY <4>1, <4>3, <3>4
          <6>3. seqs[m] \in Seq(S) BY <4>1, <1>1
          <6>4. f[m - 1] \o seqs[m] \in Seq(S) BY <6>2, <6>3
          <6> QED BY <5>1, <6>1, <6>4, <3>4, Zenon
        <5>2. CASE i # m
          <6>1. i \in 1 .. (m - 1) /\ g[i] = f[i] BY <5>2, <4>1
          <6>2. f[i] = Body(f, i) /\ f[i] \in Seq(S) BY <6>1, <4>3
          <6>3. i # 1 => i - 1 \in 1 .. (m - 1) /\ g[i - 1] = f[i - 1] BY <6>1, <4>1
          <6> QED BY <6>1, <6>2, <6>3
        <5> QED BY <5>1, <5>2
      <4>5. g = [i \in 1 .. m |-> Body(g, i)]
        <5>1. g = [i \in 1 .. m |-> g[i]] OBVIOUS
        <5> HIDE DEF g
        <5> QED BY <4>4, <5>1
      <4>6. Computes(g, m) BY <4>4, <4>5
      <4> QED BY <3>2, <4>6
    <3> QED BY <3>3, <3>4
  <2>2. n \in 1 .. n BY <1>1, <1>3
  <2>3. PICK g : Computes(g, n) BY <2>1, <2>2
  <2> DEFINE F == CHOOSE f : f = [i \in 1 .. n |-> Body(f, i)]
  <2>4. F = [i \in 1 .. n |-> Body(F, i)] BY <2>3, Zenon
  <2>5. FlattenSeq(seqs) = F[n] BY <1>3 DEF FlattenSeq
  <2> HIDE DEF F
  <2>6. \A i \in 1 .. n : F[i] = Body(F, i) BY <2>4
  <2> DEFINE Bad == {i \in 1 .. n : F[i] \notin Seq(S)}
  <2>7. ASSUME Bad # {} PROVE FALSE
    <3>1. Bad \in SUBSET Nat BY <1>1
    <3>2. PICK m \in Bad : \A k \in Bad : m <= k
      <4> HIDE DEF Bad
      <4> QED BY <2>7, <3>1, NatMin
    <3>3. m # 1 BY <2>6, <3>2, <1>1
    <3>4. m \in 1 .. n /\ m - 1 \in 1 .. n /\ ~(m <= m - 1) BY <3>2, <3>3, <1>1
    <3>5. F[m - 1] \in Seq(S) BY <3>2, <3>4
    <3>6. F[m] = F[m - 1] \o seqs[m] BY <2>6, <3>3, <3>4
    <3>7. seqs[m] \in Seq(S) BY <3>4, <1>1
    <3>8. F[m] \in Seq(S) BY <3>5, <3>6, <3>7
    <3> QED BY <3>2, <3>8
  <2> QED BY <2>2, <2>5, <2>7
<1> QED BY <1>2, <1>3

-----------------------------------------------------------------------------
(***************************************************************************)
(* Graphs of nodes.                                                        *)
(***************************************************************************)

\* Edges lead to nodes, or to 0, the input.
IsGraph(graph) ==
  /\ 0 \notin DOMAIN graph
  /\ \A k \in DOMAIN graph : graph[k] \subseteq DOMAIN graph \cup {0}

\* A set of nodes that follows its edges has all that its members reach.
LEMMA ReachWithin ==
  ASSUME NEW graph, NEW n, NEW S \in SUBSET DOMAIN graph, n \in S \cup {0},
         \A k \in S : graph[k] \subseteq S \cup {0}
  PROVE  Reachable(graph, n) \subseteq S
BY DEF Reachable

\* A node reaches itself, and the input reaches nothing.
LEMMA ReachSelf ==
  ASSUME NEW graph
  PROVE  /\ \A n \in DOMAIN graph : n # 0 => n \in Reachable(graph, n)
         /\ Reachable(graph, 0) = {}
<1>1. {} \in SUBSET DOMAIN graph OBVIOUS
<1>2. Reachable(graph, 0) \subseteq {} BY <1>1, ReachWithin, ZenonT(60)
<1>3. \A n \in DOMAIN graph : n # 0 => n \in Reachable(graph, n) BY DEF Reachable
<1> QED BY <1>2, <1>3

\* What a node reaches follows its edges.
LEMMA ReachOn ==
  ASSUME NEW graph, IsGraph(graph), NEW n, NEW k \in Reachable(graph, n)
  PROVE  k \in DOMAIN graph /\ graph[k] \subseteq Reachable(graph, n) \cup {0}
<1>1. k \in DOMAIN graph BY DEF Reachable
<1>2. ASSUME NEW m \in graph[k], m # 0 PROVE m \in Reachable(graph, n)
  <2>1. m \in DOMAIN graph BY <1>1, <1>2 DEF IsGraph
  <2> SUFFICES ASSUME NEW S \in SUBSET DOMAIN graph, n \in S \cup {0},
                      \A j \in S : graph[j] \subseteq S \cup {0}
               PROVE  m \in S
    BY <2>1 DEF Reachable
  <2>2. k \in S BY DEF Reachable
  <2> QED BY <1>2, <2>2
<1> QED BY <1>1, <1>2

\* What a dependency reaches, the node reaches.
LEMMA ReachVia ==
  ASSUME NEW graph, IsGraph(graph), NEW c \in DOMAIN graph, NEW d \in graph[c]
  PROVE  Reachable(graph, d) \subseteq Reachable(graph, c)
<1> SUFFICES ASSUME NEW m \in Reachable(graph, d),
                    NEW S \in SUBSET DOMAIN graph, c \in S \cup {0},
                    \A j \in S : graph[j] \subseteq S \cup {0}
             PROVE  m \in S
  BY DEF Reachable
<1>1. c \in S BY DEF IsGraph
<1>2. d \in S \cup {0} BY <1>1
<1> QED BY <1>2 DEF Reachable

\* A node reaches the others through its dependencies.
LEMMA ReachSplit ==
  ASSUME NEW graph, IsGraph(graph), NEW c \in DOMAIN graph,
         NEW m \in Reachable(graph, c), m # c
  PROVE  \E d \in graph[c] : m \in Reachable(graph, d)
<1> DEFINE S == {c} \cup UNION {Reachable(graph, d) : d \in graph[c]}
<1>1. S \in SUBSET DOMAIN graph BY DEF Reachable
<1>2. c \in S \cup {0} OBVIOUS
<1>3. ASSUME NEW k \in S PROVE graph[k] \subseteq S \cup {0}
  <2>1. CASE k = c
    <3>1. \A d \in graph[c] : d = 0 \/ (d \in DOMAIN graph /\ d # 0) BY DEF IsGraph
    <3>2. \A d \in graph[c] : d = 0 \/ d \in Reachable(graph, d) BY <3>1, ReachSelf
    <3> QED BY <2>1, <3>2
  <2>2. CASE k # c
    <3>1. PICK d \in graph[c] : k \in Reachable(graph, d) BY <2>2
    <3>2. graph[k] \subseteq Reachable(graph, d) \cup {0} BY <3>1, ReachOn
    <3> QED BY <3>1, <3>2
  <2> QED BY <2>1, <2>2
<1>4. m \in S
  <2> HIDE DEF S
  <2> QED BY <1>1, <1>2, <1>3, ReachWithin
<1> QED BY <1>4

\* More edges reach more.
LEMMA ReachGrows ==
  ASSUME NEW graph, NEW other, DOMAIN other = DOMAIN graph, NEW n,
         \A k \in DOMAIN graph : graph[k] \subseteq other[k]
  PROVE  Reachable(graph, n) \subseteq Reachable(other, n)
<1> SUFFICES ASSUME NEW m \in Reachable(graph, n),
                    NEW S \in SUBSET DOMAIN graph, n \in S \cup {0},
                    \A j \in S : other[j] \subseteq S \cup {0}
             PROVE  m \in S
  BY DEF Reachable
<1>1. \A j \in S : graph[j] \subseteq S \cup {0} OBVIOUS
<1> QED BY <1>1 DEF Reachable

-----------------------------------------------------------------------------
(***************************************************************************)
(* The shape of a walk.  kids[n] are the nodes that n looks at, in their   *)
(* order; st is the stack of a walk and D the nodes in its cache.          *)
(***************************************************************************)

StepKinds == Executable \cup {"when", "parallel"}

Scopes == Seq({"parallel", "branch"} \X Nat)

Frames(flow) == [node : Nodes(flow), scope : Scopes, next : Nat \ {0}]

\* A step looks at its dependencies and nothing else, and at one after all those
\* that stand before it.
KidsFit(flow, n, s) ==
  LET deps == flow.steps[n].deps IN
  /\ s \in Seq(ToSet(deps))
  /\ ToSet(deps) \subseteq ToSet(s)
  /\ \A i \in DOMAIN s : Before(deps, s[i]) \subseteq {s[j] : j \in 1 .. (i - 1)}
  /\ flow.steps[n].kind \notin Executable => s = deps

KidsOK(flow, kids) == \A n \in Nodes(flow) : KidsFit(flow, n, kids[n])

\* The walk is done with the j-th kid of n: it is cached, or a branch that it passed by.
Passed(flow, kids, D, n, j) ==
  kids[n][j] \in D \cup {0} \/ (flow.steps[n].kind = "when" /\ j >= 2)

Shape(flow, kids, st, D) ==
  /\ st \in Seq(Frames(flow)) /\ D \subseteq Nodes(flow)
  /\ st # <<>> => st[1].node = flow.output /\ st[1].scope = <<>>
  /\ \A k \in 1 .. Len(st) : st[k].node \notin D
  /\ \A k \in 1 .. (Len(st) - 1) :
       LET i == st[k].next - 1 IN
       /\ i \in DOMAIN kids[st[k].node]
       /\ st[k + 1].node = kids[st[k].node][i]
       /\ st[k + 1].scope = Inner(flow, st[k].node, i, st[k].scope)
  /\ \A k \in 1 .. Len(st) : \A j \in 1 .. (st[k].next - 1) :
       k = Len(st) \/ j < st[k].next - 1 => Passed(flow, kids, D, st[k].node, j)
  /\ \A c \in D : \A j \in DOMAIN kids[c] : Passed(flow, kids, D, c, j)

\* The nodes of an admitted plan.
LEMMA PlanType ==
  ASSUME NEW flow, IsPlan(flow)
  PROVE  /\ Len(flow.steps) \in Nat /\ Nodes(flow) = 1 .. Len(flow.steps)
         /\ flow.output \in Nodes(flow) \cup {0}
         /\ \A n \in Nodes(flow) :
              LET deps == flow.steps[n].deps IN
              /\ flow.steps[n].kind \in StepKinds
              /\ deps \in Seq(0 .. (n - 1)) /\ Len(deps) \in Nat /\ DOMAIN deps = 1 .. Len(deps)
              /\ \A i \in DOMAIN deps : deps[i] \in Nodes(flow) \cup {0} /\ deps[i] < n
              /\ flow.steps[n].kind = "when" => Len(deps) = 3
         /\ IsGraph(Dependencies(flow)) /\ DOMAIN Dependencies(flow) = Nodes(flow)
<1> DEFINE N == Len(flow.steps)
<1>1. flow.steps \in Seq(ToSet(flow.steps)) BY DEF IsPlan
<1>2. N \in Nat /\ Nodes(flow) = 1 .. N BY <1>1 DEF Nodes
<1>3. flow.output \in Nodes(flow) \cup {0} BY <1>2 DEF IsPlan
<1>4. ASSUME NEW n \in Nodes(flow)
      PROVE  LET deps == flow.steps[n].deps IN
             /\ flow.steps[n].kind \in StepKinds
             /\ deps \in Seq(0 .. (n - 1)) /\ Len(deps) \in Nat /\ DOMAIN deps = 1 .. Len(deps)
             /\ \A i \in DOMAIN deps : deps[i] \in Nodes(flow) \cup {0} /\ deps[i] < n
             /\ flow.steps[n].kind = "when" => Len(deps) = 3
  <2> DEFINE deps == flow.steps[n].deps
  <2>1. /\ flow.steps[n].kind \in StepKinds /\ deps \in Seq(0 .. (n - 1))
        /\ flow.steps[n].kind = "when" => Len(deps) = 3
    BY <1>2 DEF IsPlan, StepKinds
  <2> HIDE DEF deps
  <2>2. Len(deps) \in Nat /\ DOMAIN deps = 1 .. Len(deps) /\ \A i \in DOMAIN deps : deps[i] \in 0 .. (n - 1)
    BY <2>1, SeqIs
  <2>3. \A d \in 0 .. (n - 1) : d \in Nodes(flow) \cup {0} /\ d < n BY <1>2
  <2> QED BY <2>1, <2>2, <2>3 DEF deps
<1>5. DOMAIN Dependencies(flow) = Nodes(flow) BY DEF Dependencies
<1>6. 0 \notin Nodes(flow) BY <1>2
<1>7. \A n \in Nodes(flow) : ToSet(flow.steps[n].deps) \subseteq Nodes(flow) \cup {0} BY <1>4 DEF ToSet
<1>8. IsGraph(Dependencies(flow)) BY <1>5, <1>6, <1>7 DEF IsGraph, Dependencies
<1> QED BY <1>2, <1>3, <1>4, <1>5, <1>8

\* A step depends on what it looks at, and it is an earlier node.
LEMMA KidType ==
  ASSUME NEW flow, IsPlan(flow), NEW kids, KidsOK(flow, kids), NEW n \in Nodes(flow)
  PROVE  /\ Len(kids[n]) \in Nat /\ DOMAIN kids[n] = 1 .. Len(kids[n])
         /\ \A i \in DOMAIN kids[n] :
              /\ kids[n][i] \in ToSet(flow.steps[n].deps)
              /\ kids[n][i] \in Nodes(flow) \cup {0} /\ kids[n][i] < n
<1>1. kids[n] \in Seq(ToSet(flow.steps[n].deps)) BY DEF KidsOK, KidsFit
<1>2. /\ Len(kids[n]) \in Nat /\ DOMAIN kids[n] = 1 .. Len(kids[n])
      /\ \A i \in DOMAIN kids[n] : kids[n][i] \in ToSet(flow.steps[n].deps)
  BY <1>1
<1>3. \A d \in ToSet(flow.steps[n].deps) : d \in Nodes(flow) \cup {0} /\ d < n BY PlanType DEF ToSet
<1> QED BY <1>2, <1>3

\* A step that is no task looks at its dependencies in their order.
LEMMA KidsInOrder ==
  ASSUME NEW flow, NEW kids, KidsOK(flow, kids), NEW n \in Nodes(flow),
         flow.steps[n].kind \notin Executable
  PROVE  kids[n] = flow.steps[n].deps
BY DEF KidsOK, KidsFit

\* A when looks at its condition and its two branches.
LEMMA WhenKids ==
  ASSUME NEW flow, IsPlan(flow), NEW kids, KidsOK(flow, kids), NEW n \in Nodes(flow),
         flow.steps[n].kind = "when"
  PROVE  kids[n] = flow.steps[n].deps /\ DOMAIN kids[n] = 1 .. 3
<1>1. flow.steps[n].kind \notin Executable BY DEF Executable
<1>2. kids[n] = flow.steps[n].deps BY <1>1 DEF KidsOK, KidsFit
<1>3. DOMAIN flow.steps[n].deps = 1 .. Len(flow.steps[n].deps) /\ Len(flow.steps[n].deps) = 3 BY PlanType
<1> QED BY <1>2, <1>3

\* Every node on the stack depends on the one below it.
LEMMA StackEdges ==
  ASSUME NEW flow, IsPlan(flow), NEW kids, KidsOK(flow, kids), NEW st, NEW D, Shape(flow, kids, st, D)
  PROVE  /\ Len(st) \in Nat /\ \A k \in 1 .. Len(st) : st[k] \in Frames(flow) /\ st[k].node \in Nodes(flow)
         /\ \A k \in 1 .. (Len(st) - 1) :
              /\ st[k + 1].node \in ToSet(flow.steps[st[k].node].deps)
              /\ st[k + 1].node < st[k].node
         /\ \A k, m \in 1 .. Len(st) : k < m => st[m].node < st[k].node
<1>1. /\ Len(st) \in Nat
      /\ \A k \in 1 .. Len(st) : st[k] \in Frames(flow) /\ st[k].node \in Nodes(flow)
  <2>1. st \in Seq(Frames(flow)) BY DEF Shape
  <2>2. Len(st) \in Nat /\ \A k \in 1 .. Len(st) : st[k] \in Frames(flow) BY <2>1, SeqIs
  <2>3. \A f \in Frames(flow) : f.node \in Nodes(flow) BY DEF Frames
  <2> QED BY <2>2, <2>3
<1>2. ASSUME NEW k \in 1 .. (Len(st) - 1)
      PROVE  /\ st[k + 1].node \in ToSet(flow.steps[st[k].node].deps)
             /\ st[k + 1].node < st[k].node
  <2>1. k \in 1 .. Len(st) /\ k + 1 \in 1 .. Len(st) BY <1>1
  <2>2. PICK i \in DOMAIN kids[st[k].node] : st[k + 1].node = kids[st[k].node][i] BY DEF Shape
  <2> QED BY <1>1, <2>1, <2>2, KidType
<1> DEFINE T == {m \in 0 .. Len(st) : \A k \in 1 .. (m - 1) : st[m].node < st[k].node}
<1>3. ASSUME NEW m \in 0 .. Len(st), (0 .. (m - 1)) \subseteq T PROVE m \in T
  <2> SUFFICES ASSUME NEW k \in 1 .. (m - 1) PROVE st[m].node < st[k].node OBVIOUS
  <2>1. m - 1 \in 1 .. (Len(st) - 1) /\ (m - 1) + 1 = m /\ m - 1 \in 0 .. (m - 1) BY <1>1
  <2>2. st[m].node < st[m - 1].node BY <1>2, <2>1
  <2>3. CASE k = m - 1 BY <2>2, <2>3
  <2>4. CASE k # m - 1
    <3>1. k \in 1 .. ((m - 1) - 1) BY <2>4
    <3>2. st[m - 1].node < st[k].node BY <1>3, <2>1, <3>1
    <3>3. {st[m].node, st[m - 1].node, st[k].node} \subseteq Nat
      <4>1. {m, m - 1, k} \subseteq 1 .. Len(st) BY <1>1, <2>1
      <4>2. Nodes(flow) \subseteq Nat BY PlanType
      <4> QED BY <1>1, <4>1, <4>2
    <3> QED BY <2>2, <3>2, <3>3
  <2> QED BY <2>3, <2>4
<1>4. 0 .. Len(st) \subseteq T
  <2> HIDE DEF T
  <2> QED BY <1>1, <1>3, UpTo
<1>5. ASSUME NEW k \in 1 .. Len(st), NEW m \in 1 .. Len(st), k < m PROVE st[m].node < st[k].node
  <2>1. m \in 0 .. Len(st) /\ k \in 1 .. (m - 1) BY <1>1, <1>5
  <2>2. m \in T BY <1>4, <2>1
  <2> QED BY <2>1, <2>2
<1> QED BY <1>1, <1>2, <1>5

\* A node on the stack is reached by those below it.
LEMMA StackReaches ==
  ASSUME NEW flow, IsPlan(flow), NEW kids, KidsOK(flow, kids), NEW st, NEW D, Shape(flow, kids, st, D),
         NEW m \in 1 .. Len(st), NEW k \in 1 .. m
  PROVE  st[m].node \in Reach(flow, st[k].node)
<1> DEFINE G == Dependencies(flow)
           T == {i \in 0 .. (m - 1) : st[m].node \in Reachable(G, st[m - i].node)}
<1>1. Len(st) \in Nat /\ m - 1 \in Nat /\ m \in 1 .. Len(st) BY StackEdges
<1>2. IsGraph(G) /\ DOMAIN G = Nodes(flow) BY PlanType
<1>3. ASSUME NEW i \in 0 .. (m - 1), (0 .. (i - 1)) \subseteq T PROVE i \in T
  <2>1. CASE i = 0
    <3>1. m - i = m BY <2>1
    <3>2. st[m].node \in DOMAIN G /\ st[m].node # 0 BY <1>1, <1>2, StackEdges DEF IsGraph
    <3>3. st[m].node \in Reachable(G, st[m].node) BY <3>2, ReachSelf
    <3> QED BY <3>1, <3>3
  <2>2. CASE i # 0
    <3>1. i - 1 \in 0 .. (i - 1) /\ m - i \in 1 .. (Len(st) - 1) /\ m - i \in 1 .. Len(st)
          /\ m - (i - 1) = (m - i) + 1
      BY <2>2, <1>1
    <3>2. st[m].node \in Reachable(G, st[(m - i) + 1].node) BY <1>3, <3>1
    <3>3. st[(m - i) + 1].node \in G[st[m - i].node] /\ st[m - i].node \in DOMAIN G
      BY <3>1, <1>2, StackEdges DEF Dependencies
    <3>4. st[m].node \in Reachable(G, st[m - i].node) BY <3>2, <3>3, <1>2, ReachVia
    <3> QED BY <3>4
  <2> QED BY <2>1, <2>2
<1>4. 0 .. (m - 1) \subseteq T
  <2> HIDE DEF T
  <2> QED BY <1>1, <1>3, UpTo
<1>5. m - k \in 0 .. (m - 1) /\ m - (m - k) = k BY <1>1
<1>6. m - k \in T BY <1>4, <1>5
<1> QED BY <1>5, <1>6 DEF Reach

\* The plan without a branch has the other edges.
LEMMA WithoutType ==
  ASSUME NEW flow, IsPlan(flow), NEW w \in Nodes(flow), NEW i \in DOMAIN flow.steps[w].deps
  PROVE  LET G == Dependencies(Without(flow, w, i)) IN
         /\ IsGraph(G) /\ DOMAIN G = Nodes(flow) /\ Without(flow, w, i).output = flow.output
         /\ \A n \in Nodes(flow) \ {w} : G[n] = ToSet(flow.steps[n].deps)
         /\ \A j \in DOMAIN flow.steps[w].deps : j # i => flow.steps[w].deps[j] \in G[w]
<1> DEFINE P == Without(flow, w, i)
           G == Dependencies(P)
<1>1. /\ P.output = flow.output /\ Nodes(P) = Nodes(flow)
      /\ \A n \in Nodes(flow) \ {w} : P.steps[n].deps = flow.steps[n].deps
      /\ DOMAIN P.steps[w].deps = DOMAIN flow.steps[w].deps
      /\ \A j \in DOMAIN flow.steps[w].deps :
           P.steps[w].deps[j] = IF j = i THEN 0 ELSE flow.steps[w].deps[j]
  BY DEF Without, Nodes
<1> HIDE DEF P
<1>2. DOMAIN G = Nodes(flow) BY <1>1 DEF Dependencies
<1>3. \A n \in Nodes(flow) \ {w} : G[n] = ToSet(flow.steps[n].deps) BY <1>1 DEF Dependencies
<1>4. G[w] = {P.steps[w].deps[j] : j \in DOMAIN flow.steps[w].deps} BY <1>1 DEF Dependencies, ToSet
<1>5. \A j \in DOMAIN flow.steps[w].deps : j # i => flow.steps[w].deps[j] \in G[w] BY <1>1, <1>4
<1>6. \A n \in Nodes(flow) : ToSet(flow.steps[n].deps) \subseteq Nodes(flow) \cup {0}
  BY PlanType, SMTT(30) DEF ToSet
<1>7. G[w] \subseteq Nodes(flow) \cup {0}
  <2>1. \A j \in DOMAIN flow.steps[w].deps : flow.steps[w].deps[j] \in Nodes(flow) \cup {0} BY PlanType
  <2> QED BY <1>1, <1>4, <2>1
<1>8. 0 \notin Nodes(flow) BY PlanType DEF IsGraph
<1>9. IsGraph(G) BY <1>2, <1>3, <1>6, <1>7, <1>8 DEF IsGraph
<1> QED BY <1>1, <1>2, <1>3, <1>5, <1>9 DEF P
\* A walk that has not taken the i-th dependency of w stays within the plan
\* without it.
LEMMA StackAvoids ==
  ASSUME NEW flow, IsPlan(flow), NEW kids, KidsOK(flow, kids), NEW st, NEW D, Shape(flow, kids, st, D),
         NEW w \in Nodes(flow), flow.steps[w].kind = "when", NEW i \in DOMAIN flow.steps[w].deps,
         NEW m \in 1 .. Len(st), \A k \in 1 .. (m - 1) : st[k].node = w => st[k].next - 1 # i
  PROVE  st[m].node \in Reach(Without(flow, w, i), flow.output)
<1> DEFINE G == Dependencies(Without(flow, w, i))
           T == {k \in 0 .. (m - 1) : st[k + 1].node \in Reachable(G, flow.output)}
<1>1. Len(st) \in Nat /\ m - 1 \in Nat BY StackEdges
<1>2. IsGraph(G) /\ DOMAIN G = Nodes(flow) BY WithoutType
<1>3. ASSUME NEW k \in 0 .. (m - 1), (0 .. (k - 1)) \subseteq T PROVE k \in T
  <2>1. CASE k = 0
    <3>1. k + 1 = 1 /\ 1 \in 1 .. Len(st) /\ st # <<>> BY <1>1, <2>1
    <3>2. st[1].node = flow.output /\ st[1].node \in Nodes(flow) BY <3>1, StackEdges DEF Shape
    <3>3. flow.output \in DOMAIN G /\ flow.output # 0 BY <1>2, <3>2 DEF IsGraph
    <3>4. flow.output \in Reachable(G, flow.output) BY <3>3, ReachSelf
    <3> QED BY <3>1, <3>2, <3>4
  <2>2. CASE k # 0
    <3>1. k - 1 \in 0 .. (k - 1) /\ (k - 1) + 1 = k /\ k \in 1 .. (Len(st) - 1) /\ k \in 1 .. (m - 1)
          /\ k \in 1 .. Len(st) /\ k + 1 \in 1 .. Len(st)
      BY <2>2, <1>1
    <3> DEFINE c == st[k].node
               d == st[k + 1].node
    <3>2. c \in Reachable(G, flow.output) BY <1>3, <3>1
    <3>3. c \in Nodes(flow) /\ d \in ToSet(flow.steps[c].deps) /\ d \in Nodes(flow) /\ d # 0
      BY <3>1, <1>2, StackEdges DEF IsGraph
    <3>4. d \in G[c]
      <4>1. CASE c # w BY <3>3, <4>1, WithoutType
      <4>2. CASE c = w
        <5> DEFINE j == st[k].next - 1
        <5>1. j \in DOMAIN kids[c] /\ d = kids[c][j] BY <3>1 DEF Shape
        <5>2. kids[c] = flow.steps[c].deps BY <3>3, <4>2 DEF KidsOK, KidsFit, Executable
        <5>3. j # i BY <3>1, <4>2
        <5> QED BY <5>1, <5>2, <5>3, <4>2, WithoutType
      <4> QED BY <4>1, <4>2
    <3>5. G[c] \subseteq Reachable(G, flow.output) \cup {0} BY <1>2, <3>2, ReachOn
    <3> QED BY <3>3, <3>4, <3>5
  <2> QED BY <2>1, <2>2
<1>4. 0 .. (m - 1) \subseteq T
  <2> HIDE DEF T
  <2> QED BY <1>1, <1>3, UpTo
<1>5. m - 1 \in T /\ (m - 1) + 1 = m BY <1>1, <1>4
<1> QED BY <1>5 DEF Reach

\* Nothing on the stack is reached by what is cached: the cache is closed, but for
\* the branches of a when that were passed by, and those have nothing of the walk
\* that their condition has not.
LEMMA CachedClosed ==
  ASSUME NEW flow, IsPlan(flow), BranchesClosed(flow), NEW kids, KidsOK(flow, kids),
         NEW st, NEW D, Shape(flow, kids, st, D), NEW m \in 1 .. Len(st), NEW c \in D \cup {0}
  PROVE  st[m].node \notin Reach(flow, c)
<1> DEFINE x == st[m].node
           G == Dependencies(flow)
           N == Len(flow.steps)
           T == {e \in 0 .. N : e \in D \cup {0} => x \notin Reachable(G, e)}
<1>1. N \in Nat /\ Nodes(flow) = 1 .. N /\ IsGraph(G) /\ DOMAIN G = Nodes(flow) BY PlanType
<1>2. D \subseteq Nodes(flow) /\ x \notin D BY DEF Shape
<1>3. ASSUME NEW e \in 0 .. N, (0 .. (e - 1)) \subseteq T PROVE e \in T
  <2> SUFFICES ASSUME e \in D \cup {0}, x \in Reachable(G, e) PROVE FALSE OBVIOUS
  <2>1. e # 0 BY ReachSelf
  <2>2. e \in D /\ e \in Nodes(flow) /\ x # e BY <1>2, <2>1
  <2>3. PICK d \in G[e] : x \in Reachable(G, d) BY <1>1, <2>2, ReachSplit
  <2>4. d \in ToSet(kids[e]) BY <2>2, <2>3 DEF Dependencies, KidsOK, KidsFit
  <2>5. PICK j \in DOMAIN kids[e] : d = kids[e][j] BY <2>4 DEF ToSet
  <2>6. \A i \in DOMAIN kids[e] : kids[e][i] \in 0 .. (e - 1) /\ kids[e][i] \in 0 .. N
    BY <1>1, <2>2, KidType, SMTT(30)
  <2>7. \A i \in DOMAIN kids[e] : kids[e][i] \in D \cup {0} => x \notin Reachable(G, kids[e][i])
    BY <1>3, <2>6
  <2>8. \A i \in DOMAIN kids[e] : Passed(flow, kids, D, e, i) BY <2>2 DEF Shape
  <2>9. flow.steps[e].kind = "when" /\ j >= 2 BY <2>3, <2>5, <2>7, <2>8 DEF Passed
  <2>10. kids[e] = flow.steps[e].deps /\ DOMAIN kids[e] = 1 .. 3
    BY <2>2, <2>9, WhenKids
  <2>11. x \in Reach(Without(flow, e, j), flow.output)
    <3>1. \A k \in 1 .. (m - 1) : st[k].node # e
      <4>1. \A k \in 1 .. Len(st) : st[k].node \notin D BY DEF Shape
      <4>2. \A k \in 1 .. (m - 1) : k \in 1 .. Len(st) BY StackEdges
      <4> QED BY <2>2, <4>1, <4>2
    <3>2. j \in DOMAIN flow.steps[e].deps BY <2>5, <2>10
    <3> QED BY <2>2, <2>9, <3>1, <3>2, StackAvoids
  <2>12. x \in Reach(flow, flow.steps[e].deps[1])
    <3>1. j \in {2, 3} BY <2>5, <2>9, <2>10
    <3>2. x \in Reach(flow, flow.steps[e].deps[j]) BY <2>3, <2>5, <2>10 DEF Reach
    <3>3. Reach(flow, flow.steps[e].deps[j]) \cap Reach(Without(flow, e, j), flow.output)
            \subseteq Reach(flow, flow.steps[e].deps[1])
      BY <2>2, <2>9, <3>1 DEF BranchesClosed
    <3> QED BY <2>11, <3>2, <3>3
  <2>13. 1 \in DOMAIN kids[e] /\ ~(1 >= 2) BY <2>10
  <2>14. kids[e][1] \in D \cup {0} BY <2>8, <2>13 DEF Passed
  <2> QED BY <2>7, <2>10, <2>12, <2>13, <2>14 DEF Reach
<1>4. 0 .. N \subseteq T
  <2> HIDE DEF T
  <2> QED BY <1>1, <1>3, UpTo
<1>5. c \in 0 .. N BY <1>1, <1>2
<1>6. c \in T BY <1>4, <1>5
<1> QED BY <1>6 DEF Reach

\* A node on the stack is not reached by what was looked at before the way to it.
LEMMA Unreached ==
  ASSUME NEW flow, IsPlan(flow), BranchesClosed(flow), NEW kids, KidsOK(flow, kids),
         NEW st, NEW D, Shape(flow, kids, st, D), NEW m \in 1 .. Len(st), NEW k \in 1 .. (m - 1),
         NEW j \in 1 .. (st[k].next - 2)
  PROVE  st[m].node \notin Reach(flow, kids[st[k].node][j])
<1> DEFINE x == st[m].node
           n == st[k].node
           i == st[k].next - 1
<1>1. Len(st) \in Nat /\ k \in 1 .. Len(st) /\ k \in 1 .. (Len(st) - 1) /\ k # Len(st) BY StackEdges
<1>2. n \in Nodes(flow) /\ st[k].next \in Nat \ {0} BY <1>1, StackEdges DEF Frames
<1>3. \A h \in 1 .. (i - 1) : Passed(flow, kids, D, n, h)
  <2>1. \A h \in 1 .. (i - 1) : h \in 1 .. (st[k].next - 1) /\ h < st[k].next - 1 BY <1>2
  <2> QED BY <1>1, <2>1 DEF Shape
<1>4. j \in 1 .. (i - 1) BY <1>2
<1>5. \A h \in 1 .. (i - 1) : kids[n][h] \in D \cup {0} => x \notin Reach(flow, kids[n][h])
  BY CachedClosed
<1>6. CASE kids[n][j] \in D \cup {0} BY <1>4, <1>5, <1>6
<1>7. CASE flow.steps[n].kind = "when" /\ j >= 2
  <2> SUFFICES ASSUME x \in Reach(flow, kids[n][j]) PROVE FALSE OBVIOUS
  <2>1. kids[n] = flow.steps[n].deps /\ DOMAIN kids[n] = 1 .. 3
    BY <1>2, <1>7, WhenKids
  <2>2. i \in 1 .. 3 BY <1>1, <2>1 DEF Shape
  <2>3. j = 2 /\ i # j BY <1>2, <1>4, <1>7, <2>2
  <2>4. \A h \in 1 .. (m - 1) : st[h].node = n => st[h].next - 1 # j
    <3> SUFFICES ASSUME NEW h \in 1 .. (m - 1), st[h].node = n PROVE h = k BY <2>3
    <3>1. h \in 1 .. Len(st) BY <1>1
    <3>2. \A y \in Nodes(flow) : ~(y < y) BY PlanType
    <3>3. ~(h < k) /\ ~(k < h) BY <1>1, <1>2, <3>1, <3>2, StackEdges
    <3> QED BY <3>3
  <2>5. x \in Reach(Without(flow, n, j), flow.output)
    <3>1. j \in DOMAIN flow.steps[n].deps BY <2>1, <2>3
    <3> QED BY <1>2, <1>7, <2>4, <3>1, StackAvoids
  <2>6. x \in Reach(flow, kids[n][1])
    <3>1. Reach(flow, flow.steps[n].deps[j]) \cap Reach(Without(flow, n, j), flow.output)
            \subseteq Reach(flow, flow.steps[n].deps[1])
      BY <1>2, <1>7, <2>3 DEF BranchesClosed
    <3> QED BY <2>1, <2>5, <3>1
  <2>7. 1 \in 1 .. (i - 1) BY <1>4, <2>2, <2>3
  <2>8. kids[n][1] \in D \cup {0} BY <1>3, <2>7 DEF Passed
  <2> QED BY <1>5, <2>6, <2>7, <2>8
<1> QED BY <1>3, <1>4, <1>6, <1>7 DEF Passed
\* Of two dependencies, one stands before the other.
LEMMA BeforeOther ==
  ASSUME NEW S, NEW deps \in Seq(S), NEW d \in ToSet(deps), NEW e \in ToSet(deps), d # e
  PROVE  d \in Before(deps, e) \/ e \in Before(deps, d)
<1> DEFINE At(x) == {i \in DOMAIN deps : deps[i] = x}
<1>1. Len(deps) \in Nat /\ DOMAIN deps = 1 .. Len(deps) BY SeqIs
<1>2. ASSUME NEW x \in ToSet(deps) PROVE \E p \in At(x) : \A i \in At(x) : p <= i
  <2>1. At(x) \subseteq DOMAIN deps /\ At(x) # {} BY DEF ToSet
  <2>2. At(x) \in SUBSET Nat BY <1>1, <2>1
  <2> HIDE DEF At
  <2> QED BY <2>1, <2>2, NatMin
<1>3. PICK p \in At(d) : \A i \in At(d) : p <= i BY <1>2
<1>4. PICK q \in At(e) : \A i \in At(e) : q <= i BY <1>2
<1>5. p \in DOMAIN deps /\ q \in DOMAIN deps /\ deps[p] = d /\ deps[q] = e OBVIOUS
<1>6. CASE p < q
  <2>1. \A k \in 1 .. p : k \in DOMAIN deps /\ ~(q <= k) BY <1>1, <1>5, <1>6
  <2>2. \A k \in 1 .. p : deps[k] # e BY <1>4, <2>1
  <2> QED BY <1>5, <2>2 DEF Before
<1>7. CASE q < p
  <2>1. \A k \in 1 .. q : k \in DOMAIN deps /\ ~(p <= k) BY <1>1, <1>5, <1>7
  <2>2. \A k \in 1 .. q : deps[k] # d BY <1>3, <2>1
  <2> QED BY <1>5, <2>2 DEF Before
<1>8. p # q /\ p \in Nat /\ q \in Nat BY <1>1, <1>5
<1> QED BY <1>6, <1>7, <1>8

\* Two walks that both are at x have taken the same way, whatever the order in which
\* they look at dependencies, and so the same scope.
LEMMA SameScope ==
  ASSUME NEW flow, IsPlan(flow), BranchesClosed(flow),
         NEW kids, KidsOK(flow, kids), NEW st, NEW D, Shape(flow, kids, st, D),
         NEW other, KidsOK(flow, other), NEW ot, NEW E, Shape(flow, other, ot, E),
         NEW m \in 1 .. Len(st), NEW l \in 1 .. Len(ot), st[m].node = ot[l].node
  PROVE  st[m].scope = ot[l].scope
<1> DEFINE x == st[m].node
           T == {k \in 0 .. (m - 1) : k + 1 \in 1 .. l /\ st[k + 1].node = ot[k + 1].node
                                      /\ st[k + 1].scope = ot[k + 1].scope}
<1>1. Len(st) \in Nat /\ Len(ot) \in Nat /\ m - 1 \in Nat BY StackEdges
<1>2. \A y \in Nodes(flow) : ~(y < y) BY PlanType
<1>3. x \in Nodes(flow) BY StackEdges
<1>4. ASSUME NEW k \in 0 .. (m - 1), (0 .. (k - 1)) \subseteq T PROVE k \in T
  <2>1. CASE k = 0
    <3>1. k + 1 = 1 /\ 1 \in 1 .. l /\ st # <<>> /\ ot # <<>> BY <1>1, <2>1
    <3>2. st[1].node = ot[1].node /\ st[1].scope = ot[1].scope BY <3>1 DEF Shape
    <3> QED BY <2>1, <3>1, <3>2
  <2>2. CASE k # 0
    <3>1. k - 1 \in 0 .. (k - 1) /\ (k - 1) + 1 = k BY <2>2
    <3>2. k - 1 \in T BY <1>4, <3>1
    <3>3. k \in 1 .. l /\ st[k].node = ot[k].node /\ st[k].scope = ot[k].scope BY <3>1, <3>2
    <3> PICK c : c = st[k].node OBVIOUS
    <3> PICK i : i = st[k].next - 1 OBVIOUS
    <3> PICK j : j = ot[k].next - 1 OBVIOUS
    <3> PICK d : d = st[k + 1].node OBVIOUS
    <3> PICK e : e = ot[k + 1].node OBVIOUS
    <3>4. k \in 1 .. (m - 1) /\ k \in 1 .. (Len(st) - 1) /\ k \in 1 .. Len(st) /\ k < m
          /\ k + 1 \in 1 .. m
      BY <1>1, <2>2
    <3>5. x < c BY <3>4, StackEdges
    <3>6. k # l BY <1>2, <1>3, <3>3, <3>5
    <3>7. k \in 1 .. (l - 1) /\ k \in 1 .. (Len(ot) - 1) /\ k \in 1 .. Len(ot) /\ k + 1 \in 1 .. l
      BY <1>1, <3>3, <3>6
    <3>8. /\ i \in DOMAIN kids[c] /\ d = kids[c][i] /\ st[k + 1].scope = Inner(flow, c, i, st[k].scope)
          /\ j \in DOMAIN other[c] /\ e = other[c][j] /\ ot[k + 1].scope = Inner(flow, c, j, st[k].scope)
      BY <3>3, <3>4, <3>7 DEF Shape
    <3>9. x \in Reach(flow, d) /\ x \in Reach(flow, e) BY <3>4, <3>7, StackReaches
    <3>10. c \in Nodes(flow) /\ d \in ToSet(flow.steps[c].deps) /\ e \in ToSet(flow.steps[c].deps)
      BY <3>3, <3>4, <3>7, StackEdges
    <3>11. \A h \in 1 .. (i - 1) : x \notin Reach(flow, kids[c][h])
      <4>1. st[k].next \in Nat BY <3>4, StackEdges DEF Frames
      <4>2. \A h \in 1 .. (i - 1) : h \in 1 .. (st[k].next - 2) BY <4>1, SMTT(30)
      <4> QED BY <3>4, <4>2, Unreached
    <3>12. \A h \in 1 .. (j - 1) : x \notin Reach(flow, other[c][h])
      <4>1. ot[k].next \in Nat BY <3>7, StackEdges DEF Frames
      <4>2. \A h \in 1 .. (j - 1) : h \in 1 .. (ot[k].next - 2) BY <4>1
      <4> QED BY <3>3, <3>7, <4>2, Unreached
    <3>13. d = e
      <4> SUFFICES ASSUME d # e PROVE FALSE OBVIOUS
      <4>1. d \notin Before(flow.steps[c].deps, e)
        <5>1. Before(flow.steps[c].deps, e) \subseteq {other[c][h] : h \in 1 .. (j - 1)}
          <6>1. KidsFit(flow, c, other[c]) BY <3>10 DEF KidsOK
          <6> QED BY ONLY <3>8, <6>1 DEF KidsFit
        <5> QED BY <3>9, <3>12, <5>1
      <4>2. e \notin Before(flow.steps[c].deps, d)
        <5>1. Before(flow.steps[c].deps, d) \subseteq {kids[c][h] : h \in 1 .. (i - 1)}
          <6>1. KidsFit(flow, c, kids[c]) BY <3>10 DEF KidsOK
          <6> QED BY ONLY <3>8, <6>1 DEF KidsFit
        <5> QED BY <3>9, <3>11, <5>1
      <4>3. flow.steps[c].deps \in Seq(0 .. (c - 1)) BY <3>10, PlanType
      <4> QED BY <3>10, <4>1, <4>2, <4>3, BeforeOther
    <3>14. Inner(flow, c, i, st[k].scope) = Inner(flow, c, j, st[k].scope)
      <4>1. CASE flow.steps[c].kind \in Executable BY <4>1 DEF Inner, Executable
      <4>2. CASE flow.steps[c].kind \notin Executable
        <5>1. kids[c] = flow.steps[c].deps /\ other[c] = flow.steps[c].deps BY <3>10, <4>2, KidsInOrder
        <5>2. i \in Nat /\ j \in Nat /\ i >= 1 /\ j >= 1
          <6>1. /\ Len(kids[c]) \in Nat /\ DOMAIN kids[c] = 1 .. Len(kids[c])
                /\ Len(other[c]) \in Nat /\ DOMAIN other[c] = 1 .. Len(other[c])
            BY ONLY <3>10, KidType
          <6> QED BY ONLY <3>8, <6>1, SMTT(30)
        <5>3. ~(i < j)
          <6>1. i < j => i \in 1 .. (j - 1) BY ONLY <5>2
          <6>2. i < j => x \notin Reach(flow, other[c][i]) BY ONLY <3>12, <6>1
          <6> QED BY ONLY <3>8, <3>9, <5>1, <6>2
        <5>4. ~(j < i)
          <6>1. j < i => j \in 1 .. (i - 1) BY ONLY <5>2
          <6>2. j < i => x \notin Reach(flow, kids[c][j]) BY ONLY <3>11, <6>1
          <6> QED BY ONLY <3>8, <3>9, <5>1, <6>2
        <5>5. i = j BY ONLY <5>2, <5>3, <5>4
        <5> QED BY <5>5
      <4> QED BY <4>1, <4>2
    <3> QED BY <3>7, <3>8, <3>13, <3>14
  <2> QED BY <2>1, <2>2
<1>5. 0 .. (m - 1) \subseteq T
  <2> HIDE DEF T
  <2> QED BY <1>1, <1>4, UpTo
<1>6. m - 1 \in T /\ (m - 1) + 1 = m
  <2>1. m - 1 \in 0 .. (m - 1) /\ (m - 1) + 1 = m BY <1>1
  <2> HIDE DEF T
  <2> QED BY <1>5, <2>1
<1>7. m \in 1 .. l /\ x = ot[m].node /\ st[m].scope = ot[m].scope BY <1>6
<1>8. m = l
  <2>1. m \in 1 .. Len(ot) /\ m \in Nat /\ l \in Nat BY <1>1, <1>7
  <2>2. ~(m < l) BY <1>2, <1>3, <1>7, <2>1, StackEdges
  <2> QED BY <1>7, <2>1, <2>2
<1> QED BY <1>7, <1>8
-----------------------------------------------------------------------------
(***************************************************************************)
(* The scope of a node, and the moves of a walk.                           *)
(***************************************************************************)

\* A plan with no control nodes has no scopes.
Unscoped(flow) == \A n \in Nodes(flow) : flow.steps[n].kind \in Executable

\* Some walk is at n in scope s.
WalkedIn(flow, n, s) ==
  \E kids, st, D :
    /\ KidsOK(flow, kids) /\ Shape(flow, kids, st, D)
    /\ \E m \in 1 .. Len(st) : st[m].node = n /\ st[m].scope = s

ScopeOf(flow, n) == IF Unscoped(flow) THEN <<>> ELSE CHOOSE s : WalkedIn(flow, n, s)

\* A plan for which scopes are defined: its order is that of its bindings, or it has
\* no scopes (OrderUnscoped).
Scoped(flow, kids) ==
  \/ Unscoped(flow)
  \/ BranchesClosed(flow) /\ KidsOK(flow, kids)

Placed(flow, kids, st, D) ==
  /\ st \in Seq(Frames(flow)) /\ D \subseteq Nodes(flow)
  /\ IF Unscoped(flow) THEN \A k \in 1 .. Len(st) : st[k].scope = <<>>
     ELSE Shape(flow, kids, st, D)

\* Every frame has the scope of its node.
LEMMA PlacedScope ==
  ASSUME NEW flow, IsPlan(flow), NEW kids, Scoped(flow, kids), NEW st, NEW D, Placed(flow, kids, st, D),
         NEW m \in 1 .. Len(st)
  PROVE  st[m].scope = ScopeOf(flow, st[m].node)
<1>1. CASE Unscoped(flow) BY <1>1 DEF Placed, ScopeOf
<1>2. CASE ~Unscoped(flow)
  <2> DEFINE n == st[m].node
             s == st[m].scope
             t == CHOOSE u : WalkedIn(flow, n, u)
  <2>1. BranchesClosed(flow) /\ KidsOK(flow, kids) /\ Shape(flow, kids, st, D) BY <1>2 DEF Scoped, Placed
  <2>2. WalkedIn(flow, n, s) BY <2>1 DEF WalkedIn
  <2>3. WalkedIn(flow, n, t) BY <2>2
  <2> HIDE DEF t
  <2>4. PICK other, ot, E :
          /\ KidsOK(flow, other) /\ Shape(flow, other, ot, E)
          /\ \E l \in 1 .. Len(ot) : ot[l].node = n /\ ot[l].scope = t
    BY <2>3 DEF WalkedIn
  <2>5. PICK l \in 1 .. Len(ot) : ot[l].node = n /\ ot[l].scope = t BY <2>4
  <2>6. s = t BY <2>1, <2>4, <2>5, SameScope
  <2> QED BY <1>2, <2>6 DEF ScopeOf, t
<1> QED BY <1>1, <1>2

\* The top of a stack.
LEMMA TopFrame ==
  ASSUME NEW flow, NEW st \in Seq(Frames(flow)), st # <<>>
  PROVE  /\ Len(st) \in Nat \ {0} /\ Last(st) = st[Len(st)]
         /\ Last(st) \in Frames(flow)
         /\ Last(st).node \in Nodes(flow) /\ Last(st).scope \in Scopes /\ Last(st).next \in Nat \ {0}
         /\ Front(st) \in Seq(Frames(flow)) /\ Len(Front(st)) = Len(st) - 1
         /\ \A k \in 1 .. (Len(st) - 1) : Front(st)[k] = st[k]
<1>1. Len(st) \in Nat \ {0} /\ Last(st) = st[Len(st)] /\ Last(st) \in Frames(flow) BY DEF Last
<1>2. \A f \in Frames(flow) : f.node \in Nodes(flow) /\ f.scope \in Scopes /\ f.next \in Nat \ {0}
  BY DEF Frames
<1>3. /\ Front(st) \in Seq(Frames(flow)) /\ Len(Front(st)) = Len(st) - 1
      /\ \A k \in 1 .. (Len(st) - 1) : Front(st)[k] = st[k]
  BY FrontType
<1> QED BY <1>1, <1>2, <1>3

\* A walk starts at the output.
LEMMA PlacedStart ==
  ASSUME NEW flow, IsPlan(flow), NEW kids
  PROVE  /\ Placed(flow, kids, <<>>, {})
         /\ flow.output # 0 => Placed(flow, kids, Append(<<>>, Frame(flow.output, <<>>)), {})
<1>1. Len(<<>>) = 0 /\ <<>> \in Seq(Frames(flow)) OBVIOUS
<1>2. Placed(flow, kids, <<>>, {})
  <2>1. \A k : k \notin 1 .. 0 /\ k \notin 1 .. (0 - 1) OBVIOUS
  <2> QED BY <1>1, <2>1 DEF Placed, Shape
<1>3. ASSUME flow.output # 0
      PROVE  Placed(flow, kids, Append(<<>>, Frame(flow.output, <<>>)), {})
  <2> DEFINE f == Frame(flow.output, <<>>)
             st == Append(<<>>, f)
  <2>1. f \in Frames(flow) /\ f.node = flow.output /\ f.scope = <<>> /\ f.next = 1
    <3>1. flow.output \in Nodes(flow) BY <1>3, PlanType
    <3>2. <<>> \in Scopes BY DEF Scopes
    <3> QED BY <3>1, <3>2 DEF Frame, Frames
  <2> HIDE DEF f
  <2>2. st \in Seq(Frames(flow)) /\ Len(st) = 1 /\ st[1] = f BY <2>1
  <2> HIDE DEF st
  <2>3. \A k \in 1 .. Len(st) : st[k] = f BY <2>2
  <2>4. 1 .. (Len(st) - 1) = {} /\ 1 .. (f.next - 1) = {} BY <2>1, <2>2
  <2>5. Shape(flow, kids, st, {}) BY <2>1, <2>2, <2>3, <2>4 DEF Shape
  <2> QED BY <2>1, <2>2, <2>3, <2>5 DEF Placed, st, f
<1> QED BY <1>2, <1>3

\* A node that has looked at all its kids returns.
LEMMA PlacedLeave ==
  ASSUME NEW flow, IsPlan(flow), NEW kids, Scoped(flow, kids), NEW st, NEW D, Placed(flow, kids, st, D),
         st # <<>>, Last(st).next > Len(kids[Last(st).node])
  PROVE  Placed(flow, kids, Front(st), D \cup {Last(st).node})
<1> DEFINE f == Last(st)
           n == Last(st).node
           E == D \cup {n}
           fr == Front(st)
           L == Len(st)
<1>1. st \in Seq(Frames(flow)) /\ D \subseteq Nodes(flow) BY DEF Placed
<1>2. /\ L \in Nat \ {0} /\ f = st[L] /\ f \in Frames(flow) /\ n \in Nodes(flow) /\ f.next \in Nat \ {0}
      /\ fr \in Seq(Frames(flow)) /\ Len(fr) = L - 1 /\ \A k \in 1 .. (L - 1) : fr[k] = st[k]
  BY <1>1, TopFrame
<1> HIDE DEF fr
<1>3. E \subseteq Nodes(flow) BY <1>1, <1>2
<1>4. \A k \in 1 .. (L - 1) : k \in 1 .. L /\ k # L BY <1>2
<1>5. CASE Unscoped(flow) BY <1>2, <1>3, <1>4, <1>5 DEF Placed, fr
<1>6. CASE ~Unscoped(flow)
  <2>1. KidsOK(flow, kids) /\ Shape(flow, kids, st, D) BY <1>6 DEF Scoped, Placed
  <2>2. \A c, j : Passed(flow, kids, D, c, j) => Passed(flow, kids, E, c, j) BY DEF Passed
  <2>3. fr # <<>> => fr[1].node = flow.output /\ fr[1].scope = <<>>
    <3>1. fr # <<>> => 1 \in 1 .. (L - 1) BY <1>2
    <3> QED BY <1>2, <2>1, <3>1 DEF Shape
  <2>4. \A k \in 1 .. Len(fr) : fr[k].node \notin E
    <3>1. \A k \in 1 .. (L - 1) : st[k].node \notin D BY <1>4, <2>1 DEF Shape
    <3>2. \A k \in 1 .. (L - 1) : st[k].node # n
      <4>1. \A k \in 1 .. (L - 1) : k \in 1 .. L /\ L \in 1 .. L /\ k < L BY <1>2
      <4>2. \A k \in 1 .. (L - 1) : st[L].node < st[k].node BY <2>1, <4>1, StackEdges
      <4>3. ~(n < n) BY <1>2, PlanType
      <4> QED BY <1>2, <4>2, <4>3
    <3> QED BY <1>2, <3>1, <3>2
  <2>5. ASSUME NEW k \in 1 .. (Len(fr) - 1)
        PROVE  LET i == fr[k].next - 1 IN
               /\ i \in DOMAIN kids[fr[k].node]
               /\ fr[k + 1].node = kids[fr[k].node][i]
               /\ fr[k + 1].scope = Inner(flow, fr[k].node, i, fr[k].scope)
    <3>1. k \in 1 .. (L - 1) /\ k + 1 \in 1 .. (L - 1) BY <1>2
    <3>2. fr[k] = st[k] /\ fr[k + 1] = st[k + 1] BY <1>2, <3>1
    <3> QED BY <2>1, <3>1, <3>2 DEF Shape
  <2>6. ASSUME NEW k \in 1 .. Len(fr), NEW j \in 1 .. (fr[k].next - 1),
               k = Len(fr) \/ j < fr[k].next - 1
        PROVE  Passed(flow, kids, E, fr[k].node, j)
    <3>1. k \in 1 .. (L - 1) /\ fr[k] = st[k] BY <1>2
    <3>2. CASE j < st[k].next - 1
      <4>1. Passed(flow, kids, D, st[k].node, j) BY <1>4, <2>1, <3>1, <3>2 DEF Shape
      <4> QED BY <2>2, <3>1, <4>1
    <3>3. CASE ~(j < st[k].next - 1)
      <4>1. st[k].next \in Nat
        <5>1. st[k] \in Frames(flow) BY <1>1, <1>4, <3>1, SeqIs
        <5> QED BY <5>1 DEF Frames
      <4>2. k = L - 1 /\ j = st[k].next - 1 /\ k + 1 = L BY <1>2, <2>6, <3>1, <3>3, <4>1
      <4>3. st[k + 1].node = kids[st[k].node][j] BY <2>1, <3>1, <4>2 DEF Shape
      <4> QED BY <1>2, <3>1, <4>2, <4>3 DEF Passed
    <3> QED BY <3>2, <3>3
  <2>7. ASSUME NEW c \in E, NEW j \in DOMAIN kids[c] PROVE Passed(flow, kids, E, c, j)
    <3>1. CASE c \in D
      <4>1. Passed(flow, kids, D, c, j) BY <2>1, <3>1 DEF Shape
      <4> QED BY <2>2, <4>1
    <3>2. CASE c = n
      <4>1. DOMAIN kids[n] = 1 .. Len(kids[n]) /\ Len(kids[n]) \in Nat BY <1>2, <2>1, KidType
      <4>2. j \in 1 .. (f.next - 1) BY <1>2, <3>2, <4>1
      <4>3. L \in 1 .. L BY <1>2
      <4>4. Passed(flow, kids, D, n, j) BY <1>2, <2>1, <4>2, <4>3 DEF Shape
      <4> QED BY <2>2, <3>2, <4>4
    <3> QED BY <3>1, <3>2
  <2>8. Shape(flow, kids, fr, E) BY <1>2, <1>3, <2>3, <2>4, <2>5, <2>6, <2>7 DEF Shape
  <2> QED BY <1>2, <1>3, <1>6, <2>8 DEF Placed, fr
<1> QED BY <1>5, <1>6
\* A frame looks at its next kid.
LEMMA NextKid ==
  ASSUME NEW flow, NEW st \in Seq(Frames(flow)), st # <<>>
  PROVE  LET to == [st EXCEPT ![Len(st)].next = @ + 1] IN
         /\ to \in Seq(Frames(flow)) /\ Len(to) = Len(st)
         /\ \A k \in 1 .. Len(st) :
              /\ to[k].node = st[k].node /\ to[k].scope = st[k].scope
              /\ to[k].next = IF k = Len(st) THEN st[k].next + 1 ELSE st[k].next
<1> DEFINE L == Len(st)
           f == st[L]
           g == [f EXCEPT !.next = @ + 1]
           to == [st EXCEPT ![L].next = @ + 1]
<1>1. L \in Nat \ {0} /\ DOMAIN st = 1 .. L /\ f \in Frames(flow) BY SeqIs
<1>2. f = [node |-> f.node, scope |-> f.scope, next |-> f.next] /\ f.next \in Nat \ {0}
      /\ f.node \in Nodes(flow) /\ f.scope \in Scopes
  BY <1>1 DEF Frames
<1>3. g.node = f.node /\ g.scope = f.scope /\ g.next = f.next + 1 /\ g \in Frames(flow)
  BY <1>2 DEF Frames
<1> HIDE DEF f
<1>4. to = [st EXCEPT ![L] = g] BY DEF f
<1> HIDE DEF g
<1>5. to \in Seq(Frames(flow)) /\ Len(to) = L
      /\ \A k \in 1 .. L : to[k] = IF k = L THEN g ELSE st[k]
  BY <1>1, <1>3, <1>4
<1> QED BY <1>3, <1>5 DEF f

\* It is done with that kid already.
LEMMA PlacedAdvance ==
  ASSUME NEW flow, IsPlan(flow), NEW kids, Scoped(flow, kids), NEW st, NEW D, Placed(flow, kids, st, D),
         st # <<>>, ~Unscoped(flow) => Passed(flow, kids, D, Last(st).node, Last(st).next)
  PROVE  Placed(flow, kids, [st EXCEPT ![Len(st)].next = @ + 1], D)
<1> DEFINE L == Len(st)
           to == [st EXCEPT ![L].next = @ + 1]
<1>1. st \in Seq(Frames(flow)) /\ D \subseteq Nodes(flow) BY DEF Placed
<1>2. L \in Nat \ {0} /\ Last(st) = st[L] BY <1>1, TopFrame
<1>3. /\ to \in Seq(Frames(flow)) /\ Len(to) = L
      /\ \A k \in 1 .. L :
           /\ to[k].node = st[k].node /\ to[k].scope = st[k].scope
           /\ to[k].next = IF k = L THEN st[k].next + 1 ELSE st[k].next
  BY <1>1, NextKid
<1> HIDE DEF to
<1>4. CASE Unscoped(flow) BY <1>1, <1>3, <1>4 DEF Placed, to
<1>5. CASE ~Unscoped(flow)
  <2>1. Shape(flow, kids, st, D) BY <1>5 DEF Placed
  <2>2. to # <<>> => to[1].node = flow.output /\ to[1].scope = <<>>
    BY <1>2, <1>3, <2>1 DEF Shape
  <2>3. \A k \in 1 .. Len(to) : to[k].node \notin D BY <1>3, <2>1 DEF Shape
  <2>4. ASSUME NEW k \in 1 .. (Len(to) - 1)
        PROVE  LET i == to[k].next - 1 IN
               /\ i \in DOMAIN kids[to[k].node]
               /\ to[k + 1].node = kids[to[k].node][i]
               /\ to[k + 1].scope = Inner(flow, to[k].node, i, to[k].scope)
    <3>1. k \in 1 .. L /\ k + 1 \in 1 .. L /\ k # L /\ k \in 1 .. (Len(st) - 1) BY <1>2, <1>3
    <3> QED BY <1>3, <2>1, <3>1 DEF Shape
  <2>5. ASSUME NEW k \in 1 .. Len(to), NEW j \in 1 .. (to[k].next - 1),
               k = Len(to) \/ j < to[k].next - 1
        PROVE  Passed(flow, kids, D, to[k].node, j)
    <3>1. k \in 1 .. L /\ to[k].node = st[k].node BY <1>3
    <3>2. CASE k # L
      <4>1. j \in 1 .. (st[k].next - 1) /\ j < st[k].next - 1 BY <1>3, <2>5, <3>1, <3>2
      <4> QED BY <2>1, <3>1, <4>1 DEF Shape
    <3>3. CASE k = L
      <4>1. st[L].next \in Nat BY <1>1, <1>2, TopFrame
      <4>2. j = st[L].next \/ j \in 1 .. (st[L].next - 1) BY <1>3, <3>1, <3>3, <4>1
      <4>3. j = st[L].next => Passed(flow, kids, D, st[L].node, j) BY <1>2, <1>5
      <4>4. j \in 1 .. (st[L].next - 1) => Passed(flow, kids, D, st[L].node, j)
        BY <2>1, <3>1, <3>3 DEF Shape
      <4> QED BY <3>1, <3>3, <4>2, <4>3, <4>4
    <3> QED BY <3>2, <3>3
  <2>6. \A c \in D : \A j \in DOMAIN kids[c] : Passed(flow, kids, D, c, j) BY <2>1 DEF Shape
  <2>7. Shape(flow, kids, to, D) BY <1>1, <1>3, <2>2, <2>3, <2>4, <2>5, <2>6 DEF Shape
  <2> QED BY <1>1, <1>3, <1>5, <2>7 DEF Placed, to
<1> QED BY <1>4, <1>5

\* It walks that kid.
LEMMA PlacedVisit ==
  ASSUME NEW flow, IsPlan(flow), NEW kids, Scoped(flow, kids), NEW st, NEW D, Placed(flow, kids, st, D),
         st # <<>>, NEW n, n = Last(st).node, NEW i, i = Last(st).next, i \in DOMAIN kids[n],
         kids[n][i] \in Nodes(flow) \ D
  PROVE  Placed(flow, kids,
                Append([st EXCEPT ![Len(st)].next = @ + 1],
                       Frame(kids[n][i], Inner(flow, n, i, Last(st).scope))), D)
<1> DEFINE L == Len(st)
           up == [st EXCEPT ![L].next = @ + 1]
           g == Frame(kids[n][i], Inner(flow, n, i, Last(st).scope))
           to == Append(up, g)
<1>1. st \in Seq(Frames(flow)) /\ D \subseteq Nodes(flow) BY DEF Placed
<1>2. L \in Nat \ {0} /\ Last(st) = st[L] /\ n = st[L].node /\ i = st[L].next
      /\ n \in Nodes(flow) /\ i \in Nat \ {0} /\ st[L].scope \in Scopes
  BY <1>1, TopFrame
<1>3. /\ up \in Seq(Frames(flow)) /\ Len(up) = L
      /\ \A k \in 1 .. L :
           /\ up[k].node = st[k].node /\ up[k].scope = st[k].scope
           /\ up[k].next = IF k = L THEN st[k].next + 1 ELSE st[k].next
  BY <1>1, NextKid
<1>4. g.node = kids[n][i] /\ g.scope = Inner(flow, n, i, st[L].scope) /\ g.next = 1 /\ g \in Frames(flow)
  <2>1. <<"parallel", i>> \in {"parallel", "branch"} \X Nat /\ <<"branch", i>> \in {"parallel", "branch"} \X Nat
    BY <1>2
  <2>2. Append(st[L].scope, <<"parallel", i>>) \in Scopes /\ Append(st[L].scope, <<"branch", i>>) \in Scopes
    BY <1>2, <2>1 DEF Scopes
  <2>3. Inner(flow, n, i, st[L].scope) \in Scopes BY <1>2, <2>2 DEF Inner
  <2> QED BY <1>2, <2>3 DEF Frame, Frames
<1> HIDE DEF up, g
<1>5. /\ to \in Seq(Frames(flow)) /\ Len(to) = L + 1 /\ to[L + 1] = g
      /\ \A k \in 1 .. L : to[k] = up[k]
  BY <1>2, <1>3, <1>4
<1> HIDE DEF to
<1>6. \A k \in 1 .. Len(to) : k \in 1 .. L \/ k = L + 1 BY <1>2, <1>5
<1>7. CASE Unscoped(flow)
  <2>1. flow.steps[n].kind \in Executable BY <1>2, <1>7 DEF Unscoped
  <2>2. Inner(flow, n, i, st[L].scope) = st[L].scope BY <2>1 DEF Inner, Executable
  <2>3. \A k \in 1 .. L : st[k].scope = <<>> BY <1>7 DEF Placed
  <2>4. L \in 1 .. L BY <1>2
  <2>5. g.scope = <<>> BY <1>4, <2>2, <2>3, <2>4
  <2>6. \A k \in 1 .. Len(to) : to[k].scope = <<>> BY <1>3, <1>5, <1>6, <2>3, <2>5
  <2> QED BY <1>1, <1>5, <1>7, <2>6 DEF Placed, to, up, g
<1>8. CASE ~Unscoped(flow)
  <2>1. Shape(flow, kids, st, D) BY <1>8 DEF Placed
  <2>2. to # <<>> => to[1].node = flow.output /\ to[1].scope = <<>>
    <3>1. 1 \in 1 .. L BY <1>2
    <3> QED BY <1>3, <1>5, <2>1, <3>1 DEF Shape
  <2>3. \A k \in 1 .. Len(to) : to[k].node \notin D
    <3>1. \A k \in 1 .. L : to[k].node \notin D BY <1>3, <1>5, <2>1 DEF Shape
    <3> QED BY <1>4, <1>5, <1>6, <3>1
  <2>4. ASSUME NEW k \in 1 .. (Len(to) - 1)
        PROVE  LET h == to[k].next - 1 IN
               /\ h \in DOMAIN kids[to[k].node]
               /\ to[k + 1].node = kids[to[k].node][h]
               /\ to[k + 1].scope = Inner(flow, to[k].node, h, to[k].scope)
    <3>1. k \in 1 .. L BY <1>2, <1>5
    <3>2. CASE k = L
      <4>1. to[k].next - 1 = i BY <1>2, <1>3, <1>5, <3>1, <3>2, SMTT(30)
      <4> QED BY <1>2, <1>3, <1>4, <1>5, <3>1, <3>2, <4>1
    <3>3. CASE k # L
      <4>1. k \in 1 .. (Len(st) - 1) /\ k + 1 \in 1 .. L BY <1>2, <3>1, <3>3
      <4> QED BY <1>3, <1>5, <2>1, <3>1, <3>3, <4>1, SMTT(30) DEF Shape
    <3> QED BY <3>2, <3>3
  <2>5. ASSUME NEW k \in 1 .. Len(to), NEW j \in 1 .. (to[k].next - 1),
               k = Len(to) \/ j < to[k].next - 1
        PROVE  Passed(flow, kids, D, to[k].node, j)
    <3>1. CASE k = L + 1
      <4>1. to[k].next = 1 BY <1>4, <1>5, <3>1
      <4> QED BY <4>1
    <3>2. CASE k \in 1 .. L
      <4>1. to[k].node = st[k].node /\ to[k].next = up[k].next /\ k # Len(to) BY <1>2, <1>3, <1>5, <3>2
      <4>2. j \in 1 .. (st[k].next - 1) /\ (k = L \/ j < st[k].next - 1)
        <5>1. CASE k = L
          <6>1. up[k].next = i + 1 /\ st[k].next = i BY <1>2, <1>3, <3>2, <5>1
          <6> QED BY <1>2, <2>5, <4>1, <5>1, <6>1
        <5>2. CASE k # L BY <1>3, <2>5, <3>2, <4>1, <5>2
        <5> QED BY <5>1, <5>2
      <4> QED BY <2>1, <3>2, <4>1, <4>2 DEF Shape
    <3> QED BY <1>6, <3>1, <3>2
  <2>6. \A c \in D : \A j \in DOMAIN kids[c] : Passed(flow, kids, D, c, j) BY <2>1 DEF Shape
  <2>7. Shape(flow, kids, to, D) BY <1>1, <1>5, <2>2, <2>3, <2>4, <2>5, <2>6 DEF Shape
  <2> QED BY <1>1, <1>5, <1>8, <2>7 DEF Placed, to, up, g
<1> QED BY <1>7, <1>8
\* In the order of its dependencies, a step looks at each after those before it.
LEMMA BeforeSelf ==
  ASSUME NEW S, NEW deps \in Seq(S), NEW i \in DOMAIN deps
  PROVE  Before(deps, deps[i]) \subseteq {deps[j] : j \in 1 .. (i - 1)}
<1>1. Len(deps) \in Nat /\ DOMAIN deps = 1 .. Len(deps) BY SeqIs
<1>2. ASSUME NEW p \in DOMAIN deps, \A k \in 1 .. p : deps[k] # deps[i] PROVE p \in 1 .. (i - 1)
  <2>1. i \notin 1 .. p BY <1>2
  <2> QED BY <1>1, <2>1
<1> QED BY <1>2 DEF Before

\* What is before a dependency is a dependency.
LEMMA BeforeType ==
  ASSUME NEW deps, NEW d
  PROVE  Before(deps, d) \subseteq ToSet(deps)
BY DEF Before, ToSet

\* The two walks, and what their steps look at.
StaticKids(flow) == [n \in Nodes(flow) |-> flow.steps[n].deps]

WalkKids(flow) == [n \in Nodes(flow) |-> Kids(flow, n)]

LEMMA StaticScoped ==
  ASSUME NEW flow, IsPlan(flow), WellScoped(flow)
  PROVE  Scoped(flow, StaticKids(flow))
<1>1. ASSUME NEW n \in Nodes(flow) PROVE KidsFit(flow, n, flow.steps[n].deps)
  <2> DEFINE deps == flow.steps[n].deps
  <2>1. deps \in Seq(0 .. (n - 1)) BY PlanType
  <2>2. deps \in Seq(ToSet(deps)) BY <2>1 DEF ToSet
  <2>3. \A i \in DOMAIN deps : Before(deps, deps[i]) \subseteq {deps[j] : j \in 1 .. (i - 1)}
    BY <2>1, BeforeSelf
  <2> QED BY <2>2, <2>3 DEF KidsFit
<1>2. \A n \in Nodes(flow) : StaticKids(flow)[n] = flow.steps[n].deps BY DEF StaticKids
<1>3. KidsOK(flow, StaticKids(flow)) BY <1>1, <1>2 DEF KidsOK
<1> QED BY <1>3 DEF Scoped, WellScoped

\* The data of a step are dependencies of it, and it looks at both.
LEMMA KidsType ==
  ASSUME NEW flow, IsPlan(flow), NEW n \in Nodes(flow)
  PROVE  LET deps == flow.steps[n].deps
             data == DataOf(flow, n)
         IN  /\ deps \in Seq(ToSet(deps)) /\ Len(deps) \in Nat /\ DOMAIN deps = 1 .. Len(deps)
             /\ Kids(flow, n) \in Seq(ToSet(deps))
             /\ Len(Kids(flow, n)) \in Nat /\ DOMAIN Kids(flow, n) = 1 .. Len(Kids(flow, n))
             /\ \A i \in DOMAIN Kids(flow, n) : Kids(flow, n)[i] \in ToSet(deps)
             /\ flow.steps[n].kind \notin Executable => Kids(flow, n) = deps
             /\ flow.steps[n].kind \in Executable =>
                  /\ data \in Seq(ToSet(deps)) /\ Len(data) \in Nat /\ DOMAIN data = 1 .. Len(data)
                  /\ Len(Kids(flow, n)) = Len(data) + Len(deps)
                  /\ \A i \in DOMAIN data : Kids(flow, n)[i] = data[i]
                  /\ \A i \in DOMAIN deps : Kids(flow, n)[Len(data) + i] = deps[i]
<1> DEFINE deps == flow.steps[n].deps
           data == DataOf(flow, n)
           S == ToSet(deps)
<1>1. deps \in Seq(S) /\ Len(deps) \in Nat /\ DOMAIN deps = 1 .. Len(deps)
  <2>1. deps \in Seq(0 .. (n - 1)) /\ Len(deps) \in Nat /\ DOMAIN deps = 1 .. Len(deps) BY PlanType
  <2> QED BY <2>1 DEF ToSet
<1>2. CASE flow.steps[n].kind \in Executable
  <2>1. data \in Seq(S)
    <3>1. CASE flow.steps[n].kind = "map_module"
      <4>1. deps # <<>> BY <3>1, PlanType DEF IsPlan
      <4>2. 1 \in DOMAIN deps BY <1>1, <4>1
      <4>3. deps[1] \in S BY <4>2 DEF ToSet
      <4> QED BY <3>1, <4>3 DEF DataOf
    <3>2. CASE flow.steps[n].kind # "map_module"
      <4>1. flow.steps[n].kind = "module" BY <1>2, <3>2 DEF Executable
      <4>2. flow.steps[n].data \in Seq(S) BY <4>1, PlanType, Zenon DEF IsPlan
      <4> QED BY <3>2, <4>2 DEF DataOf
    <3> QED BY <3>1, <3>2
  <2>2. Kids(flow, n) = data \o deps BY <1>2 DEF Kids
  <2> HIDE DEF data, deps, S
  <2>3. Len(data) \in Nat /\ DOMAIN data = 1 .. Len(data) BY <2>1
  <2>4. /\ Kids(flow, n) \in Seq(S) /\ Len(Kids(flow, n)) = Len(data) + Len(deps)
        /\ \A i \in DOMAIN data : Kids(flow, n)[i] = data[i]
        /\ \A i \in DOMAIN deps : Kids(flow, n)[Len(data) + i] = deps[i]
    BY <1>1, <2>1, <2>2, <2>3
  <2>5. /\ Len(Kids(flow, n)) \in Nat /\ DOMAIN Kids(flow, n) = 1 .. Len(Kids(flow, n))
        /\ \A i \in DOMAIN Kids(flow, n) : Kids(flow, n)[i] \in S
    BY <2>4, SeqIs
  <2> QED BY <1>1, <1>2, <2>1, <2>3, <2>4, <2>5 DEF data, deps, S
<1>3. CASE flow.steps[n].kind \notin Executable
  <2>1. Kids(flow, n) = deps BY <1>3 DEF Kids
  <2>2. \A i \in DOMAIN deps : deps[i] \in S BY DEF ToSet
  <2> QED BY <1>1, <1>3, <2>1, <2>2
<1> QED BY <1>2, <1>3

LEMMA WalkScoped ==
  ASSUME NEW flow, IsPlan(flow), WellScoped(flow)
  PROVE  Scoped(flow, WalkKids(flow))
<1>1. CASE Unscoped(flow) BY <1>1 DEF Scoped
<1>2. CASE ~Unscoped(flow)
  <2>1. BranchesClosed(flow) /\ \A n \in Nodes(flow) : InputOnly(flow, n)
    BY <1>2 DEF WellScoped, OrderUnscoped, Unscoped
  <2>2. ASSUME NEW n \in Nodes(flow) PROVE KidsFit(flow, n, Kids(flow, n))
    <3> DEFINE deps == flow.steps[n].deps
               kids == Kids(flow, n)
               data == DataOf(flow, n)
    <3>1. /\ deps \in Seq(ToSet(deps)) /\ Len(deps) \in Nat /\ DOMAIN deps = 1 .. Len(deps)
          /\ kids \in Seq(ToSet(deps)) /\ DOMAIN kids = 1 .. Len(kids) /\ Len(kids) \in Nat
          /\ \A i \in DOMAIN kids : kids[i] \in ToSet(deps)
      BY KidsType
    <3>2. CASE flow.steps[n].kind \notin Executable
      <4>1. kids = deps BY <3>2, KidsType
      <4>2. \A i \in DOMAIN deps : Before(deps, deps[i]) \subseteq {deps[j] : j \in 1 .. (i - 1)}
        BY <3>1, BeforeSelf
      <4> HIDE DEF kids, deps
      <4>3. /\ kids \in Seq(ToSet(deps)) /\ ToSet(deps) \subseteq ToSet(kids) /\ kids = deps
            /\ \A i \in DOMAIN kids : Before(deps, kids[i]) \subseteq {kids[j] : j \in 1 .. (i - 1)}
        BY <3>1, <4>1, <4>2
      <4> QED BY <4>3 DEF kids, deps, KidsFit
    <3>3. CASE flow.steps[n].kind \in Executable
      <4>1. /\ Len(data) \in Nat /\ DOMAIN data = 1 .. Len(data) /\ Len(kids) = Len(data) + Len(deps)
            /\ \A i \in DOMAIN data : kids[i] = data[i]
            /\ \A i \in DOMAIN deps : kids[Len(data) + i] = deps[i]
        BY <3>3, KidsType
      <4>2. ToSet(deps) \subseteq ToSet(data)
            /\ \A i \in DOMAIN data : Before(deps, data[i]) \subseteq {data[j] : j \in 1 .. (i - 1)}
        <5>1. CASE flow.steps[n].kind = "module"
          <6>1. data = flow.steps[n].data BY <5>1 DEF DataOf
          <6> QED BY <2>1, <5>1, <6>1 DEF InputOnly
        <5>2. CASE flow.steps[n].kind = "map_module"
          <6>1. data = <<deps[1]>> /\ Len(deps) = 1 BY <2>1, <5>2 DEF DataOf, InputOnly
          <6>2. ToSet(deps) \subseteq ToSet(data) BY <3>1, <6>1 DEF ToSet
          <6>3. Before(deps, deps[1]) = {}
            <7>1. \A p \in DOMAIN deps : 1 \in 1 .. p BY <3>1
            <7> QED BY <7>1 DEF Before
          <6> QED BY <6>1, <6>2, <6>3
        <5> QED BY <3>3, <5>1, <5>2 DEF Executable
      <4> HIDE DEF data, kids, deps
      <4>3. ToSet(data) \subseteq {kids[j] : j \in 1 .. Len(data)} BY <4>1 DEF ToSet
      <4>4. \A j \in 1 .. Len(data) : j \in DOMAIN kids BY <3>1, <4>1
      <4>5. ToSet(deps) \subseteq ToSet(kids) BY <4>2, <4>3, <4>4 DEF ToSet
      <4>6. ASSUME NEW i \in DOMAIN kids PROVE Before(deps, kids[i]) \subseteq {kids[j] : j \in 1 .. (i - 1)}
        <5>1. CASE i \in DOMAIN data
          <6>1. \A j \in 1 .. (i - 1) : j \in DOMAIN data /\ kids[j] = data[j] BY <4>1, <5>1
          <6>2. Before(deps, data[i]) \subseteq {data[j] : j \in 1 .. (i - 1)} BY <4>2, <5>1
          <6> QED BY <4>1, <5>1, <6>1, <6>2
        <5>2. CASE i \notin DOMAIN data
          <6>1. \A j \in 1 .. Len(data) : j \in 1 .. (i - 1) BY <3>1, <4>1, <5>2
          <6>2. Before(deps, kids[i]) \subseteq ToSet(deps) BY BeforeType
          <6> QED BY <4>2, <4>3, <6>1, <6>2
        <5> QED BY <5>1, <5>2
      <4> QED BY <3>1, <3>3, <4>5, <4>6 DEF kids, deps, KidsFit
    <3> QED BY <3>2, <3>3
  <2>3. \A n \in Nodes(flow) : WalkKids(flow)[n] = Kids(flow, n) BY DEF WalkKids
  <2>4. KidsOK(flow, WalkKids(flow)) BY <2>2, <2>3 DEF KidsOK
  <2> QED BY <2>1, <2>4 DEF Scoped
<1> QED BY <1>1, <1>2
-----------------------------------------------------------------------------
(***************************************************************************)
(* The operations of a walk, by what they change.                          *)
(***************************************************************************)

\* w has the fields of a walk.
IsWalk(w) ==
  w \in [stack : {w.stack}, cache : {w.cache}, calls : {w.calls}, context : {w.context},
         failed : {w.failed}]

\* The cache after a node has returned.
LEMMA LeaveFields ==
  ASSUME NEW w, IsWalk(w), NEW result, NEW n, n = Last(w.stack).node
  PROVE  LET v == Leave(w, result) IN
         /\ IsWalk(v) /\ v.stack = Front(w.stack) /\ v.calls = w.calls
         /\ v.failed = w.failed
         /\ DOMAIN v.cache = DOMAIN w.cache \cup {n} /\ v.cache[n] = result
         /\ \A m \in DOMAIN w.cache : m # n => v.cache[m] = w.cache[m]
<1> DEFINE v == Leave(w, result)
           c == Put(w.cache, n, result)
<1>1. IsWalk(v) /\ v.stack = Front(w.stack) /\ v.calls = w.calls /\ v.cache = c /\ v.failed = w.failed
  BY DEF Leave, IsWalk
<1>2. /\ DOMAIN c = DOMAIN w.cache \cup {n} /\ c[n] = result
      /\ \A m \in DOMAIN w.cache : m # n => c[m] = w.cache[m]
  BY DEF Put
<1> QED BY <1>1, <1>2

LEMMA AdvancedFields ==
  ASSUME NEW w, IsWalk(w)
  PROVE  LET v == Advanced(w) IN
         /\ IsWalk(v) /\ v.stack = [w.stack EXCEPT ![Len(w.stack)].next = @ + 1]
         /\ v.calls = w.calls /\ v.cache = w.cache /\ v.failed = w.failed
BY DEF Advanced, IsWalk

LEMMA VisitFields ==
  ASSUME NEW w, IsWalk(w), NEW n, NEW scope
  PROVE  LET v == Visit(w, n, scope) IN
         /\ IsWalk(v) /\ v.calls = w.calls /\ v.cache = w.cache /\ v.failed = w.failed
         /\ n \in DOMAIN w.cache \cup {0} => v = w /\ v.stack = w.stack
         /\ n \notin DOMAIN w.cache \cup {0} => v.stack = Append(w.stack, Frame(n, scope))
BY DEF Visit, IsWalk

LEMMA CallFields ==
  ASSUME NEW w, IsWalk(w), NEW call
  PROVE  LET v == Call(w, call) IN
         /\ IsWalk(v) /\ v.calls = Append(w.calls, call) /\ v.cache = w.cache /\ v.stack = w.stack
         /\ v.failed = w.failed
BY DEF Call, IsWalk

LEMMA RaiseFields ==
  ASSUME NEW w, IsWalk(w)
  PROVE  LET v == Raise(w) IN
         IsWalk(v) /\ v.calls = w.calls /\ v.cache = w.cache /\ v.stack = <<>> /\ v.failed = TRUE
BY DEF Raise, IsWalk

LEMMA NewWalkFields ==
  ASSUME NEW flow
  PROVE  LET w == NewWalk(flow) IN
         /\ IsWalk(w) /\ w.calls = <<>> /\ DOMAIN w.cache = {}
         /\ flow.output = 0 => w.stack = <<>>
         /\ flow.output # 0 => w.stack = Append(<<>>, Frame(flow.output, <<>>))
<1> DEFINE w == [stack |-> <<>>, cache |-> NoNode, calls |-> <<>>, context |-> NoNode, failed |-> FALSE]
           v == Visit(w, flow.output, <<>>)
<1>1. IsWalk(w) /\ w.calls = <<>> /\ w.cache = NoNode /\ w.stack = <<>> BY DEF IsWalk
<1>2. DOMAIN NoNode = {} BY DEF NoNode
<1>3. NewWalk(flow) = v BY DEF NewWalk
<1> HIDE DEF w
<1>4. /\ IsWalk(v) /\ v.calls = w.calls /\ v.cache = w.cache
      /\ flow.output \in DOMAIN w.cache \cup {0} => v.stack = w.stack
      /\ flow.output \notin DOMAIN w.cache \cup {0} => v.stack = Append(w.stack, Frame(flow.output, <<>>))
  BY <1>1, VisitFields
<1> HIDE DEF v
<1> QED BY <1>1, <1>2, <1>3, <1>4

\* Another member.
LEMMA AppendTo ==
  ASSUME NEW S, NEW s \in Seq(S), NEW e
  PROVE  Append(s, e) \in Seq(S \cup {e}) /\ Last(Append(s, e)) = e
<1>1. s \in Seq(S \cup {e}) OBVIOUS
<1>2. /\ Append(s, e) \in Seq(S \cup {e}) /\ Len(Append(s, e)) = Len(s) + 1
      /\ Append(s, e)[Len(s) + 1] = e
  BY <1>1
<1> QED BY <1>2 DEF Last

-----------------------------------------------------------------------------
(***************************************************************************)
(* The static tasks.                                                       *)
(***************************************************************************)

\* What is needed whatever the conditions: not the branches.
AlwaysNeeds(flow) ==
  [n \in Nodes(flow) |->
     IF flow.steps[n].kind = "when" THEN {flow.steps[n].deps[1]} ELSE ToSet(flow.steps[n].deps)]

Always(flow) == Reachable(AlwaysNeeds(flow), flow.output)

\* A task of a module has the scope of its node, and one of a map under it that of
\* its item.
IsTask(flow, id) ==
  /\ id[1] \in Nodes(flow) /\ ScopeOf(flow, id[1]) \in Scopes
  /\ \/ flow.steps[id[1]].kind = "module" /\ id = Identity(id[1], ScopeOf(flow, id[1]))
     \/ /\ flow.steps[id[1]].kind = "map_module"
        /\ \E item : id = Identity(id[1], Append(ScopeOf(flow, id[1]), <<"item", item>>))

IsStaticTask(flow, id) ==
  IsTask(flow, id) /\ id[1] \in Always(flow) /\ flow.steps[id[1]].kind = "module"

StaticInv(flow, w) ==
  /\ IsWalk(w)
  /\ Placed(flow, StaticKids(flow), w.stack, DOMAIN w.cache)
  /\ \A k \in 1 .. Len(w.stack) : w.stack[k].node \in Always(flow)
  /\ \E C : w.calls \in Seq(C) /\ \A id \in C : IsStaticTask(flow, id)

LEMMA AlwaysType ==
  ASSUME NEW flow, IsPlan(flow)
  PROVE  /\ IsGraph(AlwaysNeeds(flow)) /\ DOMAIN AlwaysNeeds(flow) = Nodes(flow)
         /\ flow.output # 0 => flow.output \in Always(flow)
         /\ \A n \in Always(flow) : n \in Nodes(flow) /\ AlwaysNeeds(flow)[n] \subseteq Always(flow) \cup {0}
<1> DEFINE G == AlwaysNeeds(flow)
<1>1. DOMAIN G = Nodes(flow) /\ 0 \notin Nodes(flow)
  <2>1. DOMAIN G = Nodes(flow) BY DEF AlwaysNeeds
  <2> QED BY <2>1, PlanType DEF IsGraph
<1>2. \A n \in Nodes(flow) : G[n] \subseteq Nodes(flow) \cup {0}
  <2>1. ASSUME NEW n \in Nodes(flow) PROVE G[n] \subseteq Nodes(flow) \cup {0}
    <3>1. \A i \in DOMAIN flow.steps[n].deps : flow.steps[n].deps[i] \in Nodes(flow) \cup {0} BY PlanType
    <3>2. CASE flow.steps[n].kind = "when"
      <4>1. 1 \in DOMAIN flow.steps[n].deps BY <3>2, PlanType
      <4> QED BY <3>1, <3>2, <4>1 DEF AlwaysNeeds
    <3>3. CASE flow.steps[n].kind # "when" BY <3>1, <3>3 DEF AlwaysNeeds, ToSet
    <3> QED BY <3>2, <3>3
  <2> QED BY <2>1
<1>3. IsGraph(G) BY <1>1, <1>2 DEF IsGraph
<1>4. flow.output # 0 => flow.output \in Always(flow)
  <2>1. flow.output # 0 => flow.output \in DOMAIN G BY <1>1, PlanType
  <2> QED BY <2>1, ReachSelf DEF Always
<1>5. \A n \in Always(flow) : n \in Nodes(flow) /\ G[n] \subseteq Always(flow) \cup {0}
  BY <1>1, <1>3, ReachOn DEF Always
<1> QED BY <1>1, <1>3, <1>4, <1>5

LEMMA StaticStart ==
  ASSUME NEW flow, IsPlan(flow), WellScoped(flow)
  PROVE  StaticInv(flow, NewWalk(flow))
<1> DEFINE w == NewWalk(flow)
<1>1. /\ IsWalk(w) /\ w.calls = <<>> /\ DOMAIN w.cache = {}
      /\ flow.output = 0 => w.stack = <<>>
      /\ flow.output # 0 => w.stack = Append(<<>>, Frame(flow.output, <<>>))
  BY NewWalkFields
<1> HIDE DEF w
<1>2. Placed(flow, StaticKids(flow), w.stack, DOMAIN w.cache) BY <1>1, PlacedStart
<1>3. \A k \in 1 .. Len(w.stack) : w.stack[k].node \in Always(flow)
  <2>1. CASE flow.output = 0 BY <1>1, <2>1
  <2>2. CASE flow.output # 0
    <3>1. w.stack = Append(<<>>, Frame(flow.output, <<>>)) BY <1>1, <2>2
    <3>2. Len(w.stack) = 1 /\ w.stack[1] = Frame(flow.output, <<>>) BY <3>1
    <3>3. w.stack[1].node = flow.output BY <3>2 DEF Frame
    <3> QED BY <2>2, <3>2, <3>3, AlwaysType
  <2> QED BY <2>1, <2>2
<1>4. w.calls \in Seq({}) BY <1>1
<1> QED BY <1>1, <1>2, <1>3, <1>4 DEF StaticInv, w

LEMMA StaticStepInv ==
  ASSUME NEW flow, IsPlan(flow), WellScoped(flow), NEW w, StaticInv(flow, w)
  PROVE  StaticInv(flow, StaticStep(flow, w))
<1> DEFINE st == w.stack
           D == DOMAIN w.cache
           f == Last(st)
           n == f.node
           deps == flow.steps[n].deps
           K == StaticKids(flow)
<1>1. CASE st = <<>> BY <1>1 DEF StaticStep
<1>2. CASE st # <<>>
  <2>1. IsWalk(w) /\ Placed(flow, K, st, D) /\ Scoped(flow, K) /\ st \in Seq(Frames(flow))
    BY StaticScoped DEF StaticInv, Placed
  <2>2. /\ Len(st) \in Nat \ {0} /\ f = st[Len(st)] /\ n \in Nodes(flow) /\ f.next \in Nat \ {0}
        /\ f.scope \in Scopes
        /\ Len(Front(st)) = Len(st) - 1 /\ \A k \in 1 .. (Len(st) - 1) : Front(st)[k] = st[k]
    BY <1>2, <2>1, TopFrame
  <2>3. \A k \in 1 .. Len(st) : st[k].node \in Always(flow) BY DEF StaticInv
  <2>4. n \in Always(flow) BY <2>2, <2>3
  <2>5. K[n] = deps /\ Len(deps) \in Nat /\ DOMAIN deps = 1 .. Len(deps) BY <2>2, PlanType DEF StaticKids
  <2>6. f.scope = ScopeOf(flow, n)
    <3>1. Len(st) \in 1 .. Len(st) BY <2>2
    <3> QED BY <2>1, <2>2, <3>1, PlacedScope
  <2>7. PICK C : w.calls \in Seq(C) /\ \A id \in C : IsStaticTask(flow, id) BY DEF StaticInv
  <2>8. CASE f.next > Len(deps)
    <3> DEFINE id == Identity(n, f.scope)
               u == IF flow.steps[n].kind = "module" THEN Call(w, id) ELSE w
               v == Leave(u, Unresolved)
    <3>1. StaticStep(flow, w) = v BY <1>2, <2>8 DEF StaticStep, Created
    <3>2. IsWalk(u) /\ u.stack = st /\ u.cache = w.cache BY <2>1, CallFields
    <3>3. \E E : u.calls \in Seq(E) /\ \A t \in E : IsStaticTask(flow, t)
      <4>1. CASE flow.steps[n].kind = "module"
        <5>1. u.calls = Append(w.calls, id) BY <2>1, <4>1, CallFields
        <5>2. u.calls \in Seq(C \cup {id})
          <6> HIDE DEF id, u, v
          <6>1. w.calls \in Seq(C) BY <2>7
          <6>2. Append(w.calls, id) \in Seq(C \cup {id}) BY ONLY <6>1, AppendTo
          <6> QED BY <5>1, <6>2
        <5>3. id[1] = n BY DEF Identity
        <5>4. IsStaticTask(flow, id)
          BY <2>2, <2>4, <2>6, <4>1, <5>3 DEF IsStaticTask, IsTask
        <5> QED BY <2>7, <5>2, <5>4
      <4>2. CASE flow.steps[n].kind # "module" BY <2>7, <4>2
      <4> QED BY <4>1, <4>2
    <3> HIDE DEF u
    <3>4. IsWalk(v) /\ v.stack = Front(st) /\ v.calls = u.calls /\ DOMAIN v.cache = D \cup {n}
      BY <3>2, LeaveFields
    <3> HIDE DEF v
    <3>5. Placed(flow, K, v.stack, DOMAIN v.cache) BY <1>2, <2>1, <2>5, <2>8, <3>4, PlacedLeave
    <3>6. \A k \in 1 .. Len(v.stack) : v.stack[k].node \in Always(flow) BY <2>2, <2>3, <3>4
    <3> QED BY <3>1, <3>3, <3>4, <3>5, <3>6 DEF StaticInv
  <2>9. CASE ~(f.next > Len(deps))
    <3> DEFINE i == f.next
               u == Advanced(w)
               up == [st EXCEPT ![Len(st)].next = @ + 1]
    <3>1. i \in DOMAIN deps
      <4> HIDE DEF f, n, st, deps
      <4> QED BY ONLY <2>2, <2>5, <2>9
    <3>2. IsWalk(u) /\ u.stack = up /\ u.cache = w.cache /\ u.calls = w.calls BY <2>1, AdvancedFields
    <3>3. Len(up) = Len(st) /\ \A k \in 1 .. Len(st) : up[k].node = st[k].node
          /\ up \in Seq(Frames(flow))
      BY <1>2, <2>1, NextKid
    <3>4. \A k \in 1 .. Len(up) : up[k].node \in Always(flow) BY <2>3, <3>3
    <3>5. deps[i] \in Nodes(flow) \cup {0} BY <2>2, <3>1, PlanType, Zenon
    <3>6. CASE IsStatic(flow, n, i) /\ deps[i] \notin D \cup {0}
      <4> DEFINE scope == Inner(flow, n, i, f.scope)
                 kid == deps[i]
                 v == Visit(u, kid, scope)
                 to == Append(up, Frame(deps[i], scope))
      <4>1. StaticStep(flow, w) = v BY <1>2, <2>9, <3>6 DEF StaticStep
      <4>2. IsWalk(v) /\ v.calls = w.calls /\ v.cache = w.cache /\ v.stack = to
        <5>1. kid \notin DOMAIN u.cache \cup {0} BY <3>2, <3>6
        <5>2. to = Append(up, Frame(kid, scope)) OBVIOUS
        <5> HIDE DEF u, up, scope, kid, to
        <5>3. /\ IsWalk(v) /\ v.calls = u.calls /\ v.cache = u.cache
              /\ v.stack = Append(u.stack, Frame(kid, scope))
          BY <3>2, <5>1, VisitFields
        <5> QED BY <3>2, <5>2, <5>3
      <4> HIDE DEF v
      <4>3. Placed(flow, K, to, D) BY <1>2, <2>1, <2>5, <3>1, <3>5, <3>6, PlacedVisit, Zenon
      <4>4. deps[i] \in Always(flow)
        <5>1. deps[i] \in AlwaysNeeds(flow)[n]
          BY <2>2, <3>1, <3>6, Zenon DEF AlwaysNeeds, IsStatic, ToSet
        <5> QED BY <2>4, <3>6, <5>1, AlwaysType
      <4>5. \A k \in 1 .. Len(to) : to[k].node \in Always(flow)
        <5>1. Frame(deps[i], scope).node = deps[i] BY DEF Frame
        <5>2. Len(to) = Len(up) + 1 /\ to[Len(up) + 1] = Frame(deps[i], scope)
              /\ \A k \in 1 .. Len(up) : to[k] = up[k]
          BY <3>3
        <5> HIDE DEF to, up, scope
        <5>3. \A k \in 1 .. Len(to) : k \in 1 .. Len(up) \/ k = Len(up) + 1 BY <2>2, <3>3, <5>2
        <5> QED BY <3>4, <4>4, <5>1, <5>2, <5>3
      <4> HIDE DEF to
      <4> QED BY <2>7, <4>1, <4>2, <4>3, <4>5 DEF StaticInv
    <3>7. CASE ~(IsStatic(flow, n, i) /\ deps[i] \notin D \cup {0})
      <4>1. StaticStep(flow, w) = u
        <5>1. deps[i] \in D \cup {0} => Visit(u, deps[i], Inner(flow, n, i, f.scope)) = u
          BY <3>2, SMTT(30) DEF Visit
        <5> QED BY <1>2, <2>9, <3>7, <5>1, SMTT(30) DEF StaticStep
      <4>2. ~Unscoped(flow) => Passed(flow, K, D, n, i)
        <5> SUFFICES ASSUME ~Unscoped(flow), deps[i] \notin D \cup {0}
                     PROVE  flow.steps[n].kind = "when" /\ i >= 2
          BY <2>5 DEF Passed
        <5>1. ~IsStatic(flow, n, i) BY <3>7, SMTT(30)
        <5>2. InputOnly(flow, n) BY <2>2 DEF WellScoped, OrderUnscoped, Unscoped
        <5>3. flow.steps[n].kind = "map_module" => i = 1 BY <2>5, <3>1, <5>2 DEF InputOnly
        <5> QED BY <2>2, <5>1, <5>3 DEF IsStatic
      <4>3. Placed(flow, K, up, D) BY <1>2, <2>1, <4>2, PlacedAdvance
      <4> HIDE DEF u, up
      <4> QED BY <2>7, <3>2, <3>4, <4>1, <4>3 DEF StaticInv
    <3> QED BY <3>6, <3>7
  <2> QED BY <2>8, <2>9
<1> QED BY <1>1, <1>2

\* A plan has finitely many steps, and they have finitely many kids.
LEMMA StepsType ==
  ASSUME NEW flow, IsPlan(flow)
  PROVE  Steps(flow) \in Nat
<1> DEFINE T == Nodes(flow) \cup {0}
           kids == [n \in Nodes(flow) |-> Kids(flow, n)]
<1>1. Len(flow.steps) \in Nat /\ Nodes(flow) = 1 .. Len(flow.steps) BY PlanType
<1>2. ASSUME NEW n \in Nodes(flow) PROVE Kids(flow, n) \in Seq(T)
  <2>1. /\ Kids(flow, n) \in Seq(ToSet(flow.steps[n].deps))
        /\ \A i \in DOMAIN Kids(flow, n) : Kids(flow, n)[i] \in ToSet(flow.steps[n].deps)
    BY KidsType
  <2>2. ToSet(flow.steps[n].deps) \subseteq T BY PlanType DEF ToSet
  <2> QED BY <2>1, <2>2
<1>3. kids \in Seq(Seq(T)) BY <1>1, <1>2
<1> HIDE DEF kids, T
<1>4. FlattenSeq(kids) \in Seq(T) BY <1>3, FlattenType
<1>5. Len(FlattenSeq(kids)) \in Nat BY <1>4
<1> QED BY <1>1, <1>5 DEF Steps, kids

\* The walk that creates the static tasks, step by step.
StaticBody(flow, w, k) == IF k = 0 THEN NewWalk(flow) ELSE StaticStep(flow, w[k - 1])

LEMMA StaticUnfold ==
  ASSUME NEW flow, IsPlan(flow)
  PROVE  \E w : /\ \A k \in 0 .. Steps(flow) : w[k] = StaticBody(flow, w, k)
                /\ StaticWalk(flow) = w[Steps(flow)]
<1> DEFINE n == Steps(flow)
           Computes(w, m) == w = [k \in 0 .. m |-> StaticBody(flow, w, k)]
           T == {m \in 0 .. n : \E w : Computes(w, m)}
           W == CHOOSE w : Computes(w, n)
<1>1. n \in Nat BY StepsType
<1>2. ASSUME NEW m \in 0 .. n, (0 .. (m - 1)) \subseteq T PROVE m \in T
  <2>1. CASE m = 0
    <3> DEFINE g == [k \in 0 .. m |-> NewWalk(flow)]
    <3>1. \A k \in 0 .. m : StaticBody(flow, g, k) = NewWalk(flow) BY <2>1 DEF StaticBody
    <3>2. Computes(g, m) BY <3>1
    <3> QED BY <3>2
  <2>2. CASE m # 0
    <3>1. m - 1 \in 0 .. (m - 1) /\ m - 1 \in 0 .. n BY <1>1, <2>2
    <3>2. PICK f : Computes(f, m - 1) BY <1>2, <3>1
    <3> DEFINE g == [k \in 0 .. m |-> IF k = m THEN StaticStep(flow, f[m - 1]) ELSE f[k]]
    <3>3. ASSUME NEW k \in 0 .. m PROVE g[k] = StaticBody(flow, g, k)
      <4>1. CASE k = m
        <5>1. g[m - 1] = f[m - 1] BY <1>1, <2>2
        <5>2. g[k] = StaticStep(flow, f[m - 1]) BY <4>1
        <5> QED BY <2>2, <4>1, <5>1, <5>2 DEF StaticBody
      <4>2. CASE k # m
        <5>1. k \in 0 .. (m - 1) /\ g[k] = f[k] BY <4>2, <1>1
        <5>2. f[k] = StaticBody(flow, f, k) BY <3>2, <5>1
        <5>3. k # 0 => k - 1 \in 0 .. m /\ k - 1 # m BY <5>1
        <5>4. k # 0 => g[k - 1] = f[k - 1] BY <5>3
        <5> QED BY <5>1, <5>2, <5>4 DEF StaticBody
      <4> QED BY <4>1, <4>2
    <3>4. g = [k \in 0 .. m |-> g[k]] OBVIOUS
    <3> HIDE DEF g
    <3>5. Computes(g, m) BY <3>3, <3>4
    <3> QED BY <3>5
  <2> QED BY <2>1, <2>2
<1>3. 0 .. n \subseteq T
  <2> HIDE DEF T, n
  <2> QED BY <1>1, <1>2, UpTo
<1>4. n \in 0 .. n BY <1>1
<1>5. Computes(W, n)
  <2>1. \E w : Computes(w, n) BY <1>3, <1>4
  <2> QED BY <2>1
<1>6. StaticWalk(flow) = W[n] BY DEF StaticWalk, StaticBody
<1> HIDE DEF W, n
<1>7. \A k \in 0 .. n : W[k] = StaticBody(flow, W, k) BY <1>5
<1> QED BY <1>6, <1>7 DEF n

\* The static tasks of a plan are modules that it needs whatever its modules return,
\* each under the scope of its node.
LEMMA StaticSound ==
  ASSUME NEW flow, IsPlan(flow), WellScoped(flow)
  PROVE  \E C : StaticTasks(flow) \in Seq(C) /\ \A id \in C : IsStaticTask(flow, id)
<1>1. PICK w : /\ \A k \in 0 .. Steps(flow) : w[k] = StaticBody(flow, w, k)
               /\ StaticWalk(flow) = w[Steps(flow)]
  BY StaticUnfold
<1> DEFINE n == Steps(flow)
           T == {k \in 0 .. n : StaticInv(flow, w[k])}
<1>2. n \in Nat BY StepsType
<1>3. ASSUME NEW k \in 0 .. n, (0 .. (k - 1)) \subseteq T PROVE k \in T
  <2>1. CASE k = 0 BY <1>1, <2>1, StaticStart DEF StaticBody
  <2>2. CASE k # 0
    <3>1. k - 1 \in 0 .. (k - 1) BY <1>2, <2>2
    <3>2. StaticInv(flow, w[k - 1]) BY <1>3, <3>1
    <3>3. w[k] = StaticStep(flow, w[k - 1]) BY <1>1, <2>2 DEF StaticBody
    <3>4. StaticInv(flow, w[k]) BY <3>2, <3>3, StaticStepInv
    <3> QED BY <3>4
  <2> QED BY <2>1, <2>2
<1>4. 0 .. n \subseteq T
  <2> HIDE DEF T, n
  <2> QED BY <1>2, <1>3, UpTo
<1>5. n \in 0 .. n BY <1>2
<1>6. StaticInv(flow, StaticWalk(flow)) BY <1>1, <1>4, <1>5
<1> QED BY <1>6 DEF StaticInv, StaticTasks

-----------------------------------------------------------------------------
(***************************************************************************)
(* What a plan denotes.                                                    *)
(***************************************************************************)

LEMMA DepsType ==
  ASSUME NEW flow, IsPlan(flow), NEW n \in Nodes(flow)
  PROVE  LET deps == flow.steps[n].deps IN
         /\ DOMAIN deps = 1 .. Len(deps) /\ Len(deps) \in Nat /\ n \in Nat \ {0}
         /\ \A i \in DOMAIN deps : deps[i] \in 0 .. (n - 1)
         /\ flow.steps[n].kind = "when" => DOMAIN deps = 1 .. 3
         /\ flow.steps[n].kind = "map_module" => 1 \in DOMAIN deps
<1> DEFINE deps == flow.steps[n].deps
<1>1. /\ n \in Nat \ {0} /\ deps \in Seq(0 .. (n - 1)) /\ Len(deps) \in Nat /\ DOMAIN deps = 1 .. Len(deps)
      /\ flow.steps[n].kind = "when" => Len(deps) = 3
  BY PlanType
<1>2. flow.steps[n].kind = "map_module" => deps # <<>> BY PlanType DEF IsPlan
<1> HIDE DEF deps
<1>3. \A i \in DOMAIN deps : deps[i] \in 0 .. (n - 1) BY <1>1
<1>4. deps # <<>> => 1 \in DOMAIN deps BY <1>1
<1> QED BY <1>1, <1>2, <1>3, <1>4 DEF deps

\* A condition selects one of the two branches.
LEMMA SelectedType ==
  ASSUME NEW condition
  PROVE  Selected(condition) \in {2, 3}
BY DEF Selected

\* The value of a node rests on the values of earlier nodes only.
LEMMA MeaningLocal ==
  ASSUME NEW flow, IsPlan(flow), NEW A, NEW seed, NEW n \in 0 .. Len(flow.steps),
         NEW f, NEW g, \A m \in 0 .. (n - 1) : f[m] = g[m]
  PROVE  MeaningIn(flow, A, seed, f, n) = MeaningIn(flow, A, seed, g, n)
<1> DEFINE deps == flow.steps[n].deps
<1>1. CASE n = 0 BY <1>1 DEF MeaningIn
<1>2. CASE n # 0
  <2>1. n \in Nodes(flow) BY <1>2, PlanType
  <2>2. /\ \A i \in DOMAIN deps : f[deps[i]] = g[deps[i]]
        /\ flow.steps[n].kind = "when" => DOMAIN deps = 1 .. 3
        /\ flow.steps[n].kind = "map_module" => 1 \in DOMAIN deps
    BY <2>1, DepsType
  <2>3. flow.steps[n].kind \in StepKinds BY <2>1, PlanType
  <2>4. CASE flow.steps[n].kind = "module" BY <1>2, <2>4 DEF MeaningIn
  <2>5. CASE flow.steps[n].kind = "parallel"
    <3>1. [i \in DOMAIN deps |-> f[deps[i]]] = [i \in DOMAIN deps |-> g[deps[i]]] BY <2>2
    <3> QED BY <1>2, <2>5, <3>1 DEF MeaningIn
  <2>6. CASE flow.steps[n].kind = "when"
    <3>1. Selected(f[deps[1]]) \in {2, 3} BY SelectedType
    <3>2. f[deps[1]] = g[deps[1]] BY <2>2, <2>6
    <3>3. f[deps[Selected(f[deps[1]])]] = g[deps[Selected(f[deps[1]])]] BY <2>2, <2>6, <3>1
    <3> QED BY <1>2, <2>6, <3>2, <3>3 DEF MeaningIn
  <2>7. CASE flow.steps[n].kind = "map_module"
    <3>1. f[deps[1]] = g[deps[1]] BY <2>2, <2>7
    <3> QED BY <1>2, <2>7, <3>1 DEF MeaningIn
  <2> QED BY <2>3, <2>4, <2>5, <2>6, <2>7 DEF StepKinds, Executable
<1> QED BY <1>1, <1>2

\* The values of the nodes are those that their steps give them.
LEMMA DenoteUnfold ==
  ASSUME NEW flow, IsPlan(flow), NEW A, NEW seed
  PROVE  \E of : \A n \in 0 .. Len(flow.steps) :
           /\ of[n] = MeaningIn(flow, A, seed, of, n)
           /\ Denote(flow, A, seed, n) = of[n]
<1> DEFINE n == Len(flow.steps)
           Computes(f, m) == f = [k \in 0 .. m |-> MeaningIn(flow, A, seed, f, k)]
           T == {m \in 0 .. n : \E f : Computes(f, m)}
           W == CHOOSE f : Computes(f, n)
<1>1. n \in Nat BY PlanType
<1>2. ASSUME NEW m \in 0 .. n, (0 .. (m - 1)) \subseteq T PROVE m \in T
  <2>1. PICK f : \A k \in 0 .. (m - 1) : f[k] = MeaningIn(flow, A, seed, f, k)
    <3>1. CASE m = 0
      <4>1. 0 .. (m - 1) = {} BY <3>1
      <4> QED BY <4>1
    <3>2. CASE m # 0
      <4>1. m - 1 \in 0 .. (m - 1) BY <1>1, <3>2
      <4>2. PICK f : Computes(f, m - 1) BY <1>2, <4>1
      <4>3. \A k \in 0 .. (m - 1) : f[k] = MeaningIn(flow, A, seed, f, k) BY <4>2
      <4> QED BY <4>3
    <3> QED BY <3>1, <3>2
  <2> DEFINE g == [k \in 0 .. m |-> IF k = m THEN MeaningIn(flow, A, seed, f, m) ELSE f[k]]
  <2>2. ASSUME NEW k \in 0 .. m PROVE g[k] = MeaningIn(flow, A, seed, g, k)
    <3>1. k \in 0 .. Len(flow.steps) /\ k \in Nat BY <1>1
    <3>2. \A j \in 0 .. (k - 1) : f[j] = g[j] BY <1>1
    <3> HIDE DEF g
    <3>3. MeaningIn(flow, A, seed, f, k) = MeaningIn(flow, A, seed, g, k) BY <3>1, <3>2, MeaningLocal
    <3>4. k # m => k \in 0 .. (m - 1) BY <1>1
    <3>5. g[k] = IF k = m THEN MeaningIn(flow, A, seed, f, m) ELSE f[k] BY DEF g
    <3> QED BY <2>1, <3>3, <3>4, <3>5
  <2>3. g = [k \in 0 .. m |-> g[k]] OBVIOUS
  <2> HIDE DEF g
  <2>4. Computes(g, m) BY <2>2, <2>3
  <2> QED BY <2>4
<1>3. 0 .. n \subseteq T
  <2> HIDE DEF T, n
  <2> QED BY <1>1, <1>2, UpTo
<1>4. n \in 0 .. n BY <1>1
<1>5. Computes(W, n)
  <2>1. \E f : Computes(f, n) BY <1>3, <1>4
  <2> QED BY <2>1
<1>6. \A m : Denote(flow, A, seed, m) = W[m] BY DEF Denote
<1> HIDE DEF W
<1>7. \A k \in 0 .. n : W[k] = MeaningIn(flow, A, seed, W, k) BY <1>5
<1> QED BY <1>6, <1>7

\* The value of a map, told with its input.
MapMeaning(A, n, input) ==
  LET items == Items[input.value] IN
  IF input.ok THEN Joined([i \in DOMAIN items |-> OneOf(A, ItemTask(A, n, items[i]))])
  ELSE Unresolved

LEMMA MeaningInMap ==
  ASSUME NEW flow, NEW A, NEW seed, NEW of, NEW n, n # 0, flow.steps[n].kind = "map_module",
         NEW input, input = of[flow.steps[n].deps[1]]
  PROVE  MeaningIn(flow, A, seed, of, n) = MapMeaning(A, n, input)
BY DEF MeaningIn, MapMeaning

\* The value of n, told with the values of the nodes that it depends on.
MeaningAt(flow, A, seed, n) ==
  LET deps == flow.steps[n].deps
      input == Denote(flow, A, seed, deps[1])
  IN
  /\ flow.steps[n].kind = "module" =>
       Denote(flow, A, seed, n) = OneOf(A, OutputsOf(A, n))
  /\ flow.steps[n].kind = "parallel" =>
       Denote(flow, A, seed, n) = Joined([i \in DOMAIN deps |-> Denote(flow, A, seed, deps[i])])
  /\ flow.steps[n].kind = "when" =>
       Denote(flow, A, seed, n) =
         IF input.ok THEN Denote(flow, A, seed, deps[Selected(input)]) ELSE Unresolved
  /\ flow.steps[n].kind = "map_module" =>
       Denote(flow, A, seed, n) = MapMeaning(A, n, input)

LEMMA DenoteIs ==
  ASSUME NEW flow, IsPlan(flow), NEW A, NEW seed
  PROVE  /\ Denote(flow, A, seed, 0) = Known(seed)
         /\ \A n \in Nodes(flow) : MeaningAt(flow, A, seed, n)
<1>1. PICK of : \A n \in 0 .. Len(flow.steps) :
        of[n] = MeaningIn(flow, A, seed, of, n) /\ Denote(flow, A, seed, n) = of[n]
  BY DenoteUnfold
<1>2. Len(flow.steps) \in Nat /\ Nodes(flow) = 1 .. Len(flow.steps) BY PlanType
<1>3. Denote(flow, A, seed, 0) = Known(seed)
  <2>1. MeaningIn(flow, A, seed, of, 0) = Known(seed) BY DEF MeaningIn
  <2>2. 0 \in 0 .. Len(flow.steps) BY <1>2
  <2> QED BY <1>1, <2>1, <2>2
<1>4. ASSUME NEW n \in Nodes(flow) PROVE MeaningAt(flow, A, seed, n)
  <2> DEFINE deps == flow.steps[n].deps
  <2>1. n # 0 /\ n \in 0 .. Len(flow.steps) BY <1>2
  <2>2. /\ \A i \in DOMAIN deps : of[deps[i]] = Denote(flow, A, seed, deps[i])
        /\ flow.steps[n].kind = "when" => DOMAIN deps = 1 .. 3
        /\ flow.steps[n].kind = "map_module" => 1 \in DOMAIN deps
    <3>1. \A i \in DOMAIN deps : deps[i] \in 0 .. Len(flow.steps)
      <4>1. n \in Nat /\ \A i \in DOMAIN deps : deps[i] \in 0 .. (n - 1) BY DepsType
      <4> QED BY <1>2, <4>1
    <3> QED BY <1>1, <3>1, DepsType
  <2>3. Denote(flow, A, seed, n) = MeaningIn(flow, A, seed, of, n) BY <1>1, <2>1
  <2>4. CASE flow.steps[n].kind = "module" BY <2>1, <2>3, <2>4 DEF MeaningIn, MeaningAt
  <2>5. CASE flow.steps[n].kind = "parallel"
    <3>1. [i \in DOMAIN deps |-> of[deps[i]]] = [i \in DOMAIN deps |-> Denote(flow, A, seed, deps[i])]
      BY <2>2
    <3> QED BY <2>1, <2>3, <2>5, <3>1 DEF MeaningIn, MeaningAt
  <2>6. CASE flow.steps[n].kind = "when"
    <3>1. Selected(of[deps[1]]) \in {2, 3} BY SelectedType
    <3>2. of[deps[1]] = Denote(flow, A, seed, deps[1]) BY <2>2, <2>6
    <3>3. of[deps[Selected(of[deps[1]])]] = Denote(flow, A, seed, deps[Selected(of[deps[1]])])
      BY <2>2, <2>6, <3>1
    <3> QED BY <2>1, <2>3, <2>6, <3>2, <3>3 DEF MeaningIn, MeaningAt
  <2>7. CASE flow.steps[n].kind = "map_module"
    <3>1. of[deps[1]] = Denote(flow, A, seed, deps[1]) BY <2>2, <2>7
    <3>2. MeaningIn(flow, A, seed, of, n) = MapMeaning(A, n, Denote(flow, A, seed, deps[1]))
      BY <2>1, <2>7, <3>1, MeaningInMap
    <3> QED BY <2>3, <2>7, <3>2 DEF MeaningAt
  <2>8. flow.steps[n].kind \in StepKinds BY PlanType
  <2> QED BY <2>4, <2>5, <2>6, <2>7, <2>8 DEF StepKinds, Executable
<1> QED BY <1>3, <1>4

LEMMA DenoteModule ==
  ASSUME NEW flow, IsPlan(flow), NEW A, NEW seed, NEW n \in Nodes(flow),
         flow.steps[n].kind = "module"
  PROVE  Denote(flow, A, seed, n) = OneOf(A, OutputsOf(A, n))
<1>1. MeaningAt(flow, A, seed, n) BY DenoteIs
<1> QED BY <1>1 DEF MeaningAt

LEMMA DenoteParallel ==
  ASSUME NEW flow, IsPlan(flow), NEW A, NEW seed, NEW n \in Nodes(flow),
         flow.steps[n].kind = "parallel"
  PROVE  Denote(flow, A, seed, n) =
           Joined([i \in DOMAIN flow.steps[n].deps |-> Denote(flow, A, seed, flow.steps[n].deps[i])])
<1>1. MeaningAt(flow, A, seed, n) BY DenoteIs
<1> QED BY <1>1 DEF MeaningAt

LEMMA DenoteWhen ==
  ASSUME NEW flow, IsPlan(flow), NEW A, NEW seed, NEW n \in Nodes(flow),
         flow.steps[n].kind = "when"
  PROVE  LET deps == flow.steps[n].deps
             test == Denote(flow, A, seed, deps[1])
         IN  Denote(flow, A, seed, n) =
               IF test.ok THEN Denote(flow, A, seed, deps[Selected(test)]) ELSE Unresolved
<1>1. MeaningAt(flow, A, seed, n) BY DenoteIs
<1> QED BY <1>1 DEF MeaningAt

LEMMA DenoteMap ==
  ASSUME NEW flow, IsPlan(flow), NEW A, NEW seed, NEW n \in Nodes(flow),
         flow.steps[n].kind = "map_module"
  PROVE  Denote(flow, A, seed, n) = MapMeaning(A, n, Denote(flow, A, seed, flow.steps[n].deps[1]))
<1>1. MeaningAt(flow, A, seed, n) BY DenoteIs
<1> QED BY <1>1 DEF MeaningAt

-----------------------------------------------------------------------------
(***************************************************************************)
(* Accepted results.  A module has one task and a map one per item, so     *)
(* that what a plan denotes stays as it is when more tasks are accepted.   *)
(***************************************************************************)

AllTasks(flow, A) == \A id \in DOMAIN A : IsTask(flow, id)

\* More tasks are accepted in B than in A.
Extends(A, B) == DOMAIN A \subseteq DOMAIN B /\ \A id \in DOMAIN A : B[id] = A[id]

\* A task of a map is the one of its item.
LEMMA TaskOfItem ==
  ASSUME NEW flow, NEW id, IsTask(flow, id), flow.steps[id[1]].kind = "map_module"
  PROVE  /\ Last(id[2]) = <<"item", Last(id[2])[2]>>
         /\ id = Identity(id[1], Append(ScopeOf(flow, id[1]), Last(id[2])))
<1> DEFINE n == id[1]
           s == ScopeOf(flow, n)
<1>1. PICK item : id = Identity(n, Append(s, <<"item", item>>)) BY DEF IsTask
<1>2. s \in Scopes BY DEF IsTask
<1> HIDE DEF s, n
<1>3. id[2] = Append(s, <<"item", item>>) BY <1>1 DEF Identity
<1>4. Last(Append(s, <<"item", item>>)) = <<"item", item>>
  <2>1. s \in Seq({"parallel", "branch"} \X Nat) BY <1>2 DEF Scopes
  <2> HIDE DEF n
  <2> QED BY <2>1, AppendTo
<1>5. Last(id[2]) = <<"item", item>> BY <1>3, <1>4
<1> QED BY <1>1, <1>5 DEF n, s

LEMMA OneTask ==
  ASSUME NEW flow, NEW i, NEW j, IsTask(flow, i), IsTask(flow, j), i[1] = j[1], i # j
  PROVE  flow.steps[i[1]].kind = "map_module" /\ Last(i[2])[2] # Last(j[2])[2]
<1>1. CASE flow.steps[i[1]].kind = "module"
  <2>1. i = Identity(i[1], ScopeOf(flow, i[1])) /\ j = Identity(j[1], ScopeOf(flow, j[1]))
    BY <1>1 DEF IsTask
  <2> QED BY <2>1
<1>2. CASE flow.steps[i[1]].kind # "module"
  <2>1. flow.steps[i[1]].kind = "map_module" BY <1>2 DEF IsTask
  <2>2. ASSUME Last(i[2])[2] = Last(j[2])[2] PROVE FALSE
    <3>1. /\ Last(i[2]) = <<"item", Last(i[2])[2]>>
          /\ i = Identity(i[1], Append(ScopeOf(flow, i[1]), Last(i[2])))
          /\ Last(j[2]) = <<"item", Last(j[2])[2]>>
          /\ j = Identity(j[1], Append(ScopeOf(flow, j[1]), Last(j[2])))
      BY <2>1, TaskOfItem
    <3>2. Last(i[2]) = Last(j[2]) BY <2>2, <3>1
    <3> QED BY <3>1, <3>2
  <2> QED BY <2>1, <2>2
<1> QED BY <1>1, <1>2

LEMMA ModuleOutput ==
  ASSUME NEW flow, NEW A, AllTasks(flow, A), NEW id \in DOMAIN A, flow.steps[id[1]].kind = "module"
  PROVE  OneOf(A, OutputsOf(A, id[1])) = Known(A[id])
<1>1. OutputsOf(A, id[1]) = {id}
  <2>1. \A j \in OutputsOf(A, id[1]) : j = id BY OneTask DEF AllTasks, OutputsOf
  <2>2. id \in OutputsOf(A, id[1]) BY DEF OutputsOf
  <2> QED BY <2>1, <2>2
<1>2. (CHOOSE j \in {id} : TRUE) = id OBVIOUS
<1> QED BY <1>1, <1>2 DEF OneOf

LEMMA ItemOutput ==
  ASSUME NEW flow, NEW A, AllTasks(flow, A), NEW id \in DOMAIN A, flow.steps[id[1]].kind = "map_module",
         NEW item, Last(id[2]) = <<"item", item>>
  PROVE  OneOf(A, ItemTask(A, id[1], item)) = Known(A[id])
<1>1. ItemTask(A, id[1], item) = {id}
  <2>1. ASSUME NEW j \in ItemTask(A, id[1], item) PROVE j = id
    <3>1. j \in DOMAIN A /\ j[1] = id[1] /\ Last(j[2]) = <<"item", item>> BY DEF ItemTask, OutputsOf
    <3>2. Last(j[2])[2] = Last(id[2])[2] BY <3>1
    <3>3. IsTask(flow, j) /\ IsTask(flow, id) BY <3>1 DEF AllTasks
    <3> QED BY <3>1, <3>2, <3>3, OneTask
  <2>2. id \in ItemTask(A, id[1], item) BY DEF ItemTask, OutputsOf
  <2> QED BY <2>1, <2>2
<1>2. (CHOOSE j \in {id} : TRUE) = id OBVIOUS
<1> QED BY <1>1, <1>2 DEF OneOf

\* What a set of tasks gives is the output of one of them.
LEMMA OneOfIs ==
  ASSUME NEW A, NEW ids, OneOf(A, ids).ok
  PROVE  ids # {} /\ \E id \in ids : OneOf(A, ids) = Known(A[id])
<1>1. ids # {} BY DEF OneOf, Unresolved
<1>2. (CHOOSE id \in ids : TRUE) \in ids BY <1>1
<1> QED BY <1>1, <1>2 DEF OneOf

\* What is collected depends on the values alone.
LEMMA JoinedSame ==
  ASSUME NEW r, NEW s, DOMAIN r = DOMAIN s, Joined(r).ok,
         \A i \in DOMAIN r : r[i].ok => s[i].ok /\ s[i].value = r[i].value
  PROVE  AllResolved(r) /\ AllResolved(s) /\ Joined(s) = Joined(r)
<1>1. AllResolved(r) BY DEF Joined, Unresolved
<1>2. AllResolved(s) BY <1>1 DEF AllResolved
<1>3. ValuesOf(s) = ValuesOf(r) BY <1>1 DEF ValuesOf, AllResolved
<1> QED BY <1>1, <1>2, <1>3 DEF Joined

LEMMA DenoteGrows ==
  ASSUME NEW flow, IsPlan(flow), NEW A, NEW B, AllTasks(flow, B), Extends(A, B), NEW seed,
         NEW n \in Nodes(flow) \cup {0}, Denote(flow, A, seed, n).ok
  PROVE  Denote(flow, B, seed, n) = Denote(flow, A, seed, n)
<1> DEFINE N == Len(flow.steps)
           a(m) == Denote(flow, A, seed, m)
           b(m) == Denote(flow, B, seed, m)
           T == {m \in 0 .. N : a(m).ok => b(m) = a(m)}
<1>1. N \in Nat /\ Nodes(flow) = 1 .. N BY PlanType
<1>2. AllTasks(flow, A) BY DEF AllTasks, Extends
<1>3. ASSUME NEW m \in 0 .. N, (0 .. (m - 1)) \subseteq T PROVE m \in T
  <2> SUFFICES ASSUME a(m).ok PROVE b(m) = a(m) OBVIOUS
  <2>1. CASE m = 0 BY <2>1, DenoteIs
  <2>2. CASE m # 0
    <3> DEFINE deps == flow.steps[m].deps
               step == flow.steps[m]
    <3>1. m \in Nodes(flow) BY <1>1, <2>2
    <3>2. /\ \A i \in DOMAIN deps : a(deps[i]).ok => b(deps[i]) = a(deps[i])
          /\ step.kind = "when" => DOMAIN deps = 1 .. 3
          /\ step.kind = "map_module" => 1 \in DOMAIN deps
      BY <3>1, <1>3, DepsType
    <3>3. CASE step.kind = "module"
      <4>1. a(m) = OneOf(A, OutputsOf(A, m)) /\ b(m) = OneOf(B, OutputsOf(B, m))
        BY <3>1, <3>3, DenoteModule
      <4>2. PICK id \in OutputsOf(A, m) : a(m) = Known(A[id])
        <5> HIDE DEF a
        <5> QED BY <4>1, OneOfIs
      <4>3. id \in DOMAIN A /\ id \in DOMAIN B /\ id[1] = m /\ B[id] = A[id]
        BY DEF OutputsOf, Extends
      <4>4. OneOf(B, OutputsOf(B, id[1])) = Known(B[id]) BY <3>3, <4>3, ModuleOutput
      <4> QED BY <4>1, <4>2, <4>3, <4>4
    <3>4. CASE step.kind = "parallel"
      <4> DEFINE r == [i \in DOMAIN deps |-> a(deps[i])]
                 s == [i \in DOMAIN deps |-> b(deps[i])]
      <4>1. a(m) = Joined(r) /\ b(m) = Joined(s) BY <3>1, <3>4, DenoteParallel
      <4>2. /\ DOMAIN r = DOMAIN s
            /\ \A i \in DOMAIN r : r[i].ok => s[i].ok /\ s[i].value = r[i].value
        <5> HIDE DEF a, b
        <5> QED BY <3>2
      <4> HIDE DEF a, b, r, s
      <4> QED BY <4>1, <4>2, JoinedSame
    <3>5. CASE step.kind = "when"
      <4>1. /\ a(m) = IF a(deps[1]).ok THEN a(deps[Selected(a(deps[1]))]) ELSE Unresolved
            /\ b(m) = IF b(deps[1]).ok THEN b(deps[Selected(b(deps[1]))]) ELSE Unresolved
        BY <3>1, <3>5, DenoteWhen
      <4> HIDE DEF a, b
      <4>2. Selected(a(deps[1])) \in {2, 3} BY SelectedType
      <4>3. a(deps[1]).ok BY <4>1 DEF Unresolved
      <4>4. b(deps[1]) = a(deps[1]) BY <3>2, <3>5, <4>3
      <4>5. a(m) = a(deps[Selected(a(deps[1]))]) BY <4>1, <4>3
      <4>6. b(m) = b(deps[Selected(a(deps[1]))]) BY <4>1, <4>3, <4>4
      <4>7. Selected(a(deps[1])) \in DOMAIN deps BY <3>2, <3>5, <4>2
      <4> QED BY <3>2, <4>5, <4>6, <4>7, Zenon
    <3>6. CASE step.kind = "map_module"
      <4>1. a(m) = MapMeaning(A, m, a(deps[1])) /\ b(m) = MapMeaning(B, m, b(deps[1]))
        BY <3>1, <3>6, DenoteMap
      <4> HIDE DEF a, b
      <4>2. a(deps[1]).ok
        <5> SUFFICES ASSUME ~a(deps[1]).ok PROVE FALSE OBVIOUS
        <5>1. a(m) = Unresolved BY <4>1, Zenon DEF MapMeaning
        <5> QED BY <5>1 DEF Unresolved
      <4>3. b(deps[1]) = a(deps[1]) BY <3>2, <3>6, <4>2
      <4> PICK items : items = Items[a(deps[1]).value] OBVIOUS
      <4> DEFINE r == [i \in DOMAIN items |-> OneOf(A, ItemTask(A, m, items[i]))]
                 s == [i \in DOMAIN items |-> OneOf(B, ItemTask(B, m, items[i]))]
      <4>4. a(m) = Joined(r) /\ b(m) = Joined(s) BY <4>1, <4>2, <4>3, Zenon DEF MapMeaning
      <4>5. ASSUME NEW i \in DOMAIN items, OneOf(A, ItemTask(A, m, items[i])).ok
            PROVE  OneOf(B, ItemTask(B, m, items[i])) = OneOf(A, ItemTask(A, m, items[i]))
        <5>1. PICK id \in ItemTask(A, m, items[i]) :
                OneOf(A, ItemTask(A, m, items[i])) = Known(A[id])
          BY <4>5, OneOfIs, Zenon
        <5>2. id \in DOMAIN A /\ id \in DOMAIN B /\ id[1] = m /\ B[id] = A[id]
              /\ Last(id[2]) = <<"item", items[i]>>
          BY DEF ItemTask, OutputsOf, Extends
        <5>3. AllTasks(flow, B) /\ flow.steps[id[1]].kind = "map_module" BY <3>6, <5>2, Zenon
        <5>4. OneOf(B, ItemTask(B, id[1], items[i])) = Known(B[id]) BY ONLY <5>2, <5>3, ItemOutput
        <5> QED BY ONLY <5>1, <5>2, <5>4
      <4>6. /\ DOMAIN r = DOMAIN s
            /\ \A i \in DOMAIN r : r[i].ok => s[i].ok /\ s[i].value = r[i].value
        BY <4>5, Zenon
      <4> HIDE DEF r, s
      <4> QED BY <4>4, <4>6, JoinedSame
    <3>7. step.kind \in StepKinds BY <3>1, PlanType
    <3> QED BY <3>3, <3>4, <3>5, <3>6, <3>7 DEF StepKinds, Executable
  <2> QED BY <2>1, <2>2
<1>4. 0 .. N \subseteq T
  <2> HIDE DEF T, N
  <2> QED BY <1>1, <1>3, UpTo
<1>5. n \in T BY <1>1, <1>4
<1> QED BY <1>5

-----------------------------------------------------------------------------
(***************************************************************************)
(* What a plan needs.                                                      *)
(***************************************************************************)

NeedsOf(flow, A, seed) == [m \in Nodes(flow) |-> Needs(flow, A, seed, m)]

LEMMA NeedsIs ==
  ASSUME NEW flow, NEW A, NEW seed, NEW n \in Nodes(flow)
  PROVE  LET deps == flow.steps[n].deps
             test == Denote(flow, A, seed, deps[1])
         IN
         /\ NeedsOf(flow, A, seed)[n] = Needs(flow, A, seed, n)
         /\ flow.steps[n].kind # "when" => Needs(flow, A, seed, n) = ToSet(deps)
         /\ flow.steps[n].kind = "when" =>
              /\ test.ok => Needs(flow, A, seed, n) = {deps[1], deps[Selected(test)]}
              /\ ~test.ok => Needs(flow, A, seed, n) = {deps[1]}
BY DEF Needs, NeedsOf

LEMMA NeedsType ==
  ASSUME NEW flow, IsPlan(flow), NEW A, NEW seed
  PROVE  /\ IsGraph(NeedsOf(flow, A, seed)) /\ DOMAIN NeedsOf(flow, A, seed) = Nodes(flow)
         /\ \A n \in Nodes(flow) : Needs(flow, A, seed, n) \subseteq ToSet(flow.steps[n].deps)
         /\ \A n : Demanded(flow, A, seed, n) = Reachable(NeedsOf(flow, A, seed), n)
<1>1. DOMAIN NeedsOf(flow, A, seed) = Nodes(flow) BY DEF NeedsOf
<1>2. ASSUME NEW n \in Nodes(flow)
      PROVE  Needs(flow, A, seed, n) \subseteq ToSet(flow.steps[n].deps)
  <2> DEFINE deps == flow.steps[n].deps
             test == Denote(flow, A, seed, deps[1])
  <2>1. CASE flow.steps[n].kind # "when" BY <2>1, NeedsIs
  <2>2. CASE flow.steps[n].kind = "when"
    <3>1. DOMAIN deps = 1 .. 3 BY <2>2, DepsType
    <3>2. Selected(test) \in {2, 3} BY SelectedType
    <3>3. deps[1] \in ToSet(deps) /\ deps[Selected(test)] \in ToSet(deps)
      <4> HIDE DEF test
      <4> QED BY <3>1, <3>2 DEF ToSet
    <3> QED BY <2>2, <3>3, NeedsIs
  <2> QED BY <2>1, <2>2
<1>3. \A n \in Nodes(flow) : ToSet(flow.steps[n].deps) \subseteq Nodes(flow) \cup {0}
  BY PlanType DEF ToSet
<1>4. 0 \notin Nodes(flow) BY PlanType
<1>5. IsGraph(NeedsOf(flow, A, seed)) BY <1>1, <1>2, <1>3, <1>4, NeedsIs DEF IsGraph
<1>6. \A n : Demanded(flow, A, seed, n) = Reachable(NeedsOf(flow, A, seed), n)
  BY DEF Demanded, NeedsOf
<1> QED BY <1>1, <1>2, <1>5, <1>6

\* What a needed node needs is needed.
LEMMA DemandedNeeds ==
  ASSUME NEW flow, IsPlan(flow), NEW A, NEW seed
  PROVE  /\ flow.output # 0 => flow.output \in Demanded(flow, A, seed, flow.output)
         /\ \A n \in Demanded(flow, A, seed, flow.output) :
              n \in Nodes(flow)
              /\ Needs(flow, A, seed, n) \subseteq Demanded(flow, A, seed, flow.output) \cup {0}
<1> DEFINE G == NeedsOf(flow, A, seed)
           D == Demanded(flow, A, seed, flow.output)
<1>1. IsGraph(G) /\ DOMAIN G = Nodes(flow) /\ D = Reachable(G, flow.output) BY NeedsType
<1>2. \A n \in Nodes(flow) : G[n] = Needs(flow, A, seed, n) BY NeedsIs
<1>3. flow.output \in Nodes(flow) \cup {0} BY PlanType
<1> HIDE DEF G, D
<1>4. flow.output # 0 => flow.output \in D BY <1>1, <1>3, ReachSelf
<1>5. \A n \in D : n \in Nodes(flow) /\ G[n] \subseteq D \cup {0} BY <1>1, ReachOn
<1> QED BY <1>2, <1>4, <1>5 DEF D

\* Nodes that are needed stay needed when more is accepted.
LEMMA DemandedGrows ==
  ASSUME NEW flow, IsPlan(flow), NEW A, NEW B, AllTasks(flow, B), Extends(A, B), NEW seed
  PROVE  Demanded(flow, A, seed, flow.output) \subseteq Demanded(flow, B, seed, flow.output)
<1> DEFINE G == NeedsOf(flow, A, seed)
           H == NeedsOf(flow, B, seed)
<1>1. ASSUME NEW n \in Nodes(flow) PROVE G[n] \subseteq H[n]
  <2> DEFINE deps == flow.steps[n].deps
             a == Denote(flow, A, seed, deps[1])
             b == Denote(flow, B, seed, deps[1])
  <2>1. CASE flow.steps[n].kind # "when" BY <2>1, NeedsIs
  <2>2. CASE flow.steps[n].kind = "when"
    <3>1. deps[1] \in Nodes(flow) \cup {0}
      <4>1. DOMAIN deps = 1 .. 3 BY <2>2, DepsType
      <4>2. \A i \in DOMAIN deps : deps[i] \in Nodes(flow) \cup {0} BY PlanType
      <4> QED BY <4>1, <4>2
    <3>2. a.ok => b = a BY <3>1, DenoteGrows
    <3>3. /\ G[n] = Needs(flow, A, seed, n) /\ H[n] = Needs(flow, B, seed, n)
          /\ a.ok => Needs(flow, A, seed, n) = {deps[1], deps[Selected(a)]}
          /\ ~a.ok => Needs(flow, A, seed, n) = {deps[1]}
          /\ b.ok => Needs(flow, B, seed, n) = {deps[1], deps[Selected(b)]}
          /\ ~b.ok => Needs(flow, B, seed, n) = {deps[1]}
      BY <2>2, NeedsIs
    <3> HIDE DEF a, b, G, H, deps
    <3> QED BY <3>2, <3>3
  <2> QED BY <2>1, <2>2
<1>2. /\ DOMAIN G = Nodes(flow) /\ DOMAIN H = Nodes(flow)
      /\ Demanded(flow, A, seed, flow.output) = Reachable(G, flow.output)
      /\ Demanded(flow, B, seed, flow.output) = Reachable(H, flow.output)
  BY NeedsType
<1> HIDE DEF G, H
<1>3. Reachable(G, flow.output) \subseteq Reachable(H, flow.output) BY <1>1, <1>2, ReachGrows
<1> QED BY <1>2, <1>3

\* The nodes of the static tasks are needed whatever is accepted.
LEMMA AlwaysDemanded ==
  ASSUME NEW flow, IsPlan(flow), NEW A, NEW seed
  PROVE  Always(flow) \subseteq Demanded(flow, A, seed, flow.output)
<1> DEFINE G == AlwaysNeeds(flow)
           H == NeedsOf(flow, A, seed)
<1>1. ASSUME NEW n \in Nodes(flow) PROVE G[n] \subseteq H[n]
  <2> DEFINE deps == flow.steps[n].deps
  <2>1. CASE flow.steps[n].kind # "when"
    <3>1. G[n] = ToSet(deps) BY <2>1 DEF AlwaysNeeds
    <3> QED BY <2>1, <3>1, NeedsIs
  <2>2. CASE flow.steps[n].kind = "when"
    <3>1. G[n] = {deps[1]} BY <2>2 DEF AlwaysNeeds
    <3> QED BY <2>2, <3>1, NeedsIs
  <2> QED BY <2>1, <2>2
<1>2. /\ DOMAIN G = Nodes(flow) /\ DOMAIN H = Nodes(flow)
      /\ Demanded(flow, A, seed, flow.output) = Reachable(H, flow.output)
      /\ Always(flow) = Reachable(G, flow.output)
  BY NeedsType, AlwaysType DEF Always
<1> HIDE DEF G, H
<1>3. Reachable(G, flow.output) \subseteq Reachable(H, flow.output) BY <1>1, <1>2, ReachGrows
<1> QED BY <1>2, <1>3

-----------------------------------------------------------------------------
(***************************************************************************)
(* What a walk asks for.                                                   *)
(***************************************************************************)

AcceptedIn(rows) ==
  [id \in {i \in DOMAIN rows : rows[i].status = "SUCCEEDED"} |-> rows[id].output]

\* A snapshot of the tasks of a plan.
SnapOK(flow, snap) ==
  /\ snap.root \in Values
  /\ \A id \in DOMAIN snap.tasks :
       /\ IsTask(flow, id)
       /\ snap.tasks[id].status = "SUCCEEDED" => snap.tasks[id].output \in Values

\* A task may be released with an input when its node is needed, all that the node
\* depends on is accepted, and this is what the accepted results give.
Released(flow, A, seed, id, input) ==
  LET step == flow.steps[id[1]]
      Meanings(nodes) == [i \in DOMAIN nodes |-> Denote(flow, A, seed, nodes[i])]
      item == Last(id[2])[2]
  IN  /\ id[1] \in Demanded(flow, A, seed, flow.output)
      /\ AllResolved(Meanings(step.deps))
      /\ input = IF step.kind = "module" THEN BoundValue(Meanings(step.data)) ELSE item
      /\ step.kind = "map_module" =>
           item \in ToSet(Items[Denote(flow, A, seed, step.deps[1]).value])

\* A run may end with a value when it is that of the output, and all that is needed
\* is accepted.
Complete(flow, A, seed, value) ==
  /\ Denote(flow, A, seed, flow.output).ok /\ Denote(flow, A, seed, flow.output).value = value
  /\ \A n \in Demanded(flow, A, seed, flow.output) : Denote(flow, A, seed, n).ok

CallSound(flow, snap, c) ==
  LET A == AcceptedIn(snap.tasks) IN
  /\ c.op \in {"enqueue", "ready", "decide", "fail", "count"}
  /\ c.op \in {"enqueue", "ready"} =>
       IsTask(flow, c.id) /\ Released(flow, A, snap.root, c.id, c.record.input)
  /\ c.op = "ready" => c.id \in DOMAIN snap.tasks
  /\ c.op = "count" => Complete(flow, A, snap.root, c.output)

CallsSound(flow, snap, calls) ==
  \E C : calls \in Seq(C) /\ \A c \in C : CallSound(flow, snap, c)

LEMMA AcceptedTasks ==
  ASSUME NEW flow, NEW snap, SnapOK(flow, snap)
  PROVE  /\ AllTasks(flow, AcceptedIn(snap.tasks))
         /\ \A id \in DOMAIN AcceptedIn(snap.tasks) : AcceptedIn(snap.tasks)[id] \in Values
BY DEF SnapOK, AllTasks, AcceptedIn

LEMMA CallsAppend ==
  ASSUME NEW flow, NEW snap, NEW calls, CallsSound(flow, snap, calls), NEW c, CallSound(flow, snap, c)
  PROVE  CallsSound(flow, snap, Append(calls, c))
<1>1. PICK C : calls \in Seq(C) /\ \A d \in C : CallSound(flow, snap, d) BY DEF CallsSound
<1>2. Append(calls, c) \in Seq(C \cup {c}) BY <1>1, AppendTo
<1> QED BY <1>1, <1>2 DEF CallsSound

LEMMA CallsConcat ==
  ASSUME NEW flow, NEW snap, NEW calls, CallsSound(flow, snap, calls),
         NEW more, CallsSound(flow, snap, more)
  PROVE  CallsSound(flow, snap, calls \o more)
<1>1. PICK C : calls \in Seq(C) /\ \A d \in C : CallSound(flow, snap, d) BY DEF CallsSound
<1>2. PICK E : more \in Seq(E) /\ \A d \in E : CallSound(flow, snap, d) BY DEF CallsSound
<1>3. calls \in Seq(C \cup E) /\ more \in Seq(C \cup E) BY <1>1, <1>2
<1>4. calls \o more \in Seq(C \cup E) BY <1>3
<1> QED BY <1>1, <1>2, <1>4 DEF CallsSound

LEMMA CallsFlatten ==
  ASSUME NEW flow, NEW snap, NEW s, NEW k \in Nat, s = [i \in 1 .. k |-> s[i]],
         \A i \in 1 .. k : CallsSound(flow, snap, s[i])
  PROVE  CallsSound(flow, snap, FlattenSeq(s))
<1> DEFINE C == UNION {ToSet(s[i]) : i \in 1 .. k}
<1>1. ASSUME NEW i \in 1 .. k
      PROVE  s[i] \in Seq(C) /\ \A c \in ToSet(s[i]) : CallSound(flow, snap, c)
  <2>1. PICK E : s[i] \in Seq(E) /\ \A c \in E : CallSound(flow, snap, c) BY DEF CallsSound
  <2>2. Len(s[i]) \in Nat /\ DOMAIN s[i] = 1 .. Len(s[i]) /\ \A j \in DOMAIN s[i] : s[i][j] \in E
    BY <2>1
  <2>3. s[i] \in Seq(ToSet(s[i])) BY <2>1, <2>2 DEF ToSet
  <2>4. ToSet(s[i]) \subseteq C OBVIOUS
  <2>5. \A c \in ToSet(s[i]) : CallSound(flow, snap, c) BY <2>1, <2>2 DEF ToSet
  <2> HIDE DEF C
  <2> QED BY <2>3, <2>4, <2>5
<1>2. \A c \in C : CallSound(flow, snap, c) BY <1>1
<1> HIDE DEF C
<1>3. s \in Seq(Seq(C)) BY <1>1
<1>4. FlattenSeq(s) \in Seq(C) BY <1>3, FlattenType
<1> QED BY <1>2, <1>4 DEF CallsSound

LEMMA CallsIn ==
  ASSUME NEW flow, NEW snap, NEW C, \A c \in C : CallSound(flow, snap, c), NEW calls \in Seq(C)
  PROVE  CallsSound(flow, snap, calls)
BY DEF CallsSound

\* No call.
LEMMA CallsNone ==
  ASSUME NEW flow, NEW snap
  PROVE  CallsSound(flow, snap, <<>>)
<1>1. <<>> \in Seq({}) OBVIOUS
<1> QED BY <1>1, CallsIn

LEMMA TaskCallsSound ==
  ASSUME NEW flow, NEW snap, NEW id, IsTask(flow, id), NEW record,
         Released(flow, AcceptedIn(snap.tasks), snap.root, id, record.input)
  PROVE  CallsSound(flow, snap, TaskCalls(snap, id, record))
<1> DEFINE e == [op |-> "enqueue", id |-> id, record |-> record]
           r == [op |-> "ready", id |-> id, record |-> record]
<1>1. CASE StatusIn(snap, id) = "ABSENT"
  <2>1. e.op = "enqueue" /\ e.id = id /\ e.record = record OBVIOUS
  <2> HIDE DEF e
  <2>2. CallSound(flow, snap, e) BY <2>1 DEF CallSound
  <2>3. CallsSound(flow, snap, Append(<<>>, e)) BY <2>2, CallsNone, CallsAppend
  <2>4. Append(<<>>, e) = <<e>> OBVIOUS
  <2>5. TaskCalls(snap, id, record) = <<e>> BY <1>1 DEF TaskCalls, e
  <2> QED BY <2>3, <2>4, <2>5
<1>2. CASE StatusIn(snap, id) = "BLOCKED"
  <2>1. r.op = "ready" /\ r.id = id /\ r.record = record OBVIOUS
  <2> HIDE DEF r
  <2>2. id \in DOMAIN snap.tasks BY <1>2 DEF StatusIn
  <2>3. CallSound(flow, snap, r) BY <2>1, <2>2 DEF CallSound
  <2>4. CallsSound(flow, snap, Append(<<>>, r)) BY <2>3, CallsNone, CallsAppend
  <2>5. Append(<<>>, r) = <<r>> OBVIOUS
  <2>6. TaskCalls(snap, id, record) = <<r>> BY <1>2 DEF TaskCalls, r
  <2> QED BY <2>4, <2>5, <2>6
<1>3. CASE StatusIn(snap, id) \notin {"ABSENT", "BLOCKED"}
  <2>1. TaskCalls(snap, id, record) = <<>> BY <1>3 DEF TaskCalls
  <2> QED BY <2>1, CallsNone
<1> QED BY <1>1, <1>2, <1>3

\* v is w with more calls, that are sound.
Onward(flow, snap, w, v) ==
  IsWalk(v) /\ v.stack = w.stack /\ v.cache = w.cache /\ CallsSound(flow, snap, v.calls)

LEMMA AskSound ==
  ASSUME NEW flow, NEW snap, NEW w, IsWalk(w), CallsSound(flow, snap, w.calls),
         NEW k \in Nat, NEW ids, DOMAIN ids = 1 .. k, NEW records,
         \A i \in 1 .. k : /\ IsTask(flow, ids[i])
                           /\ Released(flow, AcceptedIn(snap.tasks), snap.root, ids[i], records[i].input)
  PROVE  Onward(flow, snap, w, Ask(snap, w, ids, records))
<1> DEFINE v == Ask(snap, w, ids, records)
           s == [i \in 1 .. k |-> IF Asked(snap, ids, i) THEN TaskCalls(snap, ids[i], records[i]) ELSE <<>>]
<1>1. /\ IsWalk(v) /\ v.stack = w.stack /\ v.cache = w.cache
      /\ v.calls = w.calls \o FlattenSeq(s)
  BY DEF Ask, IsWalk
<1>2. ASSUME NEW i \in 1 .. k PROVE CallsSound(flow, snap, s[i])
  <2>1. CallsSound(flow, snap, TaskCalls(snap, ids[i], records[i])) BY TaskCallsSound
  <2>2. s[i] = IF Asked(snap, ids, i) THEN TaskCalls(snap, ids[i], records[i]) ELSE <<>> OBVIOUS
  <2> HIDE DEF s
  <2> QED BY <2>1, <2>2, CallsNone
<1>3. s = [i \in 1 .. k |-> s[i]] OBVIOUS
<1> HIDE DEF s
<1>4. CallsSound(flow, snap, FlattenSeq(s)) BY <1>2, <1>3, CallsFlatten
<1>5. CallsSound(flow, snap, v.calls) BY <1>1, <1>4, CallsConcat
<1> QED BY <1>1, <1>5 DEF Onward

-----------------------------------------------------------------------------
(***************************************************************************)
(* The results of a walk are what the plan denotes.                        *)
(***************************************************************************)

\* Nodes whose results are values, and among them all conditions and what maps
\* iterate over.
IsPlain(flow, plain) ==
  /\ plain \in SUBSET (0 .. Len(flow.steps))
  /\ \A m \in plain \ {0} :
       LET step == flow.steps[m] IN
       \/ step.kind = "module"
       \/ step.kind = "when" /\ {step.deps[2], step.deps[3]} \subseteq plain
  /\ \A m \in 1 .. Len(flow.steps) :
       flow.steps[m].kind \in {"when", "map_module"} => flow.steps[m].deps[1] \in plain

Plain(flow) == CHOOSE plain : IsPlain(flow, plain)

LEMMA PlainType ==
  ASSUME NEW flow, IsPlan(flow)
  PROVE  IsPlain(flow, Plain(flow))
<1>1. \E plain : IsPlain(flow, plain) BY DEF IsPlan, IsPlain
<1> QED BY <1>1 DEF Plain

\* A result of n, in a walk that has cached the nodes it rests on.
ResultSound(flow, snap, cache, n, result) ==
  LET A == AcceptedIn(snap.tasks)
      d == Denote(flow, A, snap.root, n)
  IN  result.ok =>
        /\ d.ok /\ d.value = result.value
        /\ \A m \in Needs(flow, A, snap.root, n) : m = 0 \/ (m \in DOMAIN cache /\ cache[m].ok)
        /\ n \in Plain(flow) => result.value \in Values

\* The stack goes down to nodes that are not cached.
Descends(st, D) ==
  \A k \in 1 .. Len(st) : st[k].node \notin D /\ \A j \in 1 .. (k - 1) : st[k].node < st[j].node

WalkInv(flow, snap, w) ==
  /\ IsWalk(w)
  /\ Placed(flow, WalkKids(flow), w.stack, DOMAIN w.cache)
  /\ Descends(w.stack, DOMAIN w.cache)
  /\ \A n \in DOMAIN w.cache : ResultSound(flow, snap, w.cache, n, w.cache[n])
  /\ \A k \in 1 .. Len(w.stack) :
       w.stack[k].node \in Demanded(flow, AcceptedIn(snap.tasks), snap.root, flow.output)
  /\ CallsSound(flow, snap, w.calls)

\* The result of a node agrees with what the node denotes.
Agrees(flow, snap, w, n) ==
  LET d == Denote(flow, AcceptedIn(snap.tasks), snap.root, n)
      result == ResultOf(w, snap.root, n)
  IN  /\ d.ok /\ d.value = result.value
      /\ n = 0 \/ (n \in DOMAIN w.cache /\ w.cache[n].ok)
      /\ n \in Plain(flow) => result.value \in Values

LEMMA ResultOfSound ==
  ASSUME NEW flow, IsPlan(flow), NEW snap, SnapOK(flow, snap), NEW w, WalkInv(flow, snap, w),
         NEW n, ResultOf(w, snap.root, n).ok
  PROVE  Agrees(flow, snap, w, n)
<1>1. CASE n = 0
  <2>1. ResultOf(w, snap.root, n) = Known(snap.root) BY <1>1 DEF ResultOf, Known
  <2>2. Denote(flow, AcceptedIn(snap.tasks), snap.root, n) = Known(snap.root) BY <1>1, DenoteIs
  <2>3. Known(snap.root).ok /\ Known(snap.root).value \in Values BY DEF Known, Resolved, SnapOK
  <2> QED BY <1>1, <2>1, <2>2, <2>3 DEF Agrees
<1>2. CASE n # 0
  <2>1. n \in DOMAIN w.cache /\ ResultOf(w, snap.root, n) = w.cache[n]
    BY <1>2 DEF ResultOf, Unresolved
  <2>2. ResultSound(flow, snap, w.cache, n, w.cache[n]) BY <2>1 DEF WalkInv
  <2> QED BY <2>1, <2>2 DEF ResultSound, Agrees
<1> QED BY <1>1, <1>2

\* A step that has no result.
LEMMA UnresolvedSound ==
  ASSUME NEW flow, NEW snap, NEW cache, NEW n
  PROVE  ResultSound(flow, snap, cache, n, Unresolved)
BY DEF ResultSound, Unresolved

\* The fields of a result.
LEMMA ResolvedFields ==
  ASSUME NEW value, NEW keys, NEW decisions
  PROVE  Resolved(value, keys, decisions).ok /\ Resolved(value, keys, decisions).value = value
BY DEF Resolved

LEMMA KnownFields ==
  ASSUME NEW value
  PROVE  Known(value).ok /\ Known(value).value = value
BY DEF Known, Resolved

LEMMA ParallelSound ==
  ASSUME NEW flow, IsPlan(flow), NEW snap, SnapOK(flow, snap), NEW w, WalkInv(flow, snap, w),
         NEW n \in Nodes(flow), flow.steps[n].kind = "parallel"
  PROVE  ResultSound(flow, snap, w.cache, n, Join(ResultsOf(w, snap.root, flow.steps[n].deps)))
<1> DEFINE deps == flow.steps[n].deps
           A == AcceptedIn(snap.tasks)
           r == ResultsOf(w, snap.root, deps)
           s == [i \in DOMAIN deps |-> Denote(flow, A, snap.root, deps[i])]
           d == Denote(flow, A, snap.root, n)
<1> SUFFICES ASSUME Join(r).ok
             PROVE  /\ d.ok /\ d.value = Join(r).value
                    /\ \A m \in Needs(flow, A, snap.root, n) :
                         m = 0 \/ (m \in DOMAIN w.cache /\ w.cache[m].ok)
                    /\ n \notin Plain(flow)
  BY DEF ResultSound
<1>1. AllResolved(r) BY DEF Join, Unresolved
<1>2. \A i \in DOMAIN deps : ResultOf(w, snap.root, deps[i]).ok BY <1>1 DEF ResultsOf, AllResolved
<1>3. \A i \in DOMAIN deps :
        /\ s[i].ok /\ s[i].value = r[i].value
        /\ deps[i] = 0 \/ (deps[i] \in DOMAIN w.cache /\ w.cache[deps[i]].ok)
  <2>1. \A i \in DOMAIN deps : Agrees(flow, snap, w, deps[i]) BY <1>2, ResultOfSound
  <2> QED BY <2>1, Zenon DEF Agrees, ResultsOf
<1>4. d = Joined(s) BY DenoteParallel
<1>5. Join(r).value = ValuesOf(r) BY <1>1, ResolvedFields DEF Join
<1>6. Needs(flow, A, snap.root, n) = ToSet(deps) BY NeedsIs
<1>7. n \notin Plain(flow)
  <2>1. n # 0 BY DepsType
  <2> QED BY <2>1, PlainType DEF IsPlain
<1>8. DOMAIN r = DOMAIN deps /\ DOMAIN s = DOMAIN deps BY DEF ResultsOf
<1> HIDE DEF r, s, d
<1>9. AllResolved(s) /\ ValuesOf(s) = ValuesOf(r)
  BY <1>3, <1>8 DEF AllResolved, ValuesOf
<1>10. d = Known(ValuesOf(r)) BY <1>4, <1>9 DEF Joined
<1>11. d.ok /\ d.value = Join(r).value BY <1>5, <1>10, KnownFields
<1> HIDE DEF deps
<1>12. \A m \in ToSet(deps) : m = 0 \/ (m \in DOMAIN w.cache /\ w.cache[m].ok)
  BY <1>3 DEF ToSet
<1> QED BY <1>6, <1>7, <1>11, <1>12

LEMMA WhenSound ==
  ASSUME NEW flow, IsPlan(flow), NEW snap, SnapOK(flow, snap), NEW w, WalkInv(flow, snap, w),
         NEW n \in Nodes(flow), flow.steps[n].kind = "when"
  PROVE  ResultSound(flow, snap, w.cache, n, BranchResult(flow, snap, w, n))
<1> DEFINE A == AcceptedIn(snap.tasks)
           d == Denote(flow, A, snap.root, n)
           result == BranchResult(flow, snap, w, n)
<1> SUFFICES ASSUME result.ok
             PROVE  /\ d.ok /\ d.value = result.value
                    /\ \A m \in Needs(flow, A, snap.root, n) :
                         m = 0 \/ (m \in DOMAIN w.cache /\ w.cache[m].ok)
                    /\ n \in Plain(flow) => result.value \in Values
  BY DEF ResultSound
<1>a. PICK deps : deps = flow.steps[n].deps OBVIOUS
<1>b. PICK condition : condition = ResultOf(w, snap.root, deps[1]) OBVIOUS
<1>c. PICK i : i = Selected(condition) OBVIOUS
<1>d. PICK branch : branch = ResultOf(w, snap.root, deps[i]) OBVIOUS
<1>e. PICK test : test = Denote(flow, A, snap.root, deps[1]) OBVIOUS
<1>f. i \in {2, 3} BY <1>c, SelectedType
<1>1. condition.ok /\ branch.ok /\ result.value = branch.value
  <2>1. result = IF ~condition.ok \/ ~branch.ok THEN Unresolved
                 ELSE Resolved(branch.value, Unique(condition.keys \o branch.keys),
                               condition.decisions \o branch.decisions \o <<<<n, i>>>>)
    BY <1>a, <1>b, <1>c, <1>d, Zenon DEF BranchResult
  <2> HIDE DEF result
  <2>2. condition.ok /\ branch.ok BY <2>1 DEF Unresolved
  <2> QED BY <2>1, <2>2, ResolvedFields
<1> HIDE DEF A, d, result
<1>2. test.ok /\ test.value = condition.value
      /\ (deps[1] = 0 \/ (deps[1] \in DOMAIN w.cache /\ w.cache[deps[1]].ok))
  <2>1. Agrees(flow, snap, w, deps[1]) BY <1>1, <1>b, ResultOfSound
  <2> QED BY <1>b, <1>e, <2>1 DEF Agrees, A
<1>3. Selected(test) = i BY <1>2, <1>c DEF Selected
<1>4. /\ d.ok /\ d.value = branch.value
      /\ deps[i] = 0 \/ (deps[i] \in DOMAIN w.cache /\ w.cache[deps[i]].ok)
      /\ deps[i] \in Plain(flow) => branch.value \in Values
  <2>1. Agrees(flow, snap, w, deps[i]) BY <1>1, <1>d, ResultOfSound
  <2>2. d = IF test.ok THEN Denote(flow, A, snap.root, deps[Selected(test)]) ELSE Unresolved
    BY <1>a, <1>e, DenoteWhen DEF d
  <2>3. d = Denote(flow, A, snap.root, deps[i]) BY <1>2, <1>3, <2>2
  <2> QED BY <1>d, <2>1, <2>3 DEF Agrees, A
<1>5. Needs(flow, A, snap.root, n) = {deps[1], deps[i]}
  <2>1. test.ok => Needs(flow, A, snap.root, n) = {deps[1], deps[Selected(test)]}
    BY <1>a, <1>e, NeedsIs
  <2> QED BY <1>2, <1>3, <2>1
<1>6. n \in Plain(flow) => deps[i] \in Plain(flow)
  <2>1. n # 0 BY DepsType
  <2>2. n \in Plain(flow) => {deps[2], deps[3]} \subseteq Plain(flow)
    BY <1>a, <2>1, PlainType DEF IsPlain
  <2> QED BY <1>f, <2>2
<1> QED BY <1>1, <1>2, <1>4, <1>5, <1>6

\* A function of 1 .. k is a sequence.
LEMMA FunctionSeq ==
  ASSUME NEW k \in Nat, NEW s, s = [i \in 1 .. k |-> s[i]]
  PROVE  s \in Seq({s[i] : i \in 1 .. k}) /\ Len(s) = k
OBVIOUS

LEMMA ConcatResolved ==
  ASSUME NEW j \in Nat, NEW k \in Nat, NEW s, s = [i \in 1 .. j |-> s[i]],
         NEW t, t = [i \in 1 .. k |-> t[i]], AllResolved(s \o t)
  PROVE  AllResolved(s) /\ AllResolved(t)
<1> DEFINE S == {s[i] : i \in 1 .. j} \cup {t[i] : i \in 1 .. k}
<1>1. s \in Seq({s[i] : i \in 1 .. j}) /\ Len(s) = j /\ t \in Seq({t[i] : i \in 1 .. k}) /\ Len(t) = k
  BY FunctionSeq
<1>2. s \in Seq(S) /\ t \in Seq(S) BY <1>1
<1> HIDE DEF S
<1>3. /\ s \o t \in Seq(S) /\ Len(s \o t) = j + k
      /\ \A i \in 1 .. j : (s \o t)[i] = s[i]
      /\ \A i \in 1 .. k : (s \o t)[j + i] = t[i]
  BY <1>1, <1>2
<1>4. \A i \in 1 .. j : i \in DOMAIN (s \o t) BY <1>3
<1>5. \A i \in 1 .. k : j + i \in DOMAIN (s \o t) BY <1>3
<1>6. DOMAIN s = 1 .. j /\ DOMAIN t = 1 .. k BY <1>1
<1>7. \A i \in 1 .. j : s[i].ok BY <1>3, <1>4 DEF AllResolved
<1>8. ASSUME NEW i \in 1 .. k PROVE t[i].ok
  <2>1. (s \o t)[j + i].ok BY <1>5 DEF AllResolved
  <2>2. (s \o t)[j + i] = t[i] BY <1>3
  <2> QED BY <2>1, <2>2
<1> QED BY <1>6, <1>7, <1>8 DEF AllResolved

\* A binding passes the same value on when it is bound to the same values.
LEMMA BoundSame ==
  ASSUME NEW k \in Nat, NEW r, r = [i \in 1 .. k |-> r[i]], NEW s, s = [i \in 1 .. k |-> s[i]],
         \A i \in 1 .. k : s[i].value = r[i].value
  PROVE  BoundValue(s) = BoundValue(r)
<1>1. Len(r) = k /\ Len(s) = k BY FunctionSeq
<1>2. DOMAIN r = 1 .. k /\ DOMAIN s = 1 .. k OBVIOUS
<1>3. ValuesOf(s) = ValuesOf(r) BY <1>2 DEF ValuesOf
<1>4. k = 1 => s[1].value = r[1].value OBVIOUS
<1> QED BY <1>1, <1>3, <1>4 DEF BoundValue

\* A step with an input has the results of all that it depends on.
Denoted(flow, A, seed, nodes) == [i \in DOMAIN nodes |-> Denote(flow, A, seed, nodes[i])]

SourceFine(flow, snap, w, n) ==
  LET A == AcceptedIn(snap.tasks)
      step == flow.steps[n]
  IN  /\ \A i \in DOMAIN step.deps : ResultOf(w, snap.root, step.deps[i]).ok
      /\ Source(flow, snap, w, n).value = BoundValue(Denoted(flow, A, snap.root, DataOf(flow, n)))
      /\ AllResolved(Denoted(flow, A, snap.root, step.deps))
      /\ \A m \in Needs(flow, A, snap.root, n) : m = 0 \/ (m \in DOMAIN w.cache /\ w.cache[m].ok)

LEMMA SourceSound ==
  ASSUME NEW flow, IsPlan(flow), NEW snap, SnapOK(flow, snap), NEW w, WalkInv(flow, snap, w),
         NEW n \in Nodes(flow), flow.steps[n].kind \in Executable, Source(flow, snap, w, n).ok
  PROVE  SourceFine(flow, snap, w, n)
<1> DEFINE deps == flow.steps[n].deps
           data == DataOf(flow, n)
           A == AcceptedIn(snap.tasks)
           bound == ResultsOf(w, snap.root, data)
           order == OrderResults(flow, w, snap.root, n)
           means == Denoted(flow, A, snap.root, data)
<1>1. /\ Len(deps) \in Nat /\ DOMAIN deps = 1 .. Len(deps)
      /\ Len(data) \in Nat /\ DOMAIN data = 1 .. Len(data)
  BY KidsType
<1>2. AllResolved(bound \o order) BY DEF Source, Unresolved
<1>3. Source(flow, snap, w, n).value = BoundValue(bound) BY <1>2, ResolvedFields DEF Source
<1>4. bound = [i \in 1 .. Len(data) |-> bound[i]] /\ order = [i \in 1 .. Len(deps) |-> order[i]]
  BY <1>1 DEF ResultsOf, OrderResults
<1>5. AllResolved(bound) /\ AllResolved(order)
  <2> HIDE DEF bound, order, data, deps
  <2> QED BY <1>1, <1>2, <1>4, ConcatResolved
<1>6. \A i \in DOMAIN data : ResultOf(w, snap.root, data[i]).ok
  BY <1>5 DEF ResultsOf, AllResolved
<1>7. ASSUME NEW i \in DOMAIN deps PROVE ResultOf(w, snap.root, deps[i]).ok
  <2>1. CASE OnlyOrders(flow, n, i)
    <3>1. i \in DOMAIN order /\ order[i] = ResultOf(w, snap.root, deps[i]) BY <2>1 DEF OrderResults
    <3> HIDE DEF order
    <3> QED BY <1>5, <3>1 DEF AllResolved
  <2>2. CASE ~OnlyOrders(flow, n, i)
    <3>1. deps[i] \in ToSet(data) BY <2>2 DEF OnlyOrders
    <3>2. PICK j \in DOMAIN data : data[j] = deps[i]
      <4> HIDE DEF data, deps
      <4> QED BY <3>1 DEF ToSet
    <3> QED BY <1>6, <3>2
  <2> QED BY <2>1, <2>2
<1>8. \A i \in DOMAIN deps :
        LET d == Denote(flow, A, snap.root, deps[i]) IN
        d.ok /\ (deps[i] = 0 \/ (deps[i] \in DOMAIN w.cache /\ w.cache[deps[i]].ok))
  <2>1. \A i \in DOMAIN deps : Agrees(flow, snap, w, deps[i]) BY <1>7, ResultOfSound
  <2> QED BY <2>1 DEF Agrees
<1>9. \A i \in DOMAIN data : means[i].value = bound[i].value
  <2>1. \A i \in DOMAIN data : Agrees(flow, snap, w, data[i]) BY <1>6, ResultOfSound
  <2>2. ASSUME NEW i \in DOMAIN data PROVE means[i].value = bound[i].value
    <3>1. /\ means[i] = Denote(flow, A, snap.root, data[i])
          /\ bound[i] = ResultOf(w, snap.root, data[i])
      BY DEF Denoted, ResultsOf
    <3>2. Agrees(flow, snap, w, data[i]) BY <2>1
    <3> QED BY <3>1, <3>2 DEF Agrees
  <2> QED BY <2>2
<1>10. means = [i \in 1 .. Len(data) |-> means[i]] BY <1>1 DEF Denoted
<1>11. BoundValue(means) = BoundValue(bound)
  <2>1. \A i \in 1 .. Len(data) : means[i].value = bound[i].value BY <1>1, <1>9
  <2>2. bound = [i \in 1 .. Len(data) |-> bound[i]] BY <1>4
  <2>3. Len(data) \in Nat BY <1>1
  <2> HIDE DEF bound, means, data
  <2> QED BY ONLY <1>10, <2>1, <2>2, <2>3, BoundSame, SMTT(30)
<1>12. AllResolved(Denoted(flow, A, snap.root, deps))
  BY <1>8 DEF AllResolved, Denoted
<1>13. \A m \in Needs(flow, A, snap.root, n) : m = 0 \/ (m \in DOMAIN w.cache /\ w.cache[m].ok)
  <2>1. Needs(flow, A, snap.root, n) \subseteq ToSet(deps) BY NeedsType
  <2> HIDE DEF deps
  <2> QED BY <1>8, <2>1 DEF ToSet
<1> HIDE DEF means, bound
<1>14. Source(flow, snap, w, n).value = BoundValue(means) BY <1>3, <1>11
<1> QED BY <1>7, <1>12, <1>13, <1>14 DEF SourceFine, means

\* How a step ends that has looked at all its kids: with calls that are sound, and
\* by raising or with a result that is.
Ends(flow, snap, w, n, v) ==
  \E u : /\ Onward(flow, snap, w, u)
         /\ v = Raise(u) \/ \E result : v = Leave(u, result) /\ ResultSound(flow, snap, w.cache, n, result)

LEMMA TaskResultIs ==
  ASSUME NEW snap, NEW id, TaskResult(snap, id).ok
  PROVE  LET A == AcceptedIn(snap.tasks) IN id \in DOMAIN A /\ TaskResult(snap, id).value = A[id]
<1>1. StatusIn(snap, id) = "SUCCEEDED" BY DEF TaskResult, Unresolved
<1>2. id \in DOMAIN snap.tasks /\ snap.tasks[id].status = "SUCCEEDED" BY <1>1 DEF StatusIn
<1>3. TaskResult(snap, id).value = snap.tasks[id].output BY <1>1, ResolvedFields DEF TaskResult
<1> QED BY <1>2, <1>3 DEF AcceptedIn

\* The release of a task whose node has its input.
LEMMA ReleasedFrom ==
  ASSUME NEW flow, NEW snap, NEW w, NEW id, SourceFine(flow, snap, w, id[1]), NEW input,
         id[1] \in Demanded(flow, AcceptedIn(snap.tasks), snap.root, flow.output),
         LET n == id[1]
             item == Last(id[2])[2]
             test == Denote(flow, AcceptedIn(snap.tasks), snap.root, flow.steps[n].deps[1])
         IN  \/ /\ flow.steps[n].kind = "module" /\ DataOf(flow, n) = flow.steps[n].data
                /\ input = Source(flow, snap, w, n).value
             \/ /\ flow.steps[n].kind = "map_module" /\ input = item
                /\ item \in ToSet(Items[test.value])
  PROVE  Released(flow, AcceptedIn(snap.tasks), snap.root, id, input)
<1> DEFINE A == AcceptedIn(snap.tasks)
           n == id[1]
           step == flow.steps[n]
           item == Last(id[2])[2]
<1>1. AllResolved(Denoted(flow, A, snap.root, step.deps)) BY DEF SourceFine
<1>2. input = IF step.kind = "module" THEN BoundValue(Denoted(flow, A, snap.root, step.data)) ELSE item
  BY DEF SourceFine
<1>3. step.kind = "map_module" =>
        item \in ToSet(Items[Denote(flow, A, snap.root, step.deps[1]).value])
  OBVIOUS
<1> QED BY <1>1, <1>2, <1>3, Zenon DEF Released, Denoted

\* The task of a module: one per node, under the scope of the node.
LEMMA ModuleEnds ==
  ASSUME NEW flow, IsPlan(flow), NEW snap, SnapOK(flow, snap), NEW w, WalkInv(flow, snap, w),
         NEW n \in Nodes(flow), flow.steps[n].kind = "module", Source(flow, snap, w, n).ok,
         NEW f, f.node = n, f.scope = ScopeOf(flow, n), f.scope \in Scopes,
         n \in Demanded(flow, AcceptedIn(snap.tasks), snap.root, flow.output)
  PROVE  Ends(flow, snap, w, n, FinishModule(snap, w, f, Source(flow, snap, w, n)))
<1> DEFINE A == AcceptedIn(snap.tasks)
           source == Source(flow, snap, w, n)
           id == Identity(n, f.scope)
           ids == <<id>>
           record == Record(source.value, source, source.decisions \o Inherited(w, f.scope))
           records == <<record>>
           u == Ask(snap, w, ids, records)
           result == TaskResult(snap, id)
           d == Denote(flow, A, snap.root, n)
<1>1. FinishModule(snap, w, f, source) = Answered(snap, u, ids, result) BY DEF FinishModule
<1>2. id[1] = n /\ IsTask(flow, id) BY DEF IsTask, Identity
<1>3. record.input = source.value BY DEF Record
<1>4. DataOf(flow, n) = flow.steps[n].data BY DEF DataOf
<1>5. flow.steps[n].kind \in Executable /\ flow.steps[n].kind # "map_module" BY DEF Executable
<1>6. Released(flow, A, snap.root, id, record.input)
  <2>1. SourceFine(flow, snap, w, n) BY <1>5, SourceSound
  <2> HIDE DEF id, record
  <2> QED BY <1>2, <1>3, <1>4, <2>1, ReleasedFrom, Zenon
<1>7. IsWalk(w) /\ CallsSound(flow, snap, w.calls) BY DEF WalkInv
<1>8. DOMAIN ids = 1 .. 1 /\ ids[1] = id /\ records[1] = record OBVIOUS
<1>9. Onward(flow, snap, w, u)
  <2> HIDE DEF ids, records, id, record
  <2>1. \A i \in 1 .. 1 : i = 1 OBVIOUS
  <2>2. \A i \in 1 .. 1 : IsTask(flow, ids[i]) /\ Released(flow, A, snap.root, ids[i], records[i].input)
    BY <1>2, <1>6, <1>8, <2>1
  <2>3. 1 \in Nat OBVIOUS
  <2> QED BY <1>7, <1>8, <2>2, <2>3, AskSound
<1>10. ResultSound(flow, snap, w.cache, n, result)
  <2> SUFFICES ASSUME result.ok
               PROVE  /\ d.ok /\ d.value = result.value /\ result.value \in Values
                      /\ \A m \in Needs(flow, A, snap.root, n) :
                           m = 0 \/ (m \in DOMAIN w.cache /\ w.cache[m].ok)
    BY DEF ResultSound
  <2> HIDE DEF id
  <2>1. id \in DOMAIN A /\ result.value = A[id] BY TaskResultIs
  <2>2. AllTasks(flow, A) /\ A[id] \in Values BY <2>1, AcceptedTasks
  <2>3. OneOf(A, OutputsOf(A, id[1])) = Known(A[id]) BY <1>2, <2>1, <2>2, ModuleOutput
  <2>4. d = OneOf(A, OutputsOf(A, n)) BY DenoteModule
  <2>5. d = Known(A[id]) BY <1>2, <2>3, <2>4
  <2>6. d.ok /\ d.value = A[id] BY <2>5, KnownFields
  <2>7. \A m \in Needs(flow, A, snap.root, n) : m = 0 \/ (m \in DOMAIN w.cache /\ w.cache[m].ok)
    <3>1. SourceFine(flow, snap, w, n) BY <1>5, SourceSound
    <3> QED BY <3>1 DEF SourceFine
  <2> QED BY <2>1, <2>2, <2>6, <2>7
<1> HIDE DEF u, ids, result, source
<1> QED BY <1>1, <1>9, <1>10 DEF Answered, Ends, source

LEMMA DecideSound ==
  ASSUME NEW flow, NEW snap, NEW w, IsWalk(w), CallsSound(flow, snap, w.calls), NEW n, NEW decision
  PROVE  Onward(flow, snap, w, Decide(snap, w, n, decision))
<1> DEFINE c == [op |-> "decide", node |-> n, decision |-> decision]
<1>1. c.op = "decide" OBVIOUS
<1>2. Decide(snap, w, n, decision) \in {w, Call(w, c)} BY DEF Decide
<1> HIDE DEF c
<1>3. CallSound(flow, snap, c) BY <1>1 DEF CallSound
<1>4. CallsSound(flow, snap, Append(w.calls, c)) BY <1>3, CallsAppend
<1>5. /\ IsWalk(Call(w, c)) /\ Call(w, c).stack = w.stack /\ Call(w, c).cache = w.cache
      /\ Call(w, c).calls = Append(w.calls, c)
  BY CallFields
<1>6. Onward(flow, snap, w, w) BY DEF Onward
<1>7. Onward(flow, snap, w, Call(w, c)) BY <1>4, <1>5 DEF Onward
<1> QED BY <1>2, <1>6, <1>7

\* ids are the tasks of the items of a map, and results what they have given so far.
ItemTasks(flow, n, items, ids) ==
  /\ DOMAIN ids = DOMAIN items
  /\ \A i \in DOMAIN items :
       IsTask(flow, ids[i]) /\ ids[i][1] = n /\ Last(ids[i][2]) = <<"item", items[i]>>

TaskResults(snap, ids, results) ==
  DOMAIN results = DOMAIN ids /\ \A i \in DOMAIN ids : results[i] = TaskResult(snap, ids[i])

\* The result of a map is that of its items.
LEMMA ItemsSound ==
  ASSUME NEW flow, IsPlan(flow), NEW snap, SnapOK(flow, snap),
         NEW n \in Nodes(flow), flow.steps[n].kind = "map_module",
         NEW items, NEW ids, ItemTasks(flow, n, items, ids),
         NEW decisions, NEW results, TaskResults(snap, ids, results),
         NEW result, result = JoinItems(results, decisions), result.ok,
         NEW test, test = Denote(flow, AcceptedIn(snap.tasks), snap.root, flow.steps[n].deps[1]),
         test.ok, items = Items[test.value],
         NEW d, d = Denote(flow, AcceptedIn(snap.tasks), snap.root, n)
  PROVE  d.ok /\ d.value = result.value
<1>a. PICK A : A = AcceptedIn(snap.tasks) OBVIOUS
<1>b. PICK s : s = [i \in DOMAIN items |-> OneOf(A, ItemTask(A, n, items[i]))] BY Zenon
<1>0. /\ DOMAIN ids = DOMAIN items
      /\ \A i \in DOMAIN items :
           IsTask(flow, ids[i]) /\ ids[i][1] = n /\ Last(ids[i][2]) = <<"item", items[i]>>
      /\ DOMAIN results = DOMAIN ids /\ \A i \in DOMAIN ids : results[i] = TaskResult(snap, ids[i])
  BY Zenon DEF ItemTasks, TaskResults
<1>1. AllResolved(results) /\ result.value = ValuesOf(results)
  <2>1. AllResolved(results) BY DEF JoinItems, Unresolved
  <2> QED BY <2>1, ResolvedFields DEF JoinItems
<1>2. AllTasks(flow, A) BY <1>a, AcceptedTasks
<1>3. ASSUME NEW i \in DOMAIN items PROVE s[i].ok /\ s[i].value = results[i].value
  <2>1. results[i].ok /\ results[i] = TaskResult(snap, ids[i]) BY ONLY <1>0, <1>1, <1>3 DEF AllResolved
  <2>2. ids[i] \in DOMAIN A /\ results[i].value = A[ids[i]] BY ONLY <1>a, <2>1, TaskResultIs
  <2>3. ids[i][1] = n /\ Last(ids[i][2]) = <<"item", items[i]>> BY ONLY <1>0, <1>3
  <2>4. flow.steps[ids[i][1]].kind = "map_module" BY <2>3, Zenon
  <2>5. OneOf(A, ItemTask(A, ids[i][1], items[i])) = Known(A[ids[i]])
    BY ONLY <1>2, <2>2, <2>3, <2>4, ItemOutput
  <2>6. s[i] = Known(A[ids[i]]) BY ONLY <1>b, <1>3, <2>3, <2>5
  <2> QED BY ONLY <2>2, <2>6, KnownFields
<1>4. d = Joined(s) BY <1>a, <1>b, DenoteMap, Zenon DEF MapMeaning
<1>5. DOMAIN s = DOMAIN results BY ONLY <1>0, <1>b
<1>6. AllResolved(s) /\ ValuesOf(s) = ValuesOf(results)
  BY ONLY <1>0, <1>3, <1>5 DEF AllResolved, ValuesOf
<1>7. d = Known(ValuesOf(results)) BY ONLY <1>4, <1>6 DEF Joined
<1> QED BY <1>1, <1>7, KnownFields

\* The tasks of a map: one per item, under a scope of its own.
LEMMA MapEnds ==
  ASSUME NEW flow, IsPlan(flow), NEW snap, SnapOK(flow, snap), NEW w, WalkInv(flow, snap, w),
         NEW n \in Nodes(flow), flow.steps[n].kind = "map_module", Source(flow, snap, w, n).ok,
         NEW f, f.node = n, f.scope = ScopeOf(flow, n), f.scope \in Scopes,
         n \in Demanded(flow, AcceptedIn(snap.tasks), snap.root, flow.output)
  PROVE  Ends(flow, snap, w, n, FinishMap(snap, w, f, Source(flow, snap, w, n)))
<1> DEFINE A == AcceptedIn(snap.tasks)
           source == Source(flow, snap, w, n)
           deps == flow.steps[n].deps
           test == Denote(flow, A, snap.root, deps[1])
           items == Items[source.value]
           ids == ItemIds(f, items)
           decisions == Append(source.decisions, <<f.node, items>>)
           records == [i \in DOMAIN items |-> Record(items[i], source, decisions)]
           results == [i \in DOMAIN ids |-> TaskResult(snap, ids[i])]
           v == Decide(snap, w, f.node, <<f.node, items>>)
           u == Ask(snap, v, ids, records)
           result == JoinItems(results, decisions)
           d == Denote(flow, A, snap.root, n)
<1>1. FinishMap(snap, w, f, source) \in {Raise(w), Answered(snap, u, ids, result)} BY DEF FinishMap
<1>2. flow.steps[n].kind \in Executable /\ flow.steps[n].kind # "module" BY DEF Executable
<1>3. 1 \in DOMAIN deps BY DepsType
<1>3a. SourceFine(flow, snap, w, n) BY <1>2, SourceSound
<1>4. test.ok /\ source.value = test.value /\ test.value \in Values
  <2>1. DataOf(flow, n) = <<deps[1]>> BY DEF DataOf
  <2>2. /\ \A i \in DOMAIN deps : ResultOf(w, snap.root, deps[i]).ok
        /\ source.value = BoundValue(Denoted(flow, A, snap.root, <<deps[1]>>))
    BY <1>3a, <2>1 DEF SourceFine
  <2>3. /\ test.ok /\ test.value = ResultOf(w, snap.root, deps[1]).value
        /\ deps[1] \in Plain(flow) => ResultOf(w, snap.root, deps[1]).value \in Values
    <3>1. Agrees(flow, snap, w, deps[1]) BY <1>3, <2>2, ResultOfSound
    <3> QED BY <3>1 DEF Agrees
  <2>4. deps[1] \in Plain(flow)
    <3>1. n \in 1 .. Len(flow.steps) BY PlanType
    <3> QED BY <3>1, PlainType DEF IsPlain
  <2> DEFINE means == Denoted(flow, A, snap.root, <<deps[1]>>)
  <2>5. DOMAIN <<deps[1]>> = 1 .. 1 /\ <<deps[1]>>[1] = deps[1] OBVIOUS
  <2>6. source.value = BoundValue(means) BY <2>2
  <2>7. means[1] = test BY <2>5 DEF Denoted
  <2>8. means = [i \in 1 .. 1 |-> means[i]] BY <2>5 DEF Denoted
  <2> HIDE DEF means
  <2>9. Len(means) = 1 BY <2>8, FunctionSeq
  <2>10. BoundValue(means) = test.value BY <2>7, <2>9 DEF BoundValue
  <2> QED BY <2>3, <2>4, <2>6, <2>10
<1>5. items = Items[test.value] BY <1>4
<1>6. items \in Seq(Values) BY <1>4, ValueAssumption
<1> DEFINE k == Len(items)
<1>7. k \in Nat /\ DOMAIN items = 1 .. k
  <2> HIDE DEF items
  <2> QED BY <1>6
<1>8. DOMAIN ids = 1 .. k /\ \A i \in 1 .. k : ids[i] = Identity(n, Append(f.scope, <<"item", items[i]>>))
  <2> HIDE DEF items
  <2> QED BY <1>7 DEF ItemIds
<1>9. ASSUME NEW i \in 1 .. k
      PROVE  /\ IsTask(flow, ids[i]) /\ ids[i][1] = n /\ Last(ids[i][2]) = <<"item", items[i]>>
             /\ Released(flow, A, snap.root, ids[i], records[i].input)
  <2> DEFINE id == ids[i]
             item == items[i]
             scope == Append(f.scope, <<"item", item>>)
  <2>1. id = Identity(n, scope) BY <1>8
  <2>2. id[1] = n /\ id[2] = scope
    <3> HIDE DEF id, scope
    <3> QED BY <2>1 DEF Identity
  <2>3. Last(scope) = <<"item", item>>
    <3> HIDE DEF item
    <3>1. f.scope \in Seq({"parallel", "branch"} \X Nat) BY DEF Scopes
    <3> QED BY <3>1, AppendTo
  <2>4. IsTask(flow, id)
    <3>1. id = Identity(id[1], Append(ScopeOf(flow, id[1]), <<"item", item>>)) BY <2>1, <2>2
    <3>2. id[1] \in Nodes(flow) /\ ScopeOf(flow, id[1]) \in Scopes /\ flow.steps[id[1]].kind = "map_module"
      BY <2>2
    <3> HIDE DEF id, item
    <3> QED BY <3>1, <3>2 DEF IsTask
  <2>5. records[i].input = item
    <3>1. i \in DOMAIN items BY <1>7
    <3> HIDE DEF items, source, decisions
    <3> QED BY <3>1 DEF Record
  <2>6. item \in ToSet(Items[test.value])
    <3>1. i \in DOMAIN items BY <1>7
    <3>2. item \in ToSet(items)
      <4> HIDE DEF items
      <4> QED BY <3>1 DEF ToSet
    <3> QED BY <1>5, <3>2
  <2>7. Last(id[2])[2] = item
    <3> HIDE DEF id, scope, item
    <3> QED BY ONLY <2>2, <2>3
  <2> DEFINE input == records[i].input
  <2>9. input = item BY <2>5
  <2> HIDE DEF id, item, scope, items, records, input
  <2>10. Released(flow, A, snap.root, id, input)
    <3>1. /\ flow.steps[id[1]].kind = "map_module" /\ input = Last(id[2])[2]
          /\ Last(id[2])[2] \in ToSet(Items[Denote(flow, A, snap.root, flow.steps[id[1]].deps[1]).value])
      BY <2>2, <2>6, <2>7, <2>9
    <3>2. SourceFine(flow, snap, w, id[1]) BY <1>3a, <2>2
    <3>3. id[1] \in Demanded(flow, A, snap.root, flow.output) BY <2>2
    <3> QED BY ONLY <3>1, <3>2, <3>3, ReleasedFrom, Zenon
  <2> QED BY <2>2, <2>3, <2>4, <2>10 DEF id, item, input
<1>10. Onward(flow, snap, w, v)
  <2>1. IsWalk(w) /\ CallsSound(flow, snap, w.calls) BY DEF WalkInv
  <2> QED BY <2>1, DecideSound
<1>11. Onward(flow, snap, w, u)
  <2> HIDE DEF ids, records, v, k
  <2>1. IsWalk(v) /\ CallsSound(flow, snap, v.calls) BY <1>10 DEF Onward
  <2>2. Onward(flow, snap, v, u) BY <1>7, <1>8, <1>9, <2>1, AskSound
  <2> QED BY <1>10, <2>2 DEF Onward
<1>12. ResultSound(flow, snap, w.cache, n, result)
  <2> SUFFICES ASSUME result.ok
               PROVE  /\ d.ok /\ d.value = result.value /\ n \notin Plain(flow)
                      /\ \A m \in Needs(flow, A, snap.root, n) :
                           m = 0 \/ (m \in DOMAIN w.cache /\ w.cache[m].ok)
    BY DEF ResultSound
  <2>1. d.ok /\ d.value = result.value
    <3> HIDE DEF items, ids, decisions, test, d
    <3>1. result = JoinItems(results, decisions) OBVIOUS
    <3>1a. TaskResults(snap, ids, results) BY DEF TaskResults
    <3>1b. test = Denote(flow, AcceptedIn(snap.tasks), snap.root, flow.steps[n].deps[1]) BY DEF test
    <3>1c. d = Denote(flow, AcceptedIn(snap.tasks), snap.root, n) BY DEF d
    <3>2. DOMAIN ids = DOMAIN items BY <1>7, <1>8
    <3>3. ItemTasks(flow, n, items, ids) BY <1>7, <1>9, <3>2 DEF ItemTasks
    <3>4. /\ IsPlan(flow) /\ SnapOK(flow, snap) /\ n \in Nodes(flow) /\ result.ok
          /\ flow.steps[n].kind = "map_module"
      OBVIOUS
    <3> HIDE DEF result, results
    <3>5. test.ok BY <1>4
    <3> QED BY ONLY <1>5, <3>1, <3>1a, <3>1b, <3>1c, <3>3, <3>4, <3>5, ItemsSound
  <2>2. n \notin Plain(flow)
    <3>1. n # 0 BY DepsType
    <3> QED BY <3>1, PlainType DEF IsPlain
  <2>3. \A m \in Needs(flow, A, snap.root, n) : m = 0 \/ (m \in DOMAIN w.cache /\ w.cache[m].ok)
    BY <1>3a DEF SourceFine
  <2> QED BY <2>1, <2>2, <2>3
<1>13. Answered(snap, u, ids, result) \in {Raise(u), Leave(u, result)} BY DEF Answered
<1> HIDE DEF u, ids, result, source
<1>14. FinishMap(snap, w, f, source) \in {Raise(w), Raise(u), Leave(u, result)} BY <1>1, <1>13
<1>15. CASE FinishMap(snap, w, f, source) = Raise(w)
  <2>1. Onward(flow, snap, w, w) BY DEF WalkInv, Onward
  <2> QED BY <1>15, <2>1 DEF Ends, source
<1>16. CASE FinishMap(snap, w, f, source) \in {Raise(u), Leave(u, result)}
  BY <1>11, <1>12, <1>16 DEF Ends, source
<1> QED BY <1>14, <1>15, <1>16

-----------------------------------------------------------------------------
(***************************************************************************)
(* Every step of a walk.                                                   *)
(***************************************************************************)

LEMMA DescendsLeave ==
  ASSUME NEW flow, IsPlan(flow), NEW st \in Seq(Frames(flow)), NEW D, Descends(st, D), st # <<>>
  PROVE  Descends(Front(st), D \cup {Last(st).node})
<1> DEFINE n == Last(st).node
           to == Front(st)
           L == Len(st)
<1>1. /\ L \in Nat \ {0} /\ n = st[L].node /\ Len(to) = L - 1
      /\ \A k \in 1 .. (L - 1) : to[k] = st[k]
  BY TopFrame
<1>2. \A k \in 1 .. L : st[k].node \in Nat
  <2>1. \A k \in 1 .. L : st[k] \in Frames(flow) OBVIOUS
  <2>2. Nodes(flow) \subseteq Nat BY PlanType
  <2> QED BY <2>1, <2>2 DEF Frames
<1>3. \A k \in 1 .. L : st[k].node \notin D /\ \A j \in 1 .. (k - 1) : st[k].node < st[j].node
  BY DEF Descends
<1> HIDE DEF n, to, L
<1>4. ASSUME NEW k \in 1 .. (L - 1) PROVE st[k].node # n
  <2>1. L \in 1 .. L /\ k \in 1 .. L BY <1>1
  <2>2. n < st[k].node BY <1>1, <1>3, <2>1
  <2> QED BY <1>1, <1>2, <2>1, <2>2
<1>5. ASSUME NEW k \in 1 .. Len(to)
      PROVE  to[k].node \notin D \cup {n} /\ \A j \in 1 .. (k - 1) : to[k].node < to[j].node
  <2>1. k \in 1 .. (L - 1) /\ k \in 1 .. L /\ \A j \in 1 .. (k - 1) : j \in 1 .. (L - 1) BY <1>1
  <2> QED BY <1>1, <1>3, <1>4, <2>1
<1> QED BY <1>5 DEF Descends, n, to

\* The stack is the same but for what is next.
LEMMA DescendsAdvance ==
  ASSUME NEW flow, IsPlan(flow), NEW st \in Seq(Frames(flow)), NEW D, Descends(st, D), st # <<>>
  PROVE  LET to == [st EXCEPT ![Len(st)].next = @ + 1] IN
         /\ Descends(to, D) /\ to \in Seq(Frames(flow)) /\ Len(to) = Len(st) /\ to # <<>>
         /\ \A k \in 1 .. Len(st) : to[k].node = st[k].node
         /\ Last(to).node = Last(st).node
<1> DEFINE to == [st EXCEPT ![Len(st)].next = @ + 1]
<1>1. to \in Seq(Frames(flow)) /\ Len(to) = Len(st) /\ \A k \in 1 .. Len(st) : to[k].node = st[k].node
  BY NextKid
<1>2. Len(st) \in Nat \ {0} /\ Last(st) = st[Len(st)] BY TopFrame
<1> HIDE DEF to
<1>3. to # <<>> BY <1>1, <1>2
<1>4. Last(to) = to[Len(to)] BY <1>1, <1>3, TopFrame
<1>5. ASSUME NEW k \in 1 .. Len(to)
      PROVE  to[k].node \notin D /\ \A j \in 1 .. (k - 1) : to[k].node < to[j].node
  <2>1. k \in 1 .. Len(st) /\ \A j \in 1 .. (k - 1) : j \in 1 .. Len(st) BY <1>1, <1>2
  <2> QED BY <1>1, <2>1 DEF Descends
<1>6. Descends(to, D) BY <1>5 DEF Descends
<1>7. /\ Descends(to, D) /\ to \in Seq(Frames(flow)) /\ Len(to) = Len(st) /\ to # <<>>
      /\ \A k \in 1 .. Len(st) : to[k].node = st[k].node
      /\ Last(to).node = Last(st).node
  BY <1>1, <1>2, <1>3, <1>4, <1>6
<1> QED BY ONLY <1>7 DEF to

LEMMA DescendsVisit ==
  ASSUME NEW flow, IsPlan(flow), NEW st \in Seq(Frames(flow)), NEW D, Descends(st, D), st # <<>>,
         NEW m \in Nat, m \notin D, m < Last(st).node, NEW scope
  PROVE  LET to == Append(st, Frame(m, scope)) IN
         /\ Descends(to, D) /\ Len(to) = Len(st) + 1 /\ to[Len(st) + 1].node = m
         /\ \A k \in 1 .. Len(st) : to[k] = st[k]
<1> DEFINE e == Frame(m, scope)
           to == Append(st, e)
           L == Len(st)
<1>1. e.node = m BY DEF Frame
<1> HIDE DEF e
<1>2. Len(to) = L + 1 /\ to[L + 1] = e /\ \A k \in 1 .. L : to[k] = st[k] OBVIOUS
<1>3. L \in Nat \ {0} /\ Last(st) = st[L] BY TopFrame
<1>4. \A k \in 1 .. L : st[k].node \in Nat
  <2>1. \A k \in 1 .. L : st[k] \in Frames(flow) OBVIOUS
  <2>2. Nodes(flow) \subseteq Nat BY PlanType
  <2> QED BY <2>1, <2>2 DEF Frames
<1>5. \A k \in 1 .. L : st[k].node \notin D /\ \A j \in 1 .. (k - 1) : st[k].node < st[j].node
  BY DEF Descends
<1> HIDE DEF to, L
<1>6. ASSUME NEW k \in 1 .. L PROVE m < st[k].node
  <2>1. L \in 1 .. L BY <1>3
  <2>2. m < st[L].node BY <1>3
  <2>3. k # L => k \in 1 .. (L - 1) BY <1>3
  <2>4. k # L => st[L].node < st[k].node BY <1>5, <2>1, <2>3
  <2>5. st[L].node \in Nat /\ st[k].node \in Nat BY <1>4, <2>1
  <2> QED BY <2>2, <2>4, <2>5
<1>7. ASSUME NEW k \in 1 .. Len(to)
      PROVE  to[k].node \notin D /\ \A j \in 1 .. (k - 1) : to[k].node < to[j].node
  <2>1. CASE k \in 1 .. L
    <3>1. \A j \in 1 .. (k - 1) : j \in 1 .. L BY <1>3, <2>1
    <3> QED BY <1>2, <1>5, <2>1, <3>1
  <2>2. CASE k \notin 1 .. L
    <3>1. k = L + 1 /\ \A j \in 1 .. (k - 1) : j \in 1 .. L BY <1>2, <1>3, <2>2
    <3>2. to[k].node = m BY <1>1, <1>2, <3>1
    <3> QED BY <1>2, <1>6, <3>1, <3>2
  <2> QED BY <2>1, <2>2
<1>8. Descends(to, D) BY <1>7 DEF Descends
<1>9. to[L + 1].node = m BY <1>1, <1>2
<1> QED BY <1>2, <1>8, <1>9 DEF to, e, L

LEMMA CacheGrows ==
  ASSUME NEW flow, NEW snap, NEW n, NEW result, NEW cache, ResultSound(flow, snap, cache, n, result),
         NEW more, \A m \in DOMAIN cache : m \in DOMAIN more /\ more[m] = cache[m]
  PROVE  ResultSound(flow, snap, more, n, result)
BY DEF ResultSound

\* Other calls, and another decision in force, make no difference.
LEMMA SameInv ==
  ASSUME NEW flow, NEW snap, NEW w, WalkInv(flow, snap, w),
         NEW u, IsWalk(u), u.stack = w.stack, u.cache = w.cache, CallsSound(flow, snap, u.calls)
  PROVE  WalkInv(flow, snap, u)
BY DEF WalkInv

LEMMA WalkStart ==
  ASSUME NEW flow, IsPlan(flow), WellScoped(flow), NEW snap
  PROVE  WalkInv(flow, snap, NewWalk(flow))
<1> DEFINE w == NewWalk(flow)
           K == WalkKids(flow)
           e == Frame(flow.output, <<>>)
           Dem == Demanded(flow, AcceptedIn(snap.tasks), snap.root, flow.output)
<1>1. /\ IsWalk(w) /\ w.calls = <<>> /\ DOMAIN w.cache = {}
      /\ flow.output = 0 => w.stack = <<>>
      /\ flow.output # 0 => w.stack = Append(<<>>, e)
  BY NewWalkFields
<1>2. Placed(flow, K, w.stack, {})
  <2>1. /\ Placed(flow, K, <<>>, {})
        /\ flow.output # 0 => Placed(flow, K, Append(<<>>, e), {})
    BY PlacedStart
  <2> QED BY <1>1, <2>1
<1>3. CallsSound(flow, snap, w.calls) BY <1>1, CallsNone
<1>4. ASSUME NEW k \in 1 .. Len(w.stack) PROVE k = 1 /\ w.stack[k].node \in Dem
  <2>1. CASE flow.output = 0 BY <1>1, <2>1
  <2>2. CASE flow.output # 0
    <3>1. e.node = flow.output BY DEF Frame
    <3> HIDE DEF w, e, Dem
    <3>2. k = 1 /\ w.stack[k] = e
      <4>1. w.stack = Append(<<>>, e) BY <1>1, <2>2
      <4>2. Len(Append(<<>>, e)) = 1 /\ Append(<<>>, e)[1] = e OBVIOUS
      <4>3. k \in 1 .. 1 BY <4>1, <4>2
      <4> QED BY <4>1, <4>2, <4>3
    <3> QED BY <2>2, <3>1, <3>2, DemandedNeeds DEF Dem
  <2> QED BY <2>1, <2>2
<1>5. Descends(w.stack, {}) BY <1>4 DEF Descends
<1> HIDE DEF w
<1> QED BY <1>1, <1>2, <1>3, <1>4, <1>5 DEF WalkInv, w

\* A step that ends.
LEMMA EndsInv ==
  ASSUME NEW flow, IsPlan(flow), WellScoped(flow), NEW snap, NEW w, WalkInv(flow, snap, w),
         w.stack # <<>>, NEW n, n = Last(w.stack).node,
         Last(w.stack).next > Len(WalkKids(flow)[n]),
         NEW v, Ends(flow, snap, w, n, v)
  PROVE  WalkInv(flow, snap, v)
<1> DEFINE K == WalkKids(flow)
           D == DOMAIN w.cache
           st == w.stack
           Dem == Demanded(flow, AcceptedIn(snap.tasks), snap.root, flow.output)
<1>0. PICK u : /\ Onward(flow, snap, w, u)
               /\ \/ v = Raise(u)
                  \/ \E result : v = Leave(u, result) /\ ResultSound(flow, snap, w.cache, n, result)
  BY DEF Ends
<1>1. /\ IsWalk(u) /\ u.stack = w.stack /\ u.cache = w.cache
      /\ CallsSound(flow, snap, u.calls)
      /\ \/ v = Raise(u)
         \/ \E result : v = Leave(u, result) /\ ResultSound(flow, snap, w.cache, n, result)
  BY <1>0 DEF Onward
<1>2. /\ Placed(flow, K, st, D) /\ Descends(st, D)
      /\ \A m \in D : ResultSound(flow, snap, w.cache, m, w.cache[m])
      /\ \A k \in 1 .. Len(st) : st[k].node \in Dem
  BY DEF WalkInv
<1>3. st \in Seq(Frames(flow)) /\ D \subseteq Nodes(flow) BY <1>2 DEF Placed
<1>4. CASE v = Raise(u)
  <2>1. IsWalk(v) /\ v.calls = u.calls /\ v.cache = w.cache /\ v.stack = <<>> BY <1>1, <1>4, RaiseFields
  <2>2. Placed(flow, K, <<>>, D)
    <3>1. <<>> \in Seq(Frames(flow)) /\ Len(<<>>) = 0 OBVIOUS
    <3>2. CASE Unscoped(flow) BY <1>3, <3>1, <3>2 DEF Placed
    <3>3. CASE ~Unscoped(flow)
      <4>1. Shape(flow, K, st, D) BY <1>2, <3>3 DEF Placed
      <4>2. \A c \in D : \A j \in DOMAIN K[c] : Passed(flow, K, D, c, j)
        <5> HIDE DEF K, D, st
        <5> QED BY <4>1 DEF Shape
      <4>3. Shape(flow, K, <<>>, D)
        <5> HIDE DEF K, D, st
        <5> QED BY <1>3, <3>1, <4>2 DEF Shape
      <4> QED BY <1>3, <3>1, <3>3, <4>3 DEF Placed
    <3> QED BY <3>2, <3>3
  <2>3. Descends(<<>>, D) BY DEF Descends
  <2> QED BY <1>1, <1>2, <2>1, <2>2, <2>3 DEF WalkInv
<1>5. CASE v # Raise(u)
  <2>1. PICK result : v = Leave(u, result) /\ ResultSound(flow, snap, w.cache, n, result)
    BY <1>1, <1>5
  <2>2. /\ IsWalk(v) /\ v.stack = Front(st) /\ v.calls = u.calls
        /\ DOMAIN v.cache = D \cup {n} /\ v.cache[n] = result
        /\ \A m \in D : m # n => v.cache[m] = w.cache[m]
    BY <1>1, <2>1, LeaveFields
  <2>3. Placed(flow, K, Front(st), D \cup {n}) BY <1>2, WalkScoped, PlacedLeave
  <2>4. Descends(Front(st), D \cup {n}) BY <1>2, <1>3, DescendsLeave
  <2>5. n \notin D
    <3>1. Len(st) \in 1 .. Len(st) /\ n = st[Len(st)].node
      <4>1. Len(st) \in Nat \ {0} /\ Last(st) = st[Len(st)] BY <1>3, TopFrame
      <4> QED BY <4>1
    <3> QED BY <1>2, <3>1 DEF Descends
  <2>6. \A m \in D : m \in DOMAIN v.cache /\ v.cache[m] = w.cache[m] BY <2>2, <2>5
  <2>7. ASSUME NEW m \in DOMAIN v.cache PROVE ResultSound(flow, snap, v.cache, m, v.cache[m])
    <3>1. CASE m = n
      <4>1. ResultSound(flow, snap, v.cache, n, result) BY <2>1, <2>6, CacheGrows
      <4> QED BY <2>2, <3>1, <4>1
    <3>2. CASE m # n
      <4>1. m \in D /\ v.cache[m] = w.cache[m] BY <2>2, <3>2
      <4>2. ResultSound(flow, snap, w.cache, m, w.cache[m]) BY <1>2, <4>1
      <4>3. ResultSound(flow, snap, v.cache, m, w.cache[m]) BY <2>6, <4>2, CacheGrows
      <4> QED BY <4>1, <4>3
    <3> QED BY <3>1, <3>2
  <2>8. \A k \in 1 .. Len(Front(st)) : Front(st)[k].node \in Dem
    <3>1. /\ Len(st) \in Nat \ {0} /\ Len(Front(st)) = Len(st) - 1
          /\ \A k \in 1 .. (Len(st) - 1) : Front(st)[k] = st[k]
      BY <1>3, TopFrame
    <3> HIDE DEF Dem, st
    <3>2. \A k \in 1 .. (Len(st) - 1) : k \in 1 .. Len(st) BY <3>1
    <3> QED BY <1>2, <3>1, <3>2
  <2> HIDE DEF Dem, K, D, st
  <2> QED BY <1>1, <2>2, <2>3, <2>4, <2>7, <2>8 DEF WalkInv, Dem, K
<1> QED BY <1>4, <1>5

\* A step that has passed by a kid.
LEMMA AdvancedInv ==
  ASSUME NEW flow, IsPlan(flow), WellScoped(flow), NEW snap, NEW w, WalkInv(flow, snap, w),
         w.stack # <<>>,
         ~Unscoped(flow) =>
           Passed(flow, WalkKids(flow), DOMAIN w.cache, Last(w.stack).node, Last(w.stack).next)
  PROVE  WalkInv(flow, snap, Advanced(w))
<1> DEFINE K == WalkKids(flow)
           D == DOMAIN w.cache
           st == w.stack
           v == Advanced(w)
           to == [st EXCEPT ![Len(st)].next = @ + 1]
           Dem == Demanded(flow, AcceptedIn(snap.tasks), snap.root, flow.output)
<1>1. /\ Placed(flow, K, st, D) /\ Descends(st, D) /\ IsWalk(w)
      /\ \A k \in 1 .. Len(st) : st[k].node \in Dem
  BY DEF WalkInv
<1>2. st \in Seq(Frames(flow)) BY <1>1 DEF Placed
<1>3. IsWalk(v) /\ v.stack = to /\ v.calls = w.calls /\ v.cache = w.cache BY <1>1, AdvancedFields
<1>4. Placed(flow, K, to, D) BY <1>1, WalkScoped, PlacedAdvance
<1>5. Descends(to, D) /\ Len(to) = Len(st) /\ \A k \in 1 .. Len(st) : to[k].node = st[k].node
  BY <1>1, <1>2, DescendsAdvance
<1>7. /\ \A n \in D : ResultSound(flow, snap, w.cache, n, w.cache[n])
      /\ CallsSound(flow, snap, w.calls)
  BY DEF WalkInv
<1> HIDE DEF v, to, st
<1>6. \A k \in 1 .. Len(to) : to[k].node \in Dem BY <1>1, <1>5
<1>8. WalkInv(flow, snap, v) BY <1>3, <1>4, <1>5, <1>6, <1>7 DEF WalkInv
<1> QED BY <1>8 DEF v

\* A when may record its decision before it goes on.
LEMMA EnteredSound ==
  ASSUME NEW flow, NEW snap, NEW w, IsWalk(w), CallsSound(flow, snap, w.calls), NEW f
  PROVE  LET v == Entered(flow, snap, w, f) IN
         /\ IsWalk(v) /\ v.stack = w.stack /\ v.cache = w.cache /\ CallsSound(flow, snap, v.calls)
<1> DEFINE u == Decide(snap, w, f.node, <<f.node, f.next>>)
           context == Put(u.context, Inner(flow, f.node, f.next, f.scope), <<f.node, f.next>>)
           v == [u EXCEPT !.context = context]
<1>1. IsWalk(u) /\ u.stack = w.stack /\ u.cache = w.cache /\ CallsSound(flow, snap, u.calls)
  <2>1. Onward(flow, snap, w, u) BY DecideSound
  <2> QED BY <2>1 DEF Onward
<1>2. Entered(flow, snap, w, f) \in {w, v} BY DEF Entered
<1> HIDE DEF u, context
<1>3. IsWalk(v) /\ v.stack = u.stack /\ v.cache = u.cache /\ v.calls = u.calls BY <1>1 DEF IsWalk
<1> QED BY <1>1, <1>2, <1>3

\* A step walks into what it needs only.
LEMMA WantedNeeded ==
  ASSUME NEW flow, IsPlan(flow), NEW snap, SnapOK(flow, snap), NEW w, WalkInv(flow, snap, w),
         NEW n \in Nodes(flow), NEW i \in DOMAIN Kids(flow, n), Wanted(flow, snap, w, n, i)
  PROVE  Kids(flow, n)[i] \in Needs(flow, AcceptedIn(snap.tasks), snap.root, n)
<1> DEFINE deps == flow.steps[n].deps
           A == AcceptedIn(snap.tasks)
           test == Denote(flow, A, snap.root, deps[1])
           condition == ResultOf(w, snap.root, deps[1])
<1>1. CASE flow.steps[n].kind # "when"
  <2>1. Kids(flow, n)[i] \in ToSet(deps) BY KidsType
  <2> QED BY <1>1, <2>1, NeedsIs
<1>2. CASE flow.steps[n].kind = "when"
  <2>1. Kids(flow, n) = deps BY <1>2, KidsType DEF Executable
  <2>2. i = 1 \/ (condition.ok /\ i = Selected(condition)) BY <1>2 DEF Wanted, Executable
  <2>3. CASE i = 1
    <3>1. deps[1] \in Needs(flow, A, snap.root, n)
      <4>1. /\ test.ok => Needs(flow, A, snap.root, n) = {deps[1], deps[Selected(test)]}
            /\ ~test.ok => Needs(flow, A, snap.root, n) = {deps[1]}
        BY <1>2, NeedsIs
      <4> HIDE DEF test, deps, A
      <4> QED BY <4>1
    <3> QED BY <2>1, <2>3, <3>1
  <2>4. CASE i # 1
    <3>1. condition.ok /\ i = Selected(condition) BY <2>2, <2>4
    <3>2. test.ok /\ test.value = condition.value
      <4>1. Agrees(flow, snap, w, deps[1]) BY <3>1, ResultOfSound
      <4> QED BY <4>1 DEF Agrees
    <3>3. Selected(test) = Selected(condition)
      <4> HIDE DEF test, condition
      <4> QED BY <3>2 DEF Selected
    <3>4. Needs(flow, A, snap.root, n) = {deps[1], deps[Selected(test)]} BY <1>2, <3>2, NeedsIs
    <3> HIDE DEF test, condition
    <3> QED BY <2>1, <3>1, <3>3, <3>4
  <2> QED BY <2>3, <2>4
<1> QED BY <1>1, <1>2

\* What a step looks at is its input, then all that it depends on.
ModuleKids(kids, data, deps) ==
  /\ Len(data) \in Nat /\ DOMAIN data = 1 .. Len(data) /\ Len(deps) \in Nat
  /\ DOMAIN deps = 1 .. Len(deps)
  /\ Len(kids) = Len(data) + Len(deps) /\ DOMAIN kids = 1 .. Len(kids)
  /\ \A j \in DOMAIN data : kids[j] = data[j]
  /\ \A j \in DOMAIN deps : kids[Len(data) + j] = deps[j]

LEMMA ModuleKidsType ==
  ASSUME NEW flow, IsPlan(flow), NEW n \in Nodes(flow), flow.steps[n].kind \in Executable
  PROVE  ModuleKids(Kids(flow, n), DataOf(flow, n), flow.steps[n].deps)
<1> DEFINE kids == Kids(flow, n)
           data == DataOf(flow, n)
           deps == flow.steps[n].deps
<1>1. /\ Len(data) \in Nat /\ DOMAIN data = 1 .. Len(data) /\ Len(deps) \in Nat
      /\ DOMAIN deps = 1 .. Len(deps)
      /\ Len(kids) = Len(data) + Len(deps)
  BY KidsType
<1>2. DOMAIN kids = 1 .. Len(kids) BY KidsType
<1>3. \A j \in DOMAIN data : kids[j] = data[j] BY KidsType
<1>4. \A j \in DOMAIN deps : kids[Len(data) + j] = deps[j] BY KidsType
<1> QED BY <1>1, <1>2, <1>3, <1>4 DEF ModuleKids

\* What a step does not want, of each kind.
LEMMA WantedIs ==
  ASSUME NEW flow, NEW snap, NEW w, NEW n, NEW i, ~Wanted(flow, snap, w, n, i),
         flow.steps[n].kind \in StepKinds
  PROVE  /\ flow.steps[n].kind # "parallel"
         /\ flow.steps[n].kind = "when" => i # 1
         /\ flow.steps[n].kind \in Executable => ~(i <= Len(DataOf(flow, n)))
<1>1. flow.steps[n].kind # "parallel" BY DEF Wanted, Executable
<1>2. flow.steps[n].kind = "when" => i # 1 BY DEF Wanted, Executable
<1>3. ASSUME flow.steps[n].kind \in Executable, i <= Len(DataOf(flow, n))
      PROVE  Wanted(flow, snap, w, n, i)
  BY <1>3 DEF Wanted, Executable
<1> QED BY <1>1, <1>2, <1>3

\* A kid that is not wanted has been looked at before, or is a branch that was not selected.
LEMMA UnwantedPassed ==
  ASSUME NEW flow, IsPlan(flow), WellScoped(flow), NEW snap, NEW w, WalkInv(flow, snap, w),
         w.stack # <<>>, ~Unscoped(flow), NEW n, n = Last(w.stack).node, NEW i, i = Last(w.stack).next,
         i \in DOMAIN Kids(flow, n), ~Wanted(flow, snap, w, n, i)
  PROVE  Passed(flow, WalkKids(flow), DOMAIN w.cache, n, i)
<1> DEFINE K == WalkKids(flow)
           D == DOMAIN w.cache
           st == w.stack
           deps == flow.steps[n].deps
           data == DataOf(flow, n)
<1>1. Placed(flow, K, st, D) BY DEF WalkInv
<1>2. st \in Seq(Frames(flow)) /\ Shape(flow, K, st, D) BY <1>1 DEF Placed
<1>3. Len(st) \in Nat \ {0} /\ Last(st) = st[Len(st)] /\ n \in Nodes(flow) /\ i \in Nat \ {0}
  BY <1>2, TopFrame
<1>4. K[n] = Kids(flow, n) BY <1>3 DEF WalkKids
<1>5. flow.steps[n].kind \in StepKinds BY <1>3, PlanType
<1>6. CASE flow.steps[n].kind = "when"
  <2>1. i # 1 BY <1>5, <1>6, WantedIs
  <2>2. i >= 2 BY <1>3, <2>1
  <2> QED BY <1>6, <2>2 DEF Passed
<1>7. CASE flow.steps[n].kind = "parallel" BY <1>5, <1>7, WantedIs
<1>8. CASE flow.steps[n].kind \in Executable
  <2>1. /\ Len(data) \in Nat /\ DOMAIN data = 1 .. Len(data) /\ Len(deps) \in Nat
        /\ DOMAIN deps = 1 .. Len(deps)
        /\ Len(Kids(flow, n)) = Len(data) + Len(deps)
        /\ DOMAIN Kids(flow, n) = 1 .. Len(Kids(flow, n))
        /\ \A j \in DOMAIN data : Kids(flow, n)[j] = data[j]
        /\ \A j \in DOMAIN deps : Kids(flow, n)[Len(data) + j] = deps[j]
    <3>1. ModuleKids(Kids(flow, n), data, deps) BY <1>3, <1>8, ModuleKidsType
    <3> HIDE DEF data, deps
    <3> QED BY <3>1 DEF ModuleKids
  <2>2. ~(i <= Len(data)) BY <1>5, <1>8, WantedIs
  <2>3. InputOnly(flow, n) BY <1>3 DEF WellScoped, OrderUnscoped, Unscoped
  <2>4. ToSet(deps) \subseteq ToSet(data)
    <3>1. CASE flow.steps[n].kind = "module" BY <2>3, <3>1, Zenon DEF InputOnly, DataOf
    <3>2. CASE flow.steps[n].kind = "map_module"
      <4>1. Len(deps) = 1 /\ data = <<deps[1]>> BY <2>3, <3>2 DEF InputOnly, DataOf
      <4> HIDE DEF data, deps
      <4>2. DOMAIN deps = 1 .. 1 /\ 1 \in DOMAIN data /\ data[1] = deps[1] BY ONLY <2>1, <4>1
      <4> QED BY ONLY <4>2 DEF ToSet
    <3> QED BY <1>8, <3>1, <3>2 DEF Executable
  <2> DEFINE j == i - Len(data)
  <2>5. j \in DOMAIN deps /\ Kids(flow, n)[i] = deps[j]
    <3> DEFINE kids == Kids(flow, n)
    <3>1. i \in Nat /\ i \in DOMAIN kids BY <1>3
    <3> HIDE DEF data, deps, kids, j
    <3>2. j = i - Len(data) BY DEF j
    <3>3. i = Len(data) + j /\ j \in 1 .. Len(deps) BY ONLY <2>1, <2>2, <3>1, <3>2, SMTT(30) DEF kids
    <3> QED BY ONLY <2>1, <3>3 DEF kids
  <2> HIDE DEF j
  <2>6. deps[j] \in ToSet(data) BY <2>4, <2>5, Zenon DEF ToSet
  <2>7. PICK k \in DOMAIN data : data[k] = deps[j]
    <3> HIDE DEF data, deps
    <3> QED BY <2>6 DEF ToSet
  <2>8. k \in 1 .. (i - 1) /\ K[n][k] = K[n][i]
    <3> HIDE DEF data, deps, K
    <3> QED BY <1>3, <1>4, <2>1, <2>2, <2>5, <2>7, SMTT(30)
  <2>9. Passed(flow, K, D, n, k)
    <3> HIDE DEF K, D, st
    <3>1. Len(st) \in 1 .. Len(st) /\ n = st[Len(st)].node /\ i = st[Len(st)].next BY <1>3 DEF st
    <3> QED BY <1>2, <2>8, <3>1 DEF Shape
  <2>10. flow.steps[n].kind # "when" BY <1>8 DEF Executable
  <2> HIDE DEF K, D
  <2>11. Passed(flow, K, D, n, i) BY <2>8, <2>9, <2>10 DEF Passed
  <2> QED BY <2>11 DEF K, D
<1> QED BY <1>5, <1>6, <1>7, <1>8 DEF StepKinds

\* A step that walks into a kid.
LEMMA VisitInv ==
  ASSUME NEW flow, IsPlan(flow), WellScoped(flow), NEW snap, SnapOK(flow, snap),
         NEW w, WalkInv(flow, snap, w), w.stack # <<>>, NEW f, f = Last(w.stack),
         NEW n, n = f.node, NEW i, i = f.next, i \in DOMAIN Kids(flow, n),
         Wanted(flow, snap, w, n, i)
  PROVE  WalkInv(flow, snap, Visit(Entered(flow, snap, Advanced(w), f), Kids(flow, n)[i],
                                   Inner(flow, n, i, f.scope)))
<1> DEFINE K == WalkKids(flow)
           D == DOMAIN w.cache
           st == w.stack
           up == [st EXCEPT ![Len(st)].next = @ + 1]
           kid == Kids(flow, n)[i]
           scope == Inner(flow, n, i, f.scope)
           a == Advanced(w)
           u == Entered(flow, snap, a, f)
           v == Visit(u, kid, scope)
           Dem == Demanded(flow, AcceptedIn(snap.tasks), snap.root, flow.output)
<1>1. /\ Placed(flow, K, st, D) /\ Descends(st, D) /\ IsWalk(w) /\ CallsSound(flow, snap, w.calls)
      /\ \A k \in 1 .. Len(st) : st[k].node \in Dem
      /\ \A m \in D : ResultSound(flow, snap, w.cache, m, w.cache[m])
  BY DEF WalkInv
<1>2. st \in Seq(Frames(flow)) BY <1>1 DEF Placed
<1>3. /\ Len(st) \in Nat \ {0} /\ f = st[Len(st)] /\ n \in Nodes(flow) BY <1>2, TopFrame
<1>4. K[n] = Kids(flow, n) /\ n \in Nat BY <1>3, PlanType DEF WalkKids
<1>5. kid \in Nodes(flow) \cup {0} /\ kid \in Nat /\ kid < n
  <2>1. kid \in ToSet(flow.steps[n].deps) BY <1>3, KidsType
  <2>2. PICK j \in DOMAIN flow.steps[n].deps : flow.steps[n].deps[j] = kid
    <3> HIDE DEF kid
    <3> QED BY <2>1 DEF ToSet
  <2>3. flow.steps[n].deps[j] \in Nodes(flow) \cup {0} /\ flow.steps[n].deps[j] < n
    BY <1>3, PlanType, Zenon
  <2>4. Nodes(flow) \subseteq Nat BY PlanType
  <2> HIDE DEF kid
  <2> QED BY <2>2, <2>3, <2>4
<1>6. IsWalk(a) /\ a.stack = up /\ a.calls = w.calls /\ a.cache = w.cache BY <1>1, AdvancedFields
<1>7. IsWalk(u) /\ u.stack = up /\ u.cache = w.cache /\ CallsSound(flow, snap, u.calls)
  <2> HIDE DEF a, up
  <2>1. IsWalk(u) /\ u.stack = a.stack /\ u.cache = a.cache /\ CallsSound(flow, snap, u.calls)
    BY <1>1, <1>6, EnteredSound
  <2> QED BY <1>6, <2>1
<1>8. CASE kid \in D \cup {0}
  <2>1. Passed(flow, K, D, n, i) BY <1>4, <1>8 DEF Passed
  <2>2. WalkInv(flow, snap, a) BY <2>1, AdvancedInv
  <2>3. v = u
    <3> HIDE DEF u, kid
    <3> QED BY <1>7, <1>8 DEF Visit
  <2> HIDE DEF u, v, a, up
  <2>4. WalkInv(flow, snap, u) BY <1>6, <1>7, <2>2, SameInv
  <2> QED BY <2>3, <2>4 DEF v, u, a
<1>9. CASE kid \notin D \cup {0}
  <2> DEFINE to == Append(up, Frame(kid, scope))
  <2>1. IsWalk(v) /\ v.stack = to /\ v.calls = u.calls /\ v.cache = w.cache
    <3>1. kid \notin DOMAIN u.cache \cup {0} BY <1>7, <1>9
    <3>2. to = Append(up, Frame(kid, scope)) OBVIOUS
    <3> HIDE DEF u, up, scope, kid, to
    <3>3. IsWalk(v) /\ v.calls = u.calls /\ v.cache = u.cache /\ v.stack = Append(u.stack, Frame(kid, scope))
      BY <1>7, <3>1, VisitFields
    <3> QED BY <1>7, <3>2, <3>3
  <2>2. Placed(flow, K, to, D)
    <3>1. K[n][i] \in Nodes(flow) \ D /\ i \in DOMAIN K[n] /\ kid = K[n][i] BY <1>4, <1>5, <1>9
    <3>2. Scoped(flow, K) BY WalkScoped
    <3>3. Placed(flow, K, Append(up, Frame(K[n][i], Inner(flow, n, i, Last(st).scope))), D)
      <4> HIDE DEF K, D
      <4> QED BY <1>1, <3>1, <3>2, PlacedVisit
    <3> QED BY <3>1, <3>3
  <2>3. Descends(up, D) /\ up \in Seq(Frames(flow)) /\ Len(up) = Len(st) /\ up # <<>>
        /\ \A k \in 1 .. Len(st) : up[k].node = st[k].node
        /\ Last(up).node = n
    BY <1>1, <1>2, DescendsAdvance, SMTT(30)
  <2>4. /\ Descends(to, D) /\ Len(to) = Len(up) + 1 /\ to[Len(up) + 1].node = kid
        /\ \A k \in 1 .. Len(up) : to[k] = up[k]
    <3>1. kid \notin D BY <1>9
    <3> HIDE DEF up, kid, scope, D
    <3> QED BY <1>5, <2>3, <3>1, DescendsVisit
  <2>5. kid \in Dem
    <3>1. kid \in Needs(flow, AcceptedIn(snap.tasks), snap.root, n) BY <1>3, WantedNeeded
    <3>2. Len(st) \in 1 .. Len(st) BY <1>3
    <3>3. n \in Dem
      <4>1. st[Len(st)].node \in Dem
        <5> HIDE DEF Dem, st
        <5> QED BY <1>1, <3>2
      <4> QED BY <1>3, <4>1
    <3>4. Needs(flow, AcceptedIn(snap.tasks), snap.root, n) \subseteq Dem \cup {0} BY <3>3, DemandedNeeds
    <3> QED BY <1>9, <3>1, <3>4
  <2> HIDE DEF Dem, to, up, kid, D, K, v, u, st
  <2>6. \A k \in 1 .. Len(to) : to[k].node \in Dem
    <3>1. \A k \in 1 .. Len(to) : k \in 1 .. Len(up) \/ k = Len(up) + 1 BY <1>3, <2>3, <2>4
    <3> QED BY <1>1, <2>3, <2>4, <2>5, <3>1
  <2>7. WalkInv(flow, snap, v) BY <1>1, <1>7, <2>1, <2>2, <2>4, <2>6 DEF WalkInv, D, K, Dem
  <2> QED BY <2>7 DEF v, u, kid
<1> QED BY <1>8, <1>9

\* How a step of each kind ends.
LEMMA FinishIs ==
  ASSUME NEW flow, NEW snap, NEW w, NEW f, NEW n, n = f.node
  PROVE  LET v == FinishStep(flow, snap, w, f)
             source == Source(flow, snap, w, n)
         IN  /\ flow.steps[n].kind \in Executable /\ ~source.ok => v = Leave(w, Unresolved)
             /\ flow.steps[n].kind = "module" /\ source.ok => v = FinishModule(snap, w, f, source)
             /\ flow.steps[n].kind = "map_module" /\ source.ok => v = FinishMap(snap, w, f, source)
             /\ flow.steps[n].kind = "when" => v = Leave(w, BranchResult(flow, snap, w, n))
             /\ flow.steps[n].kind = "parallel" =>
                  v = Leave(w, Join(ResultsOf(w, snap.root, flow.steps[n].deps)))
<1> DEFINE v == FinishStep(flow, snap, w, f)
           source == Source(flow, snap, w, n)
<1>1. CASE flow.steps[n].kind \in Executable /\ ~source.ok BY <1>1 DEF FinishStep, Executable
<1>2. CASE flow.steps[n].kind = "module" /\ source.ok BY <1>2 DEF FinishStep, Executable
<1>3. CASE flow.steps[n].kind = "map_module" /\ source.ok BY <1>3 DEF FinishStep, Executable
<1>4. CASE flow.steps[n].kind = "when" BY <1>4 DEF FinishStep, Executable
<1>5. CASE flow.steps[n].kind = "parallel" BY <1>5 DEF FinishStep, Executable
<1> QED BY <1>1, <1>2, <1>3, <1>4, <1>5 DEF Executable

\* However a step ends, its calls and its result are sound.
LEMMA FinishEnds ==
  ASSUME NEW flow, IsPlan(flow), WellScoped(flow), NEW snap, SnapOK(flow, snap),
         NEW w, WalkInv(flow, snap, w), w.stack # <<>>, NEW f, f = Last(w.stack),
         NEW n, n = f.node
  PROVE  Ends(flow, snap, w, n, FinishStep(flow, snap, w, f))
<1> DEFINE K == WalkKids(flow)
           D == DOMAIN w.cache
           st == w.stack
           source == Source(flow, snap, w, n)
           Dem == Demanded(flow, AcceptedIn(snap.tasks), snap.root, flow.output)
           v == FinishStep(flow, snap, w, f)
<1>1. /\ Placed(flow, K, st, D) /\ IsWalk(w) /\ CallsSound(flow, snap, w.calls)
      /\ \A k \in 1 .. Len(st) : st[k].node \in Dem
  BY DEF WalkInv
<1>2. st \in Seq(Frames(flow)) BY <1>1 DEF Placed
<1>3. /\ Len(st) \in Nat \ {0} /\ f = st[Len(st)] /\ n \in Nodes(flow) /\ f.scope \in Scopes
  BY <1>2, TopFrame
<1>4. Len(st) \in 1 .. Len(st) BY <1>3
<1>5. n \in Dem
  <2> HIDE DEF st, Dem
  <2> QED BY <1>1, <1>3, <1>4
<1>6. f.scope = ScopeOf(flow, n)
  <2>1. Scoped(flow, K) BY WalkScoped
  <2>2. st[Len(st)].scope = ScopeOf(flow, st[Len(st)].node)
    <3> HIDE DEF st, K, D
    <3> QED BY <1>1, <1>4, <2>1, PlacedScope
  <2> QED BY <1>3, <2>2
<1>7. ASSUME NEW result, ResultSound(flow, snap, w.cache, n, result)
      PROVE  Ends(flow, snap, w, n, Leave(w, result))
  <2>1. Onward(flow, snap, w, w) BY <1>1 DEF Onward
  <2> QED BY <1>7, <2>1 DEF Ends
<1>8. CASE flow.steps[n].kind \in Executable /\ ~source.ok
  <2>1. v = Leave(w, Unresolved) BY <1>8, FinishIs
  <2>2. Ends(flow, snap, w, n, Leave(w, Unresolved)) BY <1>7, UnresolvedSound
  <2> HIDE DEF v
  <2>3. Ends(flow, snap, w, n, v) BY <2>1, <2>2
  <2> QED BY <2>3 DEF v
<1>9. CASE flow.steps[n].kind = "module" /\ source.ok
  <2>1. v = FinishModule(snap, w, f, source) BY <1>9, FinishIs
  <2>2. Ends(flow, snap, w, n, FinishModule(snap, w, f, source)) BY <1>3, <1>5, <1>6, <1>9, ModuleEnds
  <2> HIDE DEF v, source
  <2>3. Ends(flow, snap, w, n, v) BY <2>1, <2>2
  <2> QED BY <2>3 DEF v
<1>10. CASE flow.steps[n].kind = "map_module" /\ source.ok
  <2>1. v = FinishMap(snap, w, f, source) BY <1>10, FinishIs
  <2>2. Ends(flow, snap, w, n, FinishMap(snap, w, f, source)) BY <1>3, <1>5, <1>6, <1>10, MapEnds
  <2> HIDE DEF v, source
  <2>3. Ends(flow, snap, w, n, v) BY <2>1, <2>2
  <2> QED BY <2>3 DEF v
<1>11. CASE flow.steps[n].kind = "when"
  <2>1. v = Leave(w, BranchResult(flow, snap, w, n)) BY <1>11, FinishIs
  <2>2. ResultSound(flow, snap, w.cache, n, BranchResult(flow, snap, w, n)) BY <1>3, <1>11, WhenSound
  <2>3. Ends(flow, snap, w, n, Leave(w, BranchResult(flow, snap, w, n))) BY <1>7, <2>2
  <2> HIDE DEF v
  <2>4. Ends(flow, snap, w, n, v) BY <2>1, <2>3
  <2> QED BY <2>4 DEF v
<1>12. CASE flow.steps[n].kind = "parallel"
  <2> DEFINE joined == Join(ResultsOf(w, snap.root, flow.steps[n].deps))
  <2>1. v = Leave(w, joined) BY <1>12, FinishIs
  <2>2. ResultSound(flow, snap, w.cache, n, joined) BY <1>3, <1>12, ParallelSound
  <2> HIDE DEF v, joined
  <2>3. Ends(flow, snap, w, n, Leave(w, joined)) BY <1>7, <2>2
  <2>4. Ends(flow, snap, w, n, v) BY <2>1, <2>3
  <2> QED BY <2>4 DEF v
<1>13. flow.steps[n].kind \in StepKinds BY <1>3, PlanType
<1> HIDE DEF v, source
<1> QED BY <1>8, <1>9, <1>10, <1>11, <1>12, <1>13 DEF StepKinds, Executable, v

LEMMA WalkStepInv ==
  ASSUME NEW flow, IsPlan(flow), WellScoped(flow), NEW snap, SnapOK(flow, snap),
         NEW w, WalkInv(flow, snap, w)
  PROVE  WalkInv(flow, snap, WalkStep(flow, snap, w))
<1> DEFINE f == Last(w.stack)
           n == f.node
           i == f.next
           kids == Kids(flow, n)
           v == WalkStep(flow, snap, w)
<1>1. CASE w.stack = <<>> BY <1>1 DEF WalkStep
<1>2. CASE w.stack # <<>>
  <2>1. /\ n \in Nodes(flow) /\ i \in Nat \ {0} /\ WalkKids(flow)[n] = kids
        /\ Len(kids) \in Nat /\ DOMAIN kids = 1 .. Len(kids)
    <3>1. w.stack \in Seq(Frames(flow)) BY DEF WalkInv, Placed
    <3>2. n \in Nodes(flow) /\ i \in Nat \ {0} BY <1>2, <3>1, TopFrame
    <3> QED BY <3>2, KidsType DEF WalkKids
  <2>2. CASE i > Len(kids)
    <3>1. v = FinishStep(flow, snap, w, f) BY <1>2, <2>2 DEF WalkStep
    <3>2. Ends(flow, snap, w, n, FinishStep(flow, snap, w, f)) BY <1>2, FinishEnds
    <3>3. Ends(flow, snap, w, n, v) BY <3>1, <3>2
    <3> HIDE DEF v
    <3> QED BY <1>2, <2>1, <2>2, <3>3, EndsInv DEF v
  <2>3. CASE ~(i > Len(kids))
    <3>1. i \in DOMAIN kids BY <2>1, <2>3
    <3>2. CASE Wanted(flow, snap, w, n, i)
      <4>1. v = Visit(Entered(flow, snap, Advanced(w), f), kids[i], Inner(flow, n, i, f.scope))
        BY <1>2, <2>3, <3>2 DEF WalkStep
      <4>2. WalkInv(flow, snap, Visit(Entered(flow, snap, Advanced(w), f), kids[i],
                                      Inner(flow, n, i, f.scope)))
        BY <1>2, <3>1, <3>2, VisitInv
      <4> QED BY <4>1, <4>2
    <3>3. CASE ~Wanted(flow, snap, w, n, i)
      <4>1. v = Advanced(w) BY <1>2, <2>3, <3>3 DEF WalkStep
      <4>2. ~Unscoped(flow) => Passed(flow, WalkKids(flow), DOMAIN w.cache, n, i)
        BY <1>2, <3>1, <3>3, UnwantedPassed
      <4>3. WalkInv(flow, snap, Advanced(w)) BY <1>2, <4>2, AdvancedInv
      <4> QED BY <4>1, <4>3
    <3> QED BY <3>2, <3>3
  <2> QED BY <2>2, <2>3
<1> QED BY <1>1, <1>2

\* The walk of advance, step by step.
WalkBody(flow, snap, w, k) == IF k = 0 THEN NewWalk(flow) ELSE WalkStep(flow, snap, w[k - 1])

LEMMA WalkUnfold ==
  ASSUME NEW flow, IsPlan(flow), NEW snap
  PROVE  \E w : /\ \A k \in 0 .. Steps(flow) : w[k] = WalkBody(flow, snap, w, k)
                /\ Walk(flow, snap) = w[Steps(flow)]
<1> DEFINE n == Steps(flow)
           Computes(w, m) == w = [k \in 0 .. m |-> WalkBody(flow, snap, w, k)]
           T == {m \in 0 .. n : \E w : Computes(w, m)}
           W == CHOOSE w : Computes(w, n)
<1>1. n \in Nat BY StepsType
<1>2. ASSUME NEW m \in 0 .. n, (0 .. (m - 1)) \subseteq T PROVE m \in T
  <2>1. CASE m = 0
    <3> DEFINE g == [k \in 0 .. m |-> NewWalk(flow)]
    <3>1. \A k \in 0 .. m : WalkBody(flow, snap, g, k) = NewWalk(flow) BY <2>1 DEF WalkBody
    <3>2. Computes(g, m) BY <3>1
    <3> QED BY <3>2
  <2>2. CASE m # 0
    <3>1. m - 1 \in 0 .. (m - 1) /\ m - 1 \in 0 .. n BY <1>1, <2>2
    <3>2. PICK f : Computes(f, m - 1) BY <1>2, <3>1
    <3> DEFINE g == [k \in 0 .. m |-> IF k = m THEN WalkStep(flow, snap, f[m - 1]) ELSE f[k]]
    <3>3. ASSUME NEW k \in 0 .. m PROVE g[k] = WalkBody(flow, snap, g, k)
      <4>1. CASE k = m
        <5>1. g[m - 1] = f[m - 1] BY <1>1, <2>2
        <5>2. g[k] = WalkStep(flow, snap, f[m - 1]) BY <4>1
        <5> QED BY <2>2, <4>1, <5>1, <5>2 DEF WalkBody
      <4>2. CASE k # m
        <5>1. k \in 0 .. (m - 1) /\ g[k] = f[k] BY <4>2, <1>1
        <5>2. f[k] = WalkBody(flow, snap, f, k) BY <3>2, <5>1
        <5>3. k # 0 => k - 1 \in 0 .. m /\ k - 1 # m BY <5>1
        <5>4. k # 0 => g[k - 1] = f[k - 1] BY <5>3
        <5> QED BY <5>1, <5>2, <5>4 DEF WalkBody
      <4> QED BY <4>1, <4>2
    <3>4. g = [k \in 0 .. m |-> g[k]] OBVIOUS
    <3> HIDE DEF g
    <3>5. Computes(g, m) BY <3>3, <3>4
    <3> QED BY <3>5
  <2> QED BY <2>1, <2>2
<1>3. 0 .. n \subseteq T
  <2> HIDE DEF T, n
  <2> QED BY <1>1, <1>2, UpTo
<1>4. n \in 0 .. n BY <1>1
<1>5. Computes(W, n)
  <2>1. \E w : Computes(w, n) BY <1>3, <1>4
  <2> QED BY <2>1
<1>6. Walk(flow, snap) = W[n] BY DEF Walk, WalkBody
<1> HIDE DEF W, n
<1>7. \A k \in 0 .. n : W[k] = WalkBody(flow, snap, W, k) BY <1>5
<1> QED BY <1>6, <1>7 DEF n

LEMMA WalkSound ==
  ASSUME NEW flow, IsPlan(flow), WellScoped(flow), NEW snap, SnapOK(flow, snap)
  PROVE  WalkInv(flow, snap, Walk(flow, snap))
<1>1. PICK w : /\ \A k \in 0 .. Steps(flow) : w[k] = WalkBody(flow, snap, w, k)
               /\ Walk(flow, snap) = w[Steps(flow)]
  BY WalkUnfold
<1> DEFINE n == Steps(flow)
           T == {k \in 0 .. n : WalkInv(flow, snap, w[k])}
<1>2. n \in Nat BY StepsType
<1>3. ASSUME NEW k \in 0 .. n, (0 .. (k - 1)) \subseteq T PROVE k \in T
  <2>1. CASE k = 0 BY <1>1, <2>1, WalkStart DEF WalkBody
  <2>2. CASE k # 0
    <3>1. k - 1 \in 0 .. (k - 1) BY <1>2, <2>2
    <3>2. WalkInv(flow, snap, w[k - 1]) BY <1>3, <3>1
    <3>3. w[k] = WalkStep(flow, snap, w[k - 1]) BY <1>1, <2>2 DEF WalkBody
    <3>4. WalkInv(flow, snap, w[k]) BY <3>2, <3>3, WalkStepInv
    <3> QED BY <3>4
  <2> QED BY <2>1, <2>2
<1>4. 0 .. n \subseteq T
  <2> HIDE DEF T, n
  <2> QED BY <1>2, <1>3, UpTo
<1>5. n \in 0 .. n BY <1>2
<1> QED BY <1>1, <1>4, <1>5

\* A pass asks for what the plan denotes: whatever the tasks of the snapshot, a task is
\* named as every other pass names it, it is released when its node is needed and with
\* the input that the accepted results give, and the run ends with the value of the plan.
LEMMA PassSound ==
  ASSUME NEW flow, IsPlan(flow), WellScoped(flow), NEW snap, SnapOK(flow, snap)
  PROVE  CallsSound(flow, snap, PassCalls(flow, snap))
<1> DEFINE w == Walk(flow, snap)
           result == ResultOf(w, snap.root, flow.output)
           A == AcceptedIn(snap.tasks)
           fail == [op |-> "fail"]
           count == [op |-> "count", output |-> result.value]
           Dem == Demanded(flow, A, snap.root, flow.output)
<1>1. WalkInv(flow, snap, w) BY WalkSound
<1>2. CallsSound(flow, snap, w.calls) BY <1>1 DEF WalkInv
<1>3. CallSound(flow, snap, fail)
  <2>1. fail.op = "fail" OBVIOUS
  <2> HIDE DEF fail
  <2> QED BY <2>1 DEF CallSound
<1>4. ASSUME result.ok PROVE CallSound(flow, snap, count)
  <2>1. count.op = "count" /\ count.output = result.value OBVIOUS
  <2> HIDE DEF w
  <2>2. LET d == Denote(flow, A, snap.root, flow.output) IN
        /\ d.ok /\ d.value = result.value
        /\ flow.output = 0 \/ (flow.output \in DOMAIN w.cache /\ w.cache[flow.output].ok)
    <3>1. Agrees(flow, snap, w, flow.output) BY <1>1, <1>4, ResultOfSound
    <3> QED BY <3>1 DEF Agrees
  <2> DEFINE S == {c \in DOMAIN w.cache : w.cache[c].ok}
             G == NeedsOf(flow, A, snap.root)
  <2>3. \A c \in DOMAIN w.cache : ResultSound(flow, snap, w.cache, c, w.cache[c]) BY <1>1 DEF WalkInv
  <2>4. DOMAIN w.cache \subseteq Nodes(flow) BY <1>1 DEF WalkInv, Placed
  <2>5. Dem \subseteq S
    <3>1. DOMAIN G = Nodes(flow) /\ Dem = Reachable(G, flow.output) BY NeedsType
    <3>2. S \in SUBSET DOMAIN G BY <2>4, <3>1
    <3>3. flow.output \in S \cup {0} BY <2>2
    <3>4. ASSUME NEW c \in S PROVE G[c] \subseteq S \cup {0}
      <4>1. c \in Nodes(flow) BY <2>4
      <4>2. G[c] = Needs(flow, A, snap.root, c) BY <4>1, NeedsIs
      <4>3. \A m \in Needs(flow, A, snap.root, c) : m = 0 \/ (m \in DOMAIN w.cache /\ w.cache[m].ok)
        BY <2>3 DEF ResultSound
      <4> QED BY <4>2, <4>3
    <3> HIDE DEF S, G, Dem
    <3> QED BY <3>1, <3>2, <3>3, <3>4, ReachWithin
  <2>6. \A c \in S : Denote(flow, A, snap.root, c).ok BY <2>3 DEF ResultSound
  <2> HIDE DEF S
  <2>7. Complete(flow, A, snap.root, result.value) BY <2>2, <2>5, <2>6 DEF Complete
  <2> HIDE DEF count, result, A
  <2> QED BY <2>1, <2>7 DEF CallSound, A
<1>5. PassCalls(flow, snap) = EndOfWalk(w, result) BY DEF PassCalls
<1>6. /\ EndOfWalk(w, result) \in {w.calls, Append(w.calls, fail), Append(w.calls, count)}
      /\ EndOfWalk(w, result) = Append(w.calls, count) =>
           result.ok \/ Append(w.calls, count) = Append(w.calls, fail) \/ Append(w.calls, count) = w.calls
  BY DEF EndOfWalk
<1> HIDE DEF w, result, fail, count
<1>7. CASE EndOfWalk(w, result) = w.calls BY <1>2, <1>5, <1>7
<1>8. CASE EndOfWalk(w, result) = Append(w.calls, fail) BY <1>2, <1>3, <1>5, <1>8, CallsAppend
<1>9. CASE EndOfWalk(w, result) = Append(w.calls, count) /\ result.ok
  BY <1>2, <1>4, <1>5, <1>9, CallsAppend
<1> QED BY <1>6, <1>7, <1>8, <1>9

-----------------------------------------------------------------------------
(***************************************************************************)
(* What was right for a snapshot stays right when more is accepted, and    *)
(* once all that is needed is accepted every task that may be asked for    *)
(* exists.                                                                 *)
(***************************************************************************)

LEMMA ReleasedGrows ==
  ASSUME NEW flow, IsPlan(flow), NEW A, NEW B, AllTasks(flow, B), Extends(A, B), NEW seed,
         NEW id, id[1] \in Nodes(flow), NEW input, Released(flow, A, seed, id, input)
  PROVE  Released(flow, B, seed, id, input)
<1> DEFINE n == id[1]
           step == flow.steps[n]
           a(nodes) == [i \in DOMAIN nodes |-> Denote(flow, A, seed, nodes[i])]
           b(nodes) == [i \in DOMAIN nodes |-> Denote(flow, B, seed, nodes[i])]
<1>1. /\ n \in Demanded(flow, A, seed, flow.output) /\ AllResolved(a(step.deps))
      /\ input = IF step.kind = "module" THEN BoundValue(a(step.data)) ELSE Last(id[2])[2]
      /\ step.kind = "map_module" =>
           Last(id[2])[2] \in ToSet(Items[Denote(flow, A, seed, step.deps[1]).value])
  BY Zenon DEF Released
<1>2. n \in Demanded(flow, B, seed, flow.output) BY <1>1, DemandedGrows
<1>3. ASSUME NEW m \in ToSet(step.deps)
      PROVE  Denote(flow, A, seed, m).ok /\ Denote(flow, B, seed, m) = Denote(flow, A, seed, m)
  <2>1. PICK i \in DOMAIN step.deps : step.deps[i] = m BY DEF ToSet
  <2>2. m \in Nodes(flow) \cup {0} BY <2>1, PlanType
  <2>3. Denote(flow, A, seed, m).ok BY <1>1, <2>1, Zenon DEF AllResolved
  <2> QED BY <2>2, <2>3, DenoteGrows
<1>4. \A i \in DOMAIN step.deps : step.deps[i] \in ToSet(step.deps) BY DEF ToSet
<1>5. AllResolved(b(step.deps)) BY <1>3, <1>4 DEF AllResolved
<1>6. ASSUME step.kind = "module" PROVE b(step.data) = a(step.data)
  <2>1. DataOf(flow, n) = step.data /\ step.kind \in Executable BY <1>6 DEF DataOf, Executable
  <2>2. step.data \in Seq(ToSet(step.deps)) BY <2>1, KidsType
  <2>3. \A i \in DOMAIN step.data : step.data[i] \in ToSet(step.deps)
    <3> DEFINE S == ToSet(step.deps)
               data == step.data
    <3>1. data \in Seq(S) BY <2>2
    <3> HIDE DEF S, data
    <3>2. \A i \in DOMAIN data : data[i] \in S BY <3>1, SeqIs
    <3> QED BY <3>2 DEF S, data
  <2> QED BY <1>3, <2>3
<1>7. input = IF step.kind = "module" THEN BoundValue(b(step.data)) ELSE Last(id[2])[2]
  <2>1. CASE step.kind = "module" BY <1>1, <1>6, <2>1, Zenon
  <2>2. CASE step.kind # "module" BY <1>1, <2>2
  <2> QED BY <2>1, <2>2
<1>8. step.kind = "map_module" =>
        Last(id[2])[2] \in ToSet(Items[Denote(flow, B, seed, step.deps[1]).value])
  <2> SUFFICES ASSUME step.kind = "map_module"
               PROVE  Denote(flow, B, seed, step.deps[1]) = Denote(flow, A, seed, step.deps[1])
    BY <1>1, Zenon
  <2>1. 1 \in DOMAIN step.deps BY DepsType
  <2> QED BY <1>3, <1>4, <2>1
<1> HIDE DEF step
<1> QED BY <1>2, <1>5, <1>7, <1>8, Zenon DEF Released, step

LEMMA CompleteGrows ==
  ASSUME NEW flow, IsPlan(flow), NEW A, NEW B, AllTasks(flow, B), Extends(A, B), NEW seed,
         NEW value, Complete(flow, A, seed, value)
  PROVE  Complete(flow, B, seed, value)
<1> DEFINE S == Demanded(flow, A, seed, flow.output)
           H == NeedsOf(flow, B, seed)
<1>1. /\ Denote(flow, A, seed, flow.output).ok /\ Denote(flow, A, seed, flow.output).value = value
      /\ \A n \in S : Denote(flow, A, seed, n).ok
  BY DEF Complete
<1>2. flow.output \in Nodes(flow) \cup {0} BY PlanType
<1>3. Denote(flow, B, seed, flow.output) = Denote(flow, A, seed, flow.output)
  BY <1>1, <1>2, DenoteGrows
<1>4. ASSUME NEW n \in S
      PROVE  n \in Nodes(flow) /\ Denote(flow, B, seed, n).ok /\ H[n] \subseteq S \cup {0}
  <2> DEFINE deps == flow.steps[n].deps
             a == Denote(flow, A, seed, deps[1])
             b == Denote(flow, B, seed, deps[1])
  <2>1. n \in Nodes(flow) /\ Needs(flow, A, seed, n) \subseteq S \cup {0} BY DemandedNeeds
  <2>2. Denote(flow, A, seed, n).ok BY <1>1
  <2>3. Denote(flow, B, seed, n).ok BY <2>1, <2>2, DenoteGrows
  <2>4. H[n] = Needs(flow, A, seed, n)
    <3>1. CASE flow.steps[n].kind # "when" BY <2>1, <3>1, NeedsIs
    <3>2. CASE flow.steps[n].kind = "when"
      <4>1. Denote(flow, A, seed, n) =
              IF a.ok THEN Denote(flow, A, seed, deps[Selected(a)]) ELSE Unresolved
        BY <2>1, <3>2, DenoteWhen
      <4>2. a.ok
        <5> HIDE DEF a
        <5> QED BY <2>2, <4>1 DEF Unresolved
      <4>3. deps[1] \in Nodes(flow) \cup {0}
        <5>1. DOMAIN deps = 1 .. 3 BY <2>1, <3>2, DepsType
        <5>2. \A i \in DOMAIN deps : deps[i] \in Nodes(flow) \cup {0} BY <2>1, PlanType
        <5> QED BY <5>1, <5>2
      <4>4. b = a BY <4>2, <4>3, DenoteGrows
      <4>5. /\ H[n] = Needs(flow, B, seed, n)
            /\ a.ok => Needs(flow, A, seed, n) = {deps[1], deps[Selected(a)]}
            /\ b.ok => Needs(flow, B, seed, n) = {deps[1], deps[Selected(b)]}
        BY <2>1, <3>2, NeedsIs
      <4> HIDE DEF a, b, H, deps
      <4> QED BY <4>2, <4>4, <4>5
    <3> QED BY <3>1, <3>2
  <2> QED BY <2>1, <2>3, <2>4
<1>5. Demanded(flow, B, seed, flow.output) \subseteq S
  <2>1. DOMAIN H = Nodes(flow) /\ Demanded(flow, B, seed, flow.output) = Reachable(H, flow.output)
    BY NeedsType
  <2>2. flow.output \in S \cup {0} BY DemandedNeeds
  <2> HIDE DEF S, H
  <2>3. S \in SUBSET DOMAIN H BY <1>4, <2>1
  <2> QED BY <1>4, <2>1, <2>2, <2>3, ReachWithin
<1> HIDE DEF S
<1> QED BY <1>1, <1>3, <1>4, <1>5 DEF Complete

\* A module whose value is known has its task accepted.
LEMMA ModuleHas ==
  ASSUME NEW flow, IsPlan(flow), NEW A, AllTasks(flow, A), NEW seed,
         NEW id, IsTask(flow, id), flow.steps[id[1]].kind = "module", Denote(flow, A, seed, id[1]).ok
  PROVE  id \in DOMAIN A
<1>1. id[1] \in Nodes(flow) BY DEF IsTask
<1>2. Denote(flow, A, seed, id[1]) = OneOf(A, OutputsOf(A, id[1])) BY <1>1, DenoteModule
<1>3. OneOf(A, OutputsOf(A, id[1])).ok BY <1>2
<1>4. PICK j \in OutputsOf(A, id[1]) : OneOf(A, OutputsOf(A, id[1])) = Known(A[j]) BY <1>3, OneOfIs
<1>5. j \in DOMAIN A /\ j[1] = id[1] BY DEF OutputsOf
<1>6. IsTask(flow, j) BY <1>5 DEF AllTasks
<1> QED BY <1>5, <1>6, OneTask

\* A map whose value is known has the task of every item accepted.
LEMMA ItemHas ==
  ASSUME NEW flow, IsPlan(flow), NEW A, AllTasks(flow, A), NEW seed,
         NEW id, IsTask(flow, id), flow.steps[id[1]].kind = "map_module", Denote(flow, A, seed, id[1]).ok,
         Last(id[2])[2] \in ToSet(Items[Denote(flow, A, seed, flow.steps[id[1]].deps[1]).value])
  PROVE  id \in DOMAIN A
<1> DEFINE n == id[1]
           input == Denote(flow, A, seed, flow.steps[n].deps[1])
           items == Items[input.value]
           s == [i \in DOMAIN items |-> OneOf(A, ItemTask(A, n, items[i]))]
           item == Last(id[2])[2]
<1>1. n \in Nodes(flow) BY DEF IsTask
<1>2. Denote(flow, A, seed, n) = IF input.ok THEN Joined(s) ELSE Unresolved
  BY <1>1, DenoteMap, Zenon DEF MapMeaning
<1>3. Joined(s).ok
  <2> HIDE DEF s, input
  <2> QED BY <1>2 DEF Unresolved
<1>4. AllResolved(s)
  <2> HIDE DEF s
  <2> QED BY <1>3 DEF Joined, Unresolved
<1>5. PICK i \in DOMAIN items : items[i] = item
  <2> HIDE DEF items, item
  <2>1. item \in ToSet(items) BY DEF items, item
  <2> QED BY <2>1, Zenon DEF ToSet
<1>6. OneOf(A, ItemTask(A, n, item)).ok
  <2>1. OneOf(A, ItemTask(A, n, items[i])).ok BY <1>4, Zenon DEF AllResolved
  <2> QED BY <1>5, <2>1
<1> HIDE DEF item, items, n
<1>7. PICK j \in ItemTask(A, n, item) : OneOf(A, ItemTask(A, n, item)) = Known(A[j]) BY <1>6, OneOfIs
<1>8. j \in DOMAIN A /\ j[1] = n /\ Last(j[2])[2] = item BY DEF ItemTask, OutputsOf
<1>9. IsTask(flow, j) BY <1>8 DEF AllTasks
<1> QED BY <1>8, <1>9, OneTask DEF n, item

LEMMA CompleteHas ==
  ASSUME NEW flow, IsPlan(flow), NEW A, AllTasks(flow, A), NEW seed,
         NEW value, Complete(flow, A, seed, value), NEW id,
         \/ IsStaticTask(flow, id)
         \/ IsTask(flow, id) /\ \E input : Released(flow, A, seed, id, input)
  PROVE  id \in DOMAIN A
<1>1. CASE IsStaticTask(flow, id)
  <2>1. IsTask(flow, id) /\ id[1] \in Always(flow) /\ flow.steps[id[1]].kind = "module"
    BY <1>1 DEF IsStaticTask
  <2>2. id[1] \in Demanded(flow, A, seed, flow.output) BY <2>1, AlwaysDemanded
  <2>3. Denote(flow, A, seed, id[1]).ok BY <2>2 DEF Complete
  <2> QED BY <2>1, <2>3, ModuleHas
<1>2. ASSUME IsTask(flow, id), NEW input, Released(flow, A, seed, id, input) PROVE id \in DOMAIN A
  <2>1. id[1] \in Demanded(flow, A, seed, flow.output) BY <1>2, Zenon DEF Released
  <2>2. Denote(flow, A, seed, id[1]).ok BY <2>1 DEF Complete
  <2>3. CASE flow.steps[id[1]].kind = "module" BY <1>2, <2>2, <2>3, ModuleHas
  <2>4. CASE flow.steps[id[1]].kind # "module"
    <3>1. flow.steps[id[1]].kind = "map_module" BY <1>2, <2>4 DEF IsTask
    <3>2. Last(id[2])[2] \in ToSet(Items[Denote(flow, A, seed, flow.steps[id[1]].deps[1]).value])
      BY <1>2, <3>1, Zenon DEF Released
    <3> QED BY <1>2, <2>2, <3>1, <3>2, ItemHas, Zenon
  <2> QED BY <2>3, <2>4
<1> QED BY <1>1, <1>2

-----------------------------------------------------------------------------
(***************************************************************************)
(* The tasks of a run and the calls that are to come, for a plan pl, the   *)
(* tasks ts of a run, its root input rt and the accepted results A.        *)
(***************************************************************************)

\* t has the columns of a task.
IsRow(t) == t \in [status : {t.status}, record : {t.record}, output : {t.output}]

TaskFine(pl, rt, A, id, t) ==
  /\ IsTask(pl, id) /\ IsRow(t)
  /\ id[1] \in Demanded(pl, A, rt, pl.output)
  /\ t.status = "SUCCEEDED" => t.output \in Values
  /\ t.record # Null => Released(pl, A, rt, id, t.record.input)

TasksFine(pl, rt, A, ts) == \A id \in DOMAIN ts : TaskFine(pl, rt, A, id, ts[id])

AllAccepted(ts) == \A id \in DOMAIN ts : ts[id].status = "SUCCEEDED"

\* The run may end with this value, and has no task that is not accepted.
Ended(pl, rt, ts, value) == AllAccepted(ts) /\ Complete(pl, AcceptedIn(ts), rt, value)

\* A call of the store that a process is going to make.
CallFine(pl, rt, ts, c) ==
  LET A == AcceptedIn(ts) IN
  /\ c.op = "precreate" => IsStaticTask(pl, c.id)
  /\ c.op \in {"enqueue", "ready"} => IsTask(pl, c.id) /\ Released(pl, A, rt, c.id, c.record.input)
  /\ c.op = "ready" => c.id \in DOMAIN ts
  /\ c.op \in {"count", "complete"} => Complete(pl, A, rt, c.output)
  /\ c.op = "complete" => AllAccepted(ts)

CallsFine(pl, rt, ts, calls) == \E C : calls \in Seq(C) /\ \A c \in C : CallFine(pl, rt, ts, c)

\* A change of the tasks of a run from ts to us: an accepted task stays, what is new
\* is right for the results accepted so far, and a run that may end has no other tasks.
Move(pl, rt, ts, us) ==
  /\ DOMAIN ts \subseteq DOMAIN us
  /\ \A id \in DOMAIN ts : ts[id].status = "SUCCEEDED" => us[id] = ts[id]
  /\ TasksFine(pl, rt, AcceptedIn(ts), us)
  /\ \A value : Ended(pl, rt, ts, value) => DOMAIN us = DOMAIN ts

LEMMA FineIn ==
  ASSUME NEW pl, NEW rt, NEW ts, NEW C, \A c \in C : CallFine(pl, rt, ts, c), NEW calls \in Seq(C)
  PROVE  CallsFine(pl, rt, ts, calls)
BY DEF CallsFine

LEMMA NoCalls ==
  ASSUME NEW pl, NEW rt, NEW ts
  PROVE  CallsFine(pl, rt, ts, <<>>)
<1>1. <<>> \in Seq({}) OBVIOUS
<1> QED BY <1>1, FineIn

LEMMA OneCall ==
  ASSUME NEW pl, NEW rt, NEW ts, NEW c, CallFine(pl, rt, ts, c)
  PROVE  CallsFine(pl, rt, ts, <<c>>)
<1>1. <<c>> \in Seq({c}) OBVIOUS
<1> QED BY <1>1, FineIn

\* The tasks that are accepted stay accepted.
LEMMA MoveExtends ==
  ASSUME NEW pl, NEW rt, NEW ts, NEW us, Move(pl, rt, ts, us)
  PROVE  /\ Extends(AcceptedIn(ts), AcceptedIn(us)) /\ AllTasks(pl, AcceptedIn(us))
         /\ \A id \in DOMAIN us : IsTask(pl, id)
<1>1. Extends(AcceptedIn(ts), AcceptedIn(us)) BY DEF Move, Extends, AcceptedIn
<1>2. \A id \in DOMAIN us : IsTask(pl, id) BY DEF Move, TasksFine, TaskFine
<1>3. DOMAIN AcceptedIn(us) \subseteq DOMAIN us BY DEF AcceptedIn
<1> QED BY <1>1, <1>2, <1>3 DEF AllTasks

LEMMA TasksStay ==
  ASSUME NEW pl, IsPlan(pl), NEW rt, NEW A, NEW B, Extends(A, B), AllTasks(pl, B),
         NEW us, TasksFine(pl, rt, A, us)
  PROVE  TasksFine(pl, rt, B, us)
<1>1. ASSUME NEW id \in DOMAIN us PROVE TaskFine(pl, rt, B, id, us[id])
  <2>1. TaskFine(pl, rt, A, id, us[id]) BY DEF TasksFine
  <2>2. id[1] \in Nodes(pl) BY <2>1 DEF TaskFine, IsTask
  <2>3. Demanded(pl, A, rt, pl.output) \subseteq Demanded(pl, B, rt, pl.output) BY DemandedGrows
  <2>4. ASSUME us[id].record # Null PROVE Released(pl, B, rt, id, us[id].record.input)
    <3>1. Released(pl, A, rt, id, us[id].record.input) BY <2>1, <2>4 DEF TaskFine
    <3> QED BY <2>2, <3>1, ReleasedGrows
  <2> QED BY <2>1, <2>3, <2>4 DEF TaskFine
<1> QED BY <1>1 DEF TasksFine

LEMMA MoveTasks ==
  ASSUME NEW pl, IsPlan(pl), NEW rt, NEW ts, NEW us, Move(pl, rt, ts, us)
  PROVE  TasksFine(pl, rt, AcceptedIn(us), us)
BY MoveExtends, TasksStay DEF Move

LEMMA MoveEnded ==
  ASSUME NEW pl, NEW rt, NEW ts, NEW us, Move(pl, rt, ts, us), NEW value, Ended(pl, rt, ts, value)
  PROVE  Ended(pl, rt, us, value)
<1>1. DOMAIN us = DOMAIN ts /\ \A id \in DOMAIN ts : us[id] = ts[id] /\ ts[id].status = "SUCCEEDED"
  BY DEF Move, Ended, AllAccepted
<1>2. AcceptedIn(us) = AcceptedIn(ts) BY <1>1 DEF AcceptedIn
<1> QED BY <1>1, <1>2 DEF Ended, AllAccepted

LEMMA MoveCalls ==
  ASSUME NEW pl, IsPlan(pl), NEW rt, NEW ts, NEW us, Move(pl, rt, ts, us),
         NEW calls, CallsFine(pl, rt, ts, calls)
  PROVE  CallsFine(pl, rt, us, calls)
<1> DEFINE A == AcceptedIn(ts)
           B == AcceptedIn(us)
<1>1. Extends(A, B) /\ AllTasks(pl, B) BY MoveExtends
<1>2. ASSUME NEW c, CallFine(pl, rt, ts, c) PROVE CallFine(pl, rt, us, c)
  <2>1. ASSUME c.op \in {"enqueue", "ready"}
        PROVE  IsTask(pl, c.id) /\ Released(pl, B, rt, c.id, c.record.input)
    <3>1. IsTask(pl, c.id) /\ Released(pl, A, rt, c.id, c.record.input) BY <1>2, <2>1 DEF CallFine
    <3>2. c.id[1] \in Nodes(pl) BY <3>1 DEF IsTask
    <3> QED BY <1>1, <3>1, <3>2, ReleasedGrows
  <2>2. ASSUME c.op \in {"count", "complete"} PROVE Complete(pl, B, rt, c.output)
    <3>1. Complete(pl, A, rt, c.output) BY <1>2, <2>2 DEF CallFine
    <3> QED BY <1>1, <3>1, CompleteGrows
  <2>3. ASSUME c.op = "complete" PROVE AllAccepted(us)
    <3>1. Ended(pl, rt, ts, c.output) BY <1>2, <2>3 DEF CallFine, Ended
    <3> QED BY <3>1, MoveEnded DEF Ended
  <2>4. c.op = "ready" => c.id \in DOMAIN us BY <1>2 DEF CallFine, Move
  <2>5. c.op = "precreate" => IsStaticTask(pl, c.id) BY <1>2 DEF CallFine
  <2> QED BY <2>1, <2>2, <2>3, <2>4, <2>5 DEF CallFine
<1> QED BY <1>2 DEF CallsFine

\* Nothing happens to the tasks.
LEMMA MoveNone ==
  ASSUME NEW pl, NEW rt, NEW ts, TasksFine(pl, rt, AcceptedIn(ts), ts)
  PROVE  Move(pl, rt, ts, ts)
BY DEF Move

\* One task changes that is not accepted, or is new.
LEMMA MoveOne ==
  ASSUME NEW pl, NEW rt, NEW ts, TasksFine(pl, rt, AcceptedIn(ts), ts),
         NEW us, NEW id, DOMAIN us = DOMAIN ts \cup {id},
         \A j \in DOMAIN ts : j # id => us[j] = ts[j],
         TaskFine(pl, rt, AcceptedIn(ts), id, us[id]),
         id \in DOMAIN ts => ts[id].status # "SUCCEEDED",
         \A value : ~Ended(pl, rt, ts, value)
  PROVE  Move(pl, rt, ts, us)
<1>1. \A j \in DOMAIN ts : ts[j].status = "SUCCEEDED" => us[j] = ts[j] OBVIOUS
<1>2. ASSUME NEW j \in DOMAIN us PROVE TaskFine(pl, rt, AcceptedIn(ts), j, us[j])
  <2>1. CASE j = id BY <2>1
  <2>2. CASE j # id BY <2>2 DEF TasksFine
  <2> QED BY <2>1, <2>2
<1> QED BY <1>1, <1>2 DEF Move, TasksFine

\* A task that is not accepted keeps the run from its end.
LEMMA NotEnded ==
  ASSUME NEW pl, NEW rt, NEW ts, NEW id \in DOMAIN ts, ts[id].status # "SUCCEEDED"
  PROVE  \A value : ~Ended(pl, rt, ts, value)
BY DEF Ended, AllAccepted

\* So does a task that may be asked for and does not exist.
LEMMA NotEndedYet ==
  ASSUME NEW pl, IsPlan(pl), NEW rt, NEW ts, TasksFine(pl, rt, AcceptedIn(ts), ts),
         NEW id, id \notin DOMAIN ts,
         \/ IsStaticTask(pl, id)
         \/ IsTask(pl, id) /\ \E input : Released(pl, AcceptedIn(ts), rt, id, input)
  PROVE  \A value : ~Ended(pl, rt, ts, value)
<1>1. DOMAIN AcceptedIn(ts) \subseteq DOMAIN ts BY DEF AcceptedIn
<1>2. AllTasks(pl, AcceptedIn(ts)) BY <1>1 DEF AllTasks, TasksFine, TaskFine
<1>3. id \notin DOMAIN AcceptedIn(ts) BY <1>1
<1> QED BY <1>2, <1>3, CompleteHas DEF Ended

-----------------------------------------------------------------------------
(***************************************************************************)
(* The invariant.                                                          *)
(***************************************************************************)

\* j has the fields of a job.
IsJob(j) == j \in [run : {j.run}, calls : {j.calls}]

\* Runs are started with plans and inputs.
TypeInv ==
  /\ DOMAIN runStatus = Runs /\ DOMAIN tasks = Runs /\ DOMAIN output = Runs /\ DOMAIN job = Procs
  /\ \A p \in Procs : IsJob(job[p])
  /\ \A r \in Runs : /\ plan[r] # Null => IsPlan(plan[r]) /\ root[r] \in Values
                     /\ runStatus[r] # "ABSENT" => plan[r] # Null

\* The run has a plan whose scopes are told apart.
Sound(r) == plan[r] # Null /\ WellScoped(plan[r])

\* All tasks of a run are as the plan denotes, so is every call that is to come, and
\* so is the output of a run that has succeeded.
RunInv(r) ==
  /\ TasksFine(plan[r], root[r], AcceptedIn(tasks[r]), tasks[r])
  /\ \A p \in Procs : job[p].run = r => CallsFine(plan[r], root[r], tasks[r], job[p].calls)
  /\ runStatus[r] = "SUCCEEDED" => Ended(plan[r], root[r], tasks[r], output[r])

SchedulerInv == TypeInv /\ \A r \in Runs : Sound(r) => RunInv(r)

\* What a step does to a run, told with the tasks before the step.
RunStep(r) ==
  /\ Move(plan[r], root[r], tasks[r], tasks'[r])
  /\ \A p \in Procs : job'[p].run = r => CallsFine(plan[r], root[r], tasks[r], job'[p].calls)
  /\ runStatus'[r] = "SUCCEEDED" => Ended(plan[r], root[r], tasks[r], output'[r])

LEMMA RunStepInv ==
  ASSUME NEW r \in Runs, TypeInv, Sound(r), plan' = plan, root' = root, RunStep(r)
  PROVE  RunInv(r)'
<1>1. IsPlan(plan[r]) BY DEF TypeInv, Sound
<1>2. Move(plan[r], root[r], tasks[r], tasks'[r]) BY DEF RunStep
<1>3. TasksFine(plan[r], root[r], AcceptedIn(tasks'[r]), tasks'[r]) BY <1>1, <1>2, MoveTasks
<1>4. ASSUME NEW p \in Procs, job'[p].run = r
      PROVE  CallsFine(plan[r], root[r], tasks'[r], job'[p].calls)
  <2>1. CallsFine(plan[r], root[r], tasks[r], job'[p].calls) BY <1>4 DEF RunStep
  <2> QED BY <1>1, <1>2, <2>1, MoveCalls
<1>5. ASSUME runStatus'[r] = "SUCCEEDED" PROVE Ended(plan[r], root[r], tasks'[r], output'[r])
  <2>1. Ended(plan[r], root[r], tasks[r], output'[r]) BY <1>5 DEF RunStep
  <2> QED BY <1>2, <2>1, MoveEnded
<1> QED BY <1>3, <1>4, <1>5 DEF RunInv

LEMMA InitInv ==
  ASSUME Init
  PROVE  SchedulerInv
<1>1. plan \in Scenarios /\ DOMAIN plan = Runs /\ \A r \in Runs : plan[r] # Null => IsPlan(plan[r])
  BY ScenarioAssumption DEF Init
<1>2. \A r \in Runs : plan[r] # Null => root[r] \in Values BY <1>1 DEF Init
<1>3. \A p \in Procs : IsJob(job[p]) /\ job[p].calls = <<>> BY DEF Init, Idle, IsJob
<1>4. TypeInv BY <1>1, <1>2, <1>3 DEF Init, TypeInv
<1>5. ASSUME NEW r \in Runs, Sound(r) PROVE RunInv(r)
  <2>1. DOMAIN tasks[r] = {} BY DEF Init, NoTasks
  <2>2. TasksFine(plan[r], root[r], AcceptedIn(tasks[r]), tasks[r]) BY <2>1 DEF TasksFine
  <2>3. ASSUME NEW p \in Procs PROVE CallsFine(plan[r], root[r], tasks[r], job[p].calls)
    BY <1>3, NoCalls
  <2>4. runStatus[r] # "SUCCEEDED" BY DEF Init
  <2> QED BY <2>2, <2>3, <2>4 DEF RunInv
<1> QED BY <1>4, <1>5 DEF SchedulerInv

-----------------------------------------------------------------------------
(***************************************************************************)
(* The calls of a process.                                                 *)
(***************************************************************************)

\* The calls that are left when one has returned.
LEMMA CallsTail ==
  ASSUME NEW pl, NEW rt, NEW ts, NEW calls, CallsFine(pl, rt, ts, calls), calls # <<>>
  PROVE  CallFine(pl, rt, ts, Head(calls)) /\ CallsFine(pl, rt, ts, Tail(calls))
<1>1. PICK C : calls \in Seq(C) /\ \A c \in C : CallFine(pl, rt, ts, c) BY DEF CallsFine
<1>2. Head(calls) \in C /\ Tail(calls) \in Seq(C) BY <1>1
<1> QED BY <1>1, <1>2 DEF CallsFine

JobsType == DOMAIN job' = Procs /\ \A p \in Procs : IsJob(job'[p])

JobsFine(r) ==
  \A p \in Procs : job'[p].run = r => CallsFine(plan[r], root[r], tasks[r], job'[p].calls)

\* What a step keeps: types, and the invariant of every run.
Keeps ==
  /\ plan' = plan /\ root' = root
  /\ TypeInv'
  /\ \A r \in Runs : Sound(r) /\ RunInv(r) => RunStep(r)

LEMMA JobOne ==
  ASSUME TypeInv, NEW p \in Procs, NEW j, job' = [job EXCEPT ![p] = j], IsJob(j)
  PROVE  /\ JobsType
         /\ \A r \in Runs :
              /\ RunInv(r)
              /\ j.run = r => CallsFine(plan[r], root[r], tasks[r], j.calls)
              => JobsFine(r)
<1>1. DOMAIN job' = Procs /\ job'[p] = j /\ \A q \in Procs : q # p => job'[q] = job[q]
  BY DEF TypeInv
<1>2. ASSUME NEW q \in Procs PROVE IsJob(job'[q])
  <2>1. CASE q = p BY <1>1, <2>1
  <2>2. CASE q # p BY <1>1, <2>2 DEF TypeInv
  <2> QED BY <2>1, <2>2
<1>3. ASSUME NEW r \in Runs, RunInv(r), j.run = r => CallsFine(plan[r], root[r], tasks[r], j.calls),
             NEW q \in Procs, job'[q].run = r
      PROVE  CallsFine(plan[r], root[r], tasks[r], job'[q].calls)
  <2>1. CASE q = p BY <1>1, <1>3, <2>1
  <2>2. CASE q # p BY <1>1, <1>3, <2>2 DEF RunInv
  <2> QED BY <2>1, <2>2
<1> QED BY <1>1, <1>2, <1>3 DEF JobsType, JobsFine

\* A process stops.
LEMMA JobIdle ==
  ASSUME TypeInv, NEW p \in Procs, job' = [job EXCEPT ![p] = Idle]
  PROVE  JobsType /\ \A r \in Runs : RunInv(r) => JobsFine(r)
<1>1. IsJob(Idle) /\ Idle.calls = <<>> BY DEF Idle, IsJob
<1> QED BY <1>1, NoCalls, JobOne, ZenonT(60)

\* A process has made its call.
LEMMA JobDone ==
  ASSUME TypeInv, NEW p \in Procs, job[p].calls # <<>>, Continue(p) \/ Abort(p)
  PROVE  JobsType /\ \A r \in Runs : RunInv(r) => JobsFine(r)
<1> DEFINE rest == Tail(job[p].calls)
           j == [job[p] EXCEPT !.calls = rest]
<1>1. CASE job' = [job EXCEPT ![p] = Idle] BY <1>1, JobIdle
<1>2. CASE job' = [job EXCEPT ![p] = j]
  <2>1. IsJob(j) /\ j.run = job[p].run /\ j.calls = rest
    <3>1. IsJob(job[p]) BY DEF TypeInv
    <3> QED BY <3>1 DEF IsJob
  <2>2. \A r \in Runs : RunInv(r) /\ j.run = r => CallsFine(plan[r], root[r], tasks[r], rest)
    <3> HIDE DEF j
    <3> QED BY <2>1, CallsTail DEF RunInv
  <2> HIDE DEF j, rest
  <2> QED BY <1>2, <2>1, <2>2, JobOne
<1>3. job' = [job EXCEPT ![p] = Idle] \/ job' = [job EXCEPT ![p] = j]
  <2>1. CASE Abort(p) BY <2>1 DEF Abort
  <2>2. CASE Continue(p)
    <3>1. job' = [job EXCEPT ![p] = IF rest = <<>> THEN Idle ELSE j] BY <2>2 DEF Continue
    <3> HIDE DEF rest, j
    <3> QED BY <3>1
  <2> QED BY <2>1, <2>2
<1> QED BY <1>1, <1>2, <1>3

\* The call under way.
LEMMA CallUnderWay ==
  ASSUME NEW r \in Runs, RunInv(r), NEW p \in Procs, job[p].run = r, NEW op, Doing(p, op)
  PROVE  /\ job[p].calls # <<>> /\ Head(job[p].calls).op = op
         /\ CallFine(plan[r], root[r], tasks[r], Head(job[p].calls))
BY CallsTail DEF RunInv, Doing

\* A run whose tasks, status and output stay.
LEMMA RunStays ==
  ASSUME NEW r \in Runs, RunInv(r), JobsFine(r), tasks'[r] = tasks[r],
         runStatus'[r] = "SUCCEEDED" => runStatus[r] = "SUCCEEDED" /\ output'[r] = output[r]
  PROVE  RunStep(r)
<1>1. Move(plan[r], root[r], tasks[r], tasks[r]) BY MoveNone DEF RunInv
<1> QED BY <1>1 DEF RunStep, JobsFine, RunInv

\* A run in which one task changes.
LEMMA RunMoves ==
  ASSUME NEW r \in Runs, RunInv(r), JobsFine(r), Move(plan[r], root[r], tasks[r], tasks'[r]),
         runStatus'[r] = "SUCCEEDED" => runStatus[r] = "SUCCEEDED" /\ output'[r] = output[r]
  PROVE  RunStep(r)
BY DEF RunStep, JobsFine, RunInv

-----------------------------------------------------------------------------
(***************************************************************************)
(* Every action.                                                           *)
(***************************************************************************)

LEMMA EnqueueKeeps ==
  ASSUME TypeInv, NEW p \in Procs, EnqueueTask(p)
  PROVE  Keeps
<1> DEFINE q == job[p].run
           call == Head(job[p].calls)
           id == call.id
           t == IF call.op = "enqueue" THEN NewTask("READY", call.record) ELSE NewTask("BLOCKED", Null)
<1>1. /\ Doing(p, "enqueue") \/ Doing(p, "precreate")
      /\ Continue(p) \/ Abort(p)
      /\ UNCHANGED tasks \/ (id \notin DOMAIN tasks[q] /\ PutTask(q, id, t))
      /\ UNCHANGED <<plan, root, runStatus, output>>
  BY Zenon DEF EnqueueTask
<1>2. job[p].calls # <<>> /\ call.op \in {"enqueue", "precreate"} BY <1>1 DEF Doing
<1>3. JobsType /\ \A r \in Runs : RunInv(r) => JobsFine(r) BY <1>1, <1>2, JobDone
<1>4. DOMAIN tasks' = Runs BY <1>1 DEF TypeInv, PutTask
<1>5. TypeInv' BY <1>1, <1>3, <1>4 DEF TypeInv, JobsType
<1>6. ASSUME NEW r \in Runs, Sound(r), RunInv(r) PROVE RunStep(r)
  <2>1. JobsFine(r) BY <1>3, <1>6
  <2>2. CASE tasks'[r] = tasks[r] BY <1>1, <1>6, <2>1, <2>2, RunStays
  <2>3. CASE tasks'[r] # tasks[r]
    <3>1. /\ q = r /\ id \notin DOMAIN tasks[r] /\ tasks'[r] = Put(tasks[r], id, t)
      BY <1>1, <2>3 DEF PutTask, TypeInv
    <3>2. CallFine(plan[r], root[r], tasks[r], call) BY <1>1, <1>6, <3>1, CallUnderWay
    <3>3. IsPlan(plan[r]) BY <1>6 DEF TypeInv, Sound
    <3>4. TasksFine(plan[r], root[r], AcceptedIn(tasks[r]), tasks[r]) BY <1>6 DEF RunInv
    <3>5. \/ IsStaticTask(plan[r], id) /\ t = NewTask("BLOCKED", Null)
          \/ /\ IsTask(plan[r], id) /\ t = NewTask("READY", call.record)
             /\ Released(plan[r], AcceptedIn(tasks[r]), root[r], id, call.record.input)
      BY <1>2, <3>2 DEF CallFine
    <3>6. \A value : ~Ended(plan[r], root[r], tasks[r], value)
      <4> HIDE DEF id, t
      <4> QED BY <3>1, <3>3, <3>4, <3>5, NotEndedYet
    <3>7. TaskFine(plan[r], root[r], AcceptedIn(tasks[r]), id, t)
      <4> HIDE DEF id, t, call
      <4>1. CASE IsStaticTask(plan[r], id) /\ t = NewTask("BLOCKED", Null)
        <5>1. IsTask(plan[r], id) /\ id[1] \in Demanded(plan[r], AcceptedIn(tasks[r]), root[r], plan[r].output)
          BY <3>3, <4>1, AlwaysDemanded DEF IsStaticTask
        <5>2. IsRow(t) /\ t.status = "BLOCKED" /\ t.record = Null BY <4>1 DEF NewTask, IsRow
        <5> QED BY <5>1, <5>2 DEF TaskFine
      <4>2. CASE /\ IsTask(plan[r], id) /\ t = NewTask("READY", call.record)
                 /\ Released(plan[r], AcceptedIn(tasks[r]), root[r], id, call.record.input)
        <5>1. id[1] \in Demanded(plan[r], AcceptedIn(tasks[r]), root[r], plan[r].output)
          BY <4>2, Zenon DEF Released
        <5>2. IsRow(t) /\ t.status = "READY" /\ t.record = call.record BY <4>2 DEF NewTask, IsRow
        <5> QED BY <4>2, <5>1, <5>2 DEF TaskFine
      <4> QED BY <3>5, <4>1, <4>2
    <3>8. /\ DOMAIN tasks'[r] = DOMAIN tasks[r] \cup {id} /\ tasks'[r][id] = t
          /\ \A j \in DOMAIN tasks[r] : j # id => tasks'[r][j] = tasks[r][j]
      <4> HIDE DEF id, t
      <4> QED BY <3>1 DEF Put
    <3> HIDE DEF id, t
    <3>9. Move(plan[r], root[r], tasks[r], tasks'[r])
      BY <3>1, <3>4, <3>6, <3>7, <3>8, MoveOne
    <3> QED BY <1>1, <1>6, <2>1, <3>9, RunMoves
  <2> QED BY <2>2, <2>3
<1> QED BY <1>1, <1>5, <1>6 DEF Keeps

LEMMA ReadyKeeps ==
  ASSUME TypeInv, NEW p \in Procs, ReadyTask(p)
  PROVE  Keeps
<1> DEFINE q == job[p].run
           call == Head(job[p].calls)
           id == call.id
           t == NewTask("READY", call.record)
<1>1. /\ Doing(p, "ready")
      /\ Continue(p) \/ Abort(p)
      /\ UNCHANGED tasks \/ (tasks[q][id].status = "BLOCKED" /\ PutTask(q, id, t))
      /\ UNCHANGED <<plan, root, runStatus, output>>
  BY Zenon DEF ReadyTask
<1>2. job[p].calls # <<>> /\ call.op = "ready" BY <1>1 DEF Doing
<1>3. JobsType /\ \A r \in Runs : RunInv(r) => JobsFine(r) BY <1>1, <1>2, JobDone
<1>4. DOMAIN tasks' = Runs BY <1>1 DEF TypeInv, PutTask
<1>5. TypeInv' BY <1>1, <1>3, <1>4 DEF TypeInv, JobsType
<1>6. ASSUME NEW r \in Runs, Sound(r), RunInv(r) PROVE RunStep(r)
  <2>1. JobsFine(r) BY <1>3, <1>6
  <2>2. CASE tasks'[r] = tasks[r] BY <1>1, <1>6, <2>1, <2>2, RunStays
  <2>3. CASE tasks'[r] # tasks[r]
    <3>1. /\ q = r /\ tasks[r][id].status = "BLOCKED" /\ tasks'[r] = Put(tasks[r], id, t)
      BY <1>1, <2>3 DEF PutTask, TypeInv
    <3>2. CallFine(plan[r], root[r], tasks[r], call) BY <1>1, <1>6, <3>1, CallUnderWay
    <3>3. /\ id \in DOMAIN tasks[r] /\ IsTask(plan[r], id)
          /\ Released(plan[r], AcceptedIn(tasks[r]), root[r], id, call.record.input)
      BY <1>2, <3>2 DEF CallFine
    <3>4. TasksFine(plan[r], root[r], AcceptedIn(tasks[r]), tasks[r]) BY <1>6 DEF RunInv
    <3>5. tasks[r][id].status # "SUCCEEDED" BY <3>1
    <3>6. \A value : ~Ended(plan[r], root[r], tasks[r], value) BY <3>3, <3>5, NotEnded
    <3>7. TaskFine(plan[r], root[r], AcceptedIn(tasks[r]), id, t)
      <4> HIDE DEF id, call
      <4>1. id[1] \in Demanded(plan[r], AcceptedIn(tasks[r]), root[r], plan[r].output)
        BY <3>3, Zenon DEF Released
      <4>2. IsRow(t) /\ t.status = "READY" /\ t.record = call.record BY DEF NewTask, IsRow
      <4> QED BY <3>3, <4>1, <4>2 DEF TaskFine
    <3>8. /\ DOMAIN tasks'[r] = DOMAIN tasks[r] \cup {id} /\ tasks'[r][id] = t
          /\ \A j \in DOMAIN tasks[r] : j # id => tasks'[r][j] = tasks[r][j]
      <4> HIDE DEF id, t
      <4> QED BY <3>1 DEF Put
    <3> HIDE DEF id, t
    <3>9. Move(plan[r], root[r], tasks[r], tasks'[r])
      BY <3>4, <3>5, <3>6, <3>7, <3>8, MoveOne
    <3> QED BY <1>1, <1>6, <2>1, <3>9, RunMoves
  <2> QED BY <2>2, <2>3
<1> QED BY <1>1, <1>5, <1>6 DEF Keeps

\* The tasks, the status and the output of every run stay.
LEMMA AllStay ==
  ASSUME TypeInv, JobsType, UNCHANGED <<plan, root, runStatus, output, tasks>>,
         \A r \in Runs : Sound(r) /\ RunInv(r) => JobsFine(r)
  PROVE  Keeps
<1>1. TypeInv' BY DEF TypeInv, JobsType
<1>2. ASSUME NEW r \in Runs, Sound(r), RunInv(r) PROVE RunStep(r) BY <1>2, RunStays
<1> QED BY <1>1, <1>2 DEF Keeps

LEMMA DecideKeeps ==
  ASSUME TypeInv, NEW p \in Procs, AppendDecision(p)
  PROVE  Keeps
<1>1. job[p].calls # <<>> BY DEF AppendDecision, Doing
<1>2. JobsType /\ \A r \in Runs : RunInv(r) => JobsFine(r) BY <1>1, JobDone DEF AppendDecision
<1>3. UNCHANGED <<plan, root, runStatus, output, tasks>> BY DEF AppendDecision
<1> QED BY <1>2, <1>3, AllStay

\* A process turns to other calls of its run.
LEMMA JobCalls ==
  ASSUME TypeInv, NEW p \in Procs, NEW calls, job' = [job EXCEPT ![p].calls = calls]
  PROVE  /\ JobsType
         /\ \A r \in Runs :
              /\ RunInv(r)
              /\ job[p].run = r => CallsFine(plan[r], root[r], tasks[r], calls)
              => JobsFine(r)
<1> DEFINE j == [job[p] EXCEPT !.calls = calls]
<1>1. IsJob(job[p]) BY DEF TypeInv
<1>2. IsJob(j) /\ j.run = job[p].run /\ j.calls = calls BY <1>1 DEF IsJob
<1>3. job' = [job EXCEPT ![p] = j] OBVIOUS
<1> HIDE DEF j
<1> QED BY <1>2, <1>3, JobOne

LEMMA CountKeeps ==
  ASSUME TypeInv, NEW p \in Procs, CountTasks(p)
  PROVE  Keeps
<1> DEFINE q == job[p].run
           call == Head(job[p].calls)
           c == [op |-> "complete", output |-> call.output]
<1>1. /\ Doing(p, "count")
      /\ \/ AllAccepted(tasks[q]) /\ job' = [job EXCEPT ![p].calls = <<c>>]
         \/ Abort(p)
      /\ UNCHANGED <<plan, root, runStatus, output, tasks>>
  BY DEF CountTasks, AllAccepted, runVars
<1>2. CASE Abort(p)
  <2>1. job' = [job EXCEPT ![p] = Idle] BY <1>2 DEF Abort
  <2> QED BY <1>1, <2>1, JobIdle, AllStay
<1>3. CASE AllAccepted(tasks[q]) /\ job' = [job EXCEPT ![p].calls = <<c>>]
  <2>1. ASSUME NEW r \in Runs, RunInv(r), q = r
        PROVE  CallsFine(plan[r], root[r], tasks[r], <<c>>)
    <3>1. CallFine(plan[r], root[r], tasks[r], call) /\ call.op = "count"
      BY <1>1, <2>1, CallUnderWay
    <3>2. Complete(plan[r], AcceptedIn(tasks[r]), root[r], call.output) BY <3>1 DEF CallFine
    <3>3. c.op = "complete" /\ c.output = call.output OBVIOUS
    <3> HIDE DEF c, call
    <3>4. CallFine(plan[r], root[r], tasks[r], c) BY <1>3, <2>1, <3>2, <3>3 DEF CallFine
    <3> QED BY <3>4, OneCall
  <2> HIDE DEF c
  <2>2. JobsType /\ \A r \in Runs : RunInv(r) => JobsFine(r) BY <1>3, <2>1, JobCalls
  <2> QED BY <1>1, <2>2, AllStay
<1> QED BY <1>1, <1>2, <1>3

LEMMA CompleteKeeps ==
  ASSUME TypeInv, NEW p \in Procs, CompleteRun(p)
  PROVE  Keeps
<1> DEFINE q == job[p].run
           call == Head(job[p].calls)
<1>1. /\ Doing(p, "complete") /\ UNCHANGED <<plan, root, tasks>>
      /\ \/ /\ runStatus[q] = "RUNNING"
            /\ runStatus' = [runStatus EXCEPT ![q] = "SUCCEEDED"]
            /\ output' = [output EXCEPT ![q] = call.output]
            /\ Continue(p)
         \/ UNCHANGED <<runStatus, output>> /\ Abort(p)
  BY DEF CompleteRun
<1>2. job[p].calls # <<>> BY <1>1 DEF Doing
<1>3. JobsType /\ \A r \in Runs : RunInv(r) => JobsFine(r) BY <1>1, <1>2, JobDone
<1>4. CASE UNCHANGED <<runStatus, output>> BY <1>1, <1>3, <1>4, AllStay
<1>5. CASE /\ runStatus[q] = "RUNNING"
           /\ runStatus' = [runStatus EXCEPT ![q] = "SUCCEEDED"]
           /\ output' = [output EXCEPT ![q] = call.output]
  <2>1. DOMAIN runStatus' = Runs /\ DOMAIN output' = Runs BY <1>5 DEF TypeInv
  <2>2. \A r \in Runs : runStatus'[r] # "ABSENT" => plan[r] # Null BY <1>5 DEF TypeInv
  <2>3. TypeInv' BY <1>1, <1>3, <2>1, <2>2 DEF TypeInv, JobsType
  <2>4. ASSUME NEW r \in Runs, Sound(r), RunInv(r) PROVE RunStep(r)
    <3>1. JobsFine(r) BY <1>3, <2>4
    <3>2. CASE r = q
      <4>1. CallFine(plan[r], root[r], tasks[r], call) /\ call.op = "complete"
        BY <1>1, <2>4, <3>2, CallUnderWay
      <4>2. Ended(plan[r], root[r], tasks[r], call.output) BY <4>1 DEF CallFine, Ended
      <4>3. output'[r] = call.output BY <1>5, <3>2 DEF TypeInv
      <4>4. Move(plan[r], root[r], tasks[r], tasks'[r]) BY <1>1, <2>4, MoveNone DEF RunInv
      <4> QED BY <3>1, <4>2, <4>3, <4>4 DEF RunStep, JobsFine
    <3>3. CASE r # q
      <4>1. runStatus'[r] = runStatus[r] /\ output'[r] = output[r] BY <1>5, <3>3 DEF TypeInv
      <4> QED BY <1>1, <2>4, <3>1, <4>1, RunStays
    <3> QED BY <3>2, <3>3
  <2> QED BY <1>1, <2>3, <2>4 DEF Keeps
<1> QED BY <1>1, <1>4, <1>5

LEMMA FailKeeps ==
  ASSUME TypeInv, NEW p \in Procs, FailRun(p)
  PROVE  Keeps
<1> DEFINE q == job[p].run
<1>1. /\ UNCHANGED <<plan, root, tasks, output>> /\ Abort(p)
      /\ runStatus' = [runStatus EXCEPT ![q] = IF @ = "RUNNING" THEN "FAILED" ELSE @]
  BY DEF FailRun
<1>2. JobsType /\ \A r \in Runs : RunInv(r) => JobsFine(r) BY <1>1, JobIdle DEF Abort
<1>3. DOMAIN runStatus' = Runs BY <1>1 DEF TypeInv
<1>4. ASSUME NEW r \in Runs
      PROVE  /\ runStatus'[r] # "ABSENT" => runStatus[r] # "ABSENT"
             /\ runStatus'[r] = "SUCCEEDED" => runStatus[r] = "SUCCEEDED"
  BY <1>1 DEF TypeInv
<1>5. TypeInv' BY <1>1, <1>2, <1>3, <1>4 DEF TypeInv, JobsType
<1>6. ASSUME NEW r \in Runs, Sound(r), RunInv(r) PROVE RunStep(r) BY <1>1, <1>2, <1>4, <1>6, RunStays
<1> QED BY <1>1, <1>5, <1>6 DEF Keeps

\* What submit asks for: the static tasks, and then a pass.
LEMMA SubmitFine ==
  ASSUME NEW r \in Runs, IsPlan(plan[r]), Sound(r)
  PROVE  CallsFine(plan[r], root[r], tasks[r], SubmitCalls(r))
<1> DEFINE static == StaticTasks(plan[r])
           create == [i \in DOMAIN static |-> [op |-> "precreate", id |-> static[i]]]
           advance == [op |-> "advance"]
<1>1. PICK C : static \in Seq(C) /\ \A id \in C : IsStaticTask(plan[r], id)
  BY StaticSound DEF Sound
<1> DEFINE D == {[op |-> "precreate", id |-> id] : id \in C}
<1>2. ASSUME NEW c \in D PROVE CallFine(plan[r], root[r], tasks[r], c)
  <2>1. PICK id \in C : c = [op |-> "precreate", id |-> id] OBVIOUS
  <2>2. c.op = "precreate" /\ IsStaticTask(plan[r], c.id) BY <1>1, <2>1
  <2> QED BY <2>2 DEF CallFine
<1>3. create \in Seq(D)
  <2>1. static \in Seq(C) BY <1>1
  <2> HIDE DEF static
  <2>2. DOMAIN static = 1 .. Len(static) /\ Len(static) \in Nat BY <2>1
  <2>3. \A i \in 1 .. Len(static) : create[i] \in D BY <2>1, <2>2
  <2>4. create = [i \in 1 .. Len(static) |-> create[i]] BY <2>2
  <2> HIDE DEF D, create
  <2> QED BY <2>2, <2>3, <2>4
<1>4. CallFine(plan[r], root[r], tasks[r], advance) BY DEF CallFine
<1>5. SubmitCalls(r) = Append(create, advance) BY DEF SubmitCalls
<1> HIDE DEF static, create, D, advance
<1>6. Append(create, advance) \in Seq(D \cup {advance}) BY <1>3, AppendTo
<1> QED BY <1>2, <1>4, <1>5, <1>6 DEF CallsFine

LEMMA StartKeeps ==
  ASSUME TypeInv, NEW k \in Clients, NEW r \in Runs, Start(k, r)
  PROVE  Keeps
<1> DEFINE j == [run |-> r, calls |-> SubmitCalls(r)]
<1>1. /\ plan[r] # Null /\ CreateRun(r) /\ job' = [job EXCEPT ![k] = j]
      /\ UNCHANGED <<plan, root, output, tasks>>
  BY DEF Start
<1>2. IsJob(j) /\ j.run = r /\ j.calls = SubmitCalls(r) BY DEF IsJob
<1>3. k \in Procs BY DEF Procs
<1>4. IsPlan(plan[r]) BY <1>1 DEF TypeInv
<1> HIDE DEF j
<1>5. JobsType BY <1>1, <1>2, <1>3, JobOne
<1>6. ASSUME NEW q \in Runs, Sound(q), RunInv(q) PROVE JobsFine(q)
  <2>1. j.run = q => CallsFine(plan[q], root[q], tasks[q], j.calls)
    BY <1>2, <1>4, <1>6, SubmitFine
  <2> QED BY <1>1, <1>2, <1>3, <1>6, <2>1, JobOne
<1>7. /\ DOMAIN runStatus' = Runs
      /\ \A q \in Runs : /\ runStatus'[q] # "ABSENT" => plan[q] # Null
                         /\ runStatus'[q] = "SUCCEEDED" => runStatus[q] = "SUCCEEDED"
  BY <1>1 DEF CreateRun, TypeInv
<1>8. TypeInv' BY <1>1, <1>5, <1>7 DEF TypeInv, JobsType
<1>9. ASSUME NEW q \in Runs, Sound(q), RunInv(q) PROVE RunStep(q)
  BY <1>1, <1>6, <1>7, <1>9, RunStays
<1> QED BY <1>1, <1>8, <1>9 DEF Keeps

\* No process does anything.
LEMMA JobsStay ==
  ASSUME TypeInv, UNCHANGED job
  PROVE  JobsType /\ \A r \in Runs : RunInv(r) => JobsFine(r)
BY DEF TypeInv, JobsType, JobsFine, RunInv

LEMMA ListKeeps ==
  ASSUME TypeInv, NEW c \in Coordinators, ListActive(c)
  PROVE  Keeps
<1>1. UNCHANGED <<plan, root, runStatus, output, tasks, job>> BY DEF ListActive, runVars
<1> QED BY <1>1, JobsStay, AllStay

LEMMA ReachKeeps ==
  ASSUME TypeInv, NEW c \in Coordinators, ReachRun(c)
  PROVE  Keeps
<1> DEFINE advance == [op |-> "advance"]
           j == [run |-> Head(queue[c]), calls |-> <<advance>>]
<1>1. /\ UNCHANGED <<plan, root, runStatus, output, tasks>>
      /\ UNCHANGED job \/ job' = [job EXCEPT ![c] = j]
  BY DEF ReachRun, runVars
<1>2. CASE UNCHANGED job BY <1>1, <1>2, JobsStay, AllStay
<1>3. CASE job' = [job EXCEPT ![c] = j]
  <2>1. IsJob(j) /\ j.calls = <<advance>> BY DEF IsJob
  <2>2. advance.op = "advance" OBVIOUS
  <2>3. c \in Procs BY DEF Procs
  <2> HIDE DEF j, advance
  <2>4. \A r \in Runs : CallsFine(plan[r], root[r], tasks[r], <<advance>>)
    BY <2>2, OneCall DEF CallFine
  <2>5. JobsType /\ \A r \in Runs : RunInv(r) => JobsFine(r) BY <1>3, <2>1, <2>3, <2>4, JobOne
  <2> QED BY <1>1, <2>5, AllStay
<1> QED BY <1>1, <1>2, <1>3

\* What a pass over the run asks for.
LEMMA PassFine ==
  ASSUME NEW r \in Runs, TypeInv, Sound(r), RunInv(r)
  PROVE  CallsFine(plan[r], root[r], tasks[r], PassCalls(plan[r], Snapshot(r)))
<1> DEFINE snap == Snapshot(r)
           calls == PassCalls(plan[r], snap)
<1>1. snap.root = root[r] /\ snap.tasks = tasks[r] BY DEF Snapshot
<1>2. IsPlan(plan[r]) /\ WellScoped(plan[r]) /\ root[r] \in Values BY DEF TypeInv, Sound
<1> HIDE DEF snap
<1>3. SnapOK(plan[r], snap) BY <1>1, <1>2 DEF RunInv, TasksFine, TaskFine, SnapOK
<1>4. CallsSound(plan[r], snap, calls) BY <1>2, <1>3, PassSound
<1> HIDE DEF calls
<1>5. PICK C : calls \in Seq(C) /\ \A c \in C : CallSound(plan[r], snap, c) BY <1>4 DEF CallsSound
<1>6. ASSUME NEW c \in C PROVE CallFine(plan[r], root[r], tasks[r], c)
  <2>1. CallSound(plan[r], snap, c) BY <1>5
  <2> QED BY <1>1, <2>1 DEF CallSound, CallFine
<1>7. CallsFine(plan[r], root[r], tasks[r], calls) BY <1>5, <1>6 DEF CallsFine
<1> QED BY <1>7 DEF calls, snap

LEMMA AdvanceKeeps ==
  ASSUME TypeInv, NEW p \in Procs, Advance(p)
  PROVE  Keeps
<1> DEFINE q == job[p].run
           calls == IF runStatus[q] = "RUNNING" THEN PassCalls(plan[q], Snapshot(q)) ELSE <<>>
<1>1. /\ UNCHANGED <<plan, root, runStatus, output, tasks>>
      /\ job' = [job EXCEPT ![p] = IF calls = <<>> THEN Idle ELSE [@ EXCEPT !.calls = calls]]
  BY DEF Advance, runVars
<1>2. ASSUME NEW r \in Runs, Sound(r), RunInv(r), q = r
      PROVE  CallsFine(plan[r], root[r], tasks[r], calls)
  <2>1. CASE runStatus[q] = "RUNNING" BY <1>2, <2>1, PassFine
  <2>2. CASE runStatus[q] # "RUNNING" BY <2>2, NoCalls
  <2> QED BY <2>1, <2>2
<1> HIDE DEF calls
<1>3. CASE calls = <<>>
  <2>1. job' = [job EXCEPT ![p] = Idle] BY <1>1, <1>3
  <2> QED BY <1>1, <2>1, JobIdle, AllStay
<1>4. CASE calls # <<>>
  <2>1. job' = [job EXCEPT ![p].calls = calls] BY <1>1, <1>4
  <2>2. JobsType BY <2>1, JobCalls
  <2>3. ASSUME NEW r \in Runs, Sound(r), RunInv(r) PROVE JobsFine(r)
    <3>1. q = r => CallsFine(plan[r], root[r], tasks[r], calls) BY <1>2, <2>3
    <3> QED BY <2>1, <2>3, <3>1, JobCalls
  <2> QED BY <1>1, <2>2, <2>3, AllStay
<1> QED BY <1>3, <1>4

LEMMA CrashKeeps ==
  ASSUME TypeInv, NEW p \in Procs, Crash(p)
  PROVE  Keeps
<1>1. UNCHANGED <<plan, root, runStatus, output, tasks>> /\ job' = [job EXCEPT ![p] = Idle]
  BY DEF Crash, runVars
<1> QED BY <1>1, JobIdle, AllStay

\* A worker or a command changes a task that is not accepted, and not its record.
LEMMA TaskKeeps ==
  ASSUME TypeInv, NEW r \in Runs, NEW id \in DOMAIN tasks[r], tasks[r][id].status # "SUCCEEDED",
         NEW t, tasks' = [tasks EXCEPT ![r][id] = t],
         IsRow(tasks[r][id]) => /\ IsRow(t) /\ t.record = tasks[r][id].record
                                /\ t.status = "SUCCEEDED" => t.output \in Values,
         UNCHANGED <<plan, root, runStatus, output, job>>
  PROVE  Keeps
<1>1. JobsType /\ \A q \in Runs : RunInv(q) => JobsFine(q) BY JobsStay
<1>2. DOMAIN tasks' = Runs /\ \A q \in Runs : q # r => tasks'[q] = tasks[q] BY DEF TypeInv
<1>3. TypeInv' BY <1>1, <1>2 DEF TypeInv, JobsType
<1>4. ASSUME NEW q \in Runs, Sound(q), RunInv(q) PROVE RunStep(q)
  <2>1. JobsFine(q) BY <1>1, <1>4
  <2>2. CASE q # r BY <1>2, <1>4, <2>1, <2>2, RunStays
  <2>3. CASE q = r
    <3>1. TasksFine(plan[r], root[r], AcceptedIn(tasks[r]), tasks[r]) BY <1>4, <2>3 DEF RunInv
    <3>2. TaskFine(plan[r], root[r], AcceptedIn(tasks[r]), id, tasks[r][id])
      BY <3>1 DEF TasksFine
    <3>3. /\ IsRow(t) /\ t.record = tasks[r][id].record
          /\ t.status = "SUCCEEDED" => t.output \in Values
      BY <3>2 DEF TaskFine
    <3>4. TaskFine(plan[r], root[r], AcceptedIn(tasks[r]), id, t) BY <3>2, <3>3 DEF TaskFine
    <3>5. /\ DOMAIN tasks'[r] = DOMAIN tasks[r] \cup {id} /\ tasks'[r][id] = t
          /\ \A j \in DOMAIN tasks[r] : j # id => tasks'[r][j] = tasks[r][j]
      BY DEF TypeInv
    <3>6. \A value : ~Ended(plan[r], root[r], tasks[r], value) BY NotEnded
    <3>7. Move(plan[r], root[r], tasks[r], tasks'[r]) BY <3>1, <3>4, <3>5, <3>6, MoveOne
    <3> QED BY <1>4, <2>1, <2>3, <3>7, RunMoves
  <2> QED BY <2>2, <2>3
<1> QED BY <1>3, <1>4 DEF Keeps

LEMMA StatusKeeps ==
  ASSUME TypeInv, NEW r \in Runs, NEW id \in DOMAIN tasks[r], tasks[r][id].status # "SUCCEEDED",
         NEW status, status # "SUCCEEDED", SetStatus(r, id, status),
         UNCHANGED <<plan, root, runStatus, output, job>>
  PROVE  Keeps
<1> DEFINE t == [tasks[r][id] EXCEPT !.status = status]
<1>1. tasks' = [tasks EXCEPT ![r][id] = t] BY DEF SetStatus
<1>2. ASSUME IsRow(tasks[r][id])
      PROVE  IsRow(t) /\ t.record = tasks[r][id].record /\ t.status = status
  BY <1>2 DEF IsRow
<1> HIDE DEF t
<1> QED BY <1>1, <1>2, TaskKeeps

LEMMA WorkerKeeps ==
  ASSUME TypeInv, NEW r \in Runs, NEW id \in DOMAIN tasks[r], WorkerStep(r, id)
  PROVE  Keeps
<1>1. CASE ClaimTask(r, id)
  <2>1. /\ tasks[r][id].status = "READY" /\ SetStatus(r, id, "RUNNING")
        /\ UNCHANGED <<plan, root, runStatus, output, job>>
    BY <1>1 DEF ClaimTask, procVars
  <2> QED BY <2>1, StatusKeeps
<1>2. ASSUME NEW v \in Values, CompleteTask(r, id, v) PROVE Keeps
  <2> DEFINE t == [tasks[r][id] EXCEPT !.status = "SUCCEEDED", !.output = v]
  <2>1. /\ tasks[r][id].status = "RUNNING" /\ tasks' = [tasks EXCEPT ![r][id] = t]
        /\ UNCHANGED <<plan, root, runStatus, output, job>>
    BY <1>2 DEF CompleteTask, procVars
  <2>2. ASSUME IsRow(tasks[r][id])
        PROVE  IsRow(t) /\ t.record = tasks[r][id].record /\ t.output = v
    BY <2>2 DEF IsRow
  <2>3. tasks[r][id].status # "SUCCEEDED" BY <2>1
  <2> HIDE DEF t
  <2> QED BY <1>2, <2>1, <2>2, <2>3, TaskKeeps
<1>3. CASE FailTask(r, id)
  <2>1. /\ tasks[r][id].status = "RUNNING" /\ SetStatus(r, id, "FAILED")
        /\ UNCHANGED <<plan, root, runStatus, output, job>>
    BY <1>3 DEF FailTask, procVars
  <2> QED BY <2>1, StatusKeeps
<1> QED BY <1>1, <1>2, <1>3 DEF WorkerStep

LEMMA CancelKeeps ==
  ASSUME TypeInv, NEW r \in Runs, CancelRun(r)
  PROVE  Keeps
<1> DEFINE ts == tasks[r]
           ended(id) == [ts[id] EXCEPT !.status = "CANCELLED"]
           us == [id \in DOMAIN ts |-> IF ts[id].status \in Unfinished THEN ended(id) ELSE ts[id]]
<1>1. /\ runStatus[r] \in ActiveRun /\ runStatus' = [runStatus EXCEPT ![r] = "CANCELLED"]
      /\ tasks' = [tasks EXCEPT ![r] = us] /\ UNCHANGED <<plan, root, output, job>>
  BY DEF CancelRun, procVars
<1>2. JobsType /\ \A q \in Runs : RunInv(q) => JobsFine(q) BY <1>1, JobsStay
<1>3. /\ DOMAIN tasks' = Runs /\ tasks'[r] = us /\ \A q \in Runs : q # r => tasks'[q] = tasks[q]
      /\ DOMAIN runStatus' = Runs /\ runStatus'[r] = "CANCELLED"
      /\ \A q \in Runs : q # r => runStatus'[q] = runStatus[q]
  <2> HIDE DEF us
  <2> QED BY <1>1 DEF TypeInv
<1>4. \A q \in Runs : /\ runStatus'[q] # "ABSENT" => plan[q] # Null
                      /\ runStatus'[q] = "SUCCEEDED" => runStatus[q] = "SUCCEEDED"
  BY <1>1, <1>3 DEF TypeInv, ActiveRun
<1>5. TypeInv' BY <1>1, <1>2, <1>3, <1>4 DEF TypeInv, JobsType
<1>6. ASSUME NEW q \in Runs, Sound(q), RunInv(q) PROVE RunStep(q)
  <2>1. JobsFine(q) BY <1>2, <1>6
  <2>2. CASE q # r BY <1>1, <1>3, <1>4, <1>6, <2>1, <2>2, RunStays
  <2>3. CASE q = r
    <3>1. TasksFine(plan[r], root[r], AcceptedIn(ts), ts) BY <1>6, <2>3 DEF RunInv
    <3>2. ASSUME NEW id \in DOMAIN us PROVE TaskFine(plan[r], root[r], AcceptedIn(ts), id, us[id])
      <4>1. TaskFine(plan[r], root[r], AcceptedIn(ts), id, ts[id]) BY <3>1 DEF TasksFine
      <4>2. CASE ts[id].status \in Unfinished
        <5>1. IsRow(ts[id]) BY <4>1 DEF TaskFine
        <5>2. /\ IsRow(ended(id)) /\ ended(id).record = ts[id].record
              /\ ended(id).status = "CANCELLED"
          BY <5>1 DEF IsRow
        <5>3. us[id] = ended(id) BY <4>2
        <5> HIDE DEF ended, us, ts
        <5> QED BY <4>1, <5>2, <5>3 DEF TaskFine
      <4>3. CASE ts[id].status \notin Unfinished BY <4>1, <4>3
      <4> QED BY <4>2, <4>3
    <3>3. \A id \in DOMAIN ts : ts[id].status = "SUCCEEDED" => us[id] = ts[id] BY DEF Unfinished
    <3>4. DOMAIN us = DOMAIN ts OBVIOUS
    <3> HIDE DEF us, ts
    <3>5. Move(plan[r], root[r], ts, us) BY <3>2, <3>3, <3>4 DEF Move, TasksFine
    <3>6. Move(plan[r], root[r], tasks[r], tasks'[r]) BY <1>3, <3>5 DEF ts
    <3> QED BY <1>1, <1>4, <1>6, <2>1, <2>3, <3>6, RunMoves
  <2> QED BY <2>2, <2>3
<1> QED BY <1>1, <1>5, <1>6 DEF Keeps

\* A command that changes the status of a run alone.
LEMMA CommandStatusKeeps ==
  ASSUME TypeInv, NEW r \in Runs, runStatus[r] # "ABSENT", NEW status, status # "SUCCEEDED",
         runStatus' = [runStatus EXCEPT ![r] = status], UNCHANGED <<plan, root, output, tasks, job>>
  PROVE  Keeps
<1>1. JobsType /\ \A q \in Runs : RunInv(q) => JobsFine(q) BY JobsStay
<1>2. /\ DOMAIN runStatus' = Runs
      /\ \A q \in Runs : /\ runStatus'[q] # "ABSENT" => plan[q] # Null
                         /\ runStatus'[q] = "SUCCEEDED" => runStatus[q] = "SUCCEEDED"
  BY DEF TypeInv
<1>3. TypeInv' BY <1>1, <1>2 DEF TypeInv, JobsType
<1>4. ASSUME NEW q \in Runs, Sound(q), RunInv(q) PROVE RunStep(q) BY <1>1, <1>2, <1>4, RunStays
<1> QED BY <1>3, <1>4 DEF Keeps

LEMMA CommandKeeps ==
  ASSUME TypeInv, CommandStep
  PROVE  Keeps
<1>1. PICK r \in Runs :
        PauseRun(r) \/ ResumeRun(r) \/ CancelRun(r) \/ \E id \in DOMAIN tasks[r] : RetryTask(r, id)
  BY DEF CommandStep
<1>2. CASE PauseRun(r) \/ ResumeRun(r)
  <2>1. /\ runStatus[r] # "ABSENT" /\ UNCHANGED <<plan, root, output, tasks, job>>
        /\ \/ runStatus' = [runStatus EXCEPT ![r] = "PAUSED"]
           \/ runStatus' = [runStatus EXCEPT ![r] = "RUNNING"]
    BY <1>2 DEF PauseRun, ResumeRun, procVars
  <2>2. "PAUSED" # "SUCCEEDED" /\ "RUNNING" # "SUCCEEDED" OBVIOUS
  <2> QED BY <2>1, <2>2, CommandStatusKeeps
<1>3. CASE CancelRun(r) BY <1>3, CancelKeeps
<1>4. ASSUME NEW id \in DOMAIN tasks[r], RetryTask(r, id) PROVE Keeps
  <2>1. /\ tasks[r][id].status = "FAILED" /\ SetStatus(r, id, "READY")
        /\ UNCHANGED <<plan, root, runStatus, output, job>>
    BY <1>4 DEF RetryTask, procVars
  <2> QED BY <2>1, StatusKeeps
<1> QED BY <1>1, <1>2, <1>3, <1>4

LEMMA ProcKeeps ==
  ASSUME TypeInv, NEW p \in Procs, ProcStep(p)
  PROVE  Keeps
BY AdvanceKeeps, EnqueueKeeps, ReadyKeeps, DecideKeeps, CountKeeps, CompleteKeeps, FailKeeps
   DEF ProcStep, StoreCall

LEMMA NextKeeps ==
  ASSUME TypeInv, Next
  PROVE  Keeps
<1>1. ASSUME NEW k \in Clients, NEW r \in Runs, Start(k, r) PROVE Keeps BY <1>1, StartKeeps
<1>2. ASSUME NEW k \in Clients, ProcStep(k) PROVE Keeps
  <2>1. k \in Procs BY DEF Procs
  <2> QED BY <1>2, <2>1, ProcKeeps
<1>3. ASSUME NEW c \in Coordinators, CoordinatorStep(c) PROVE Keeps
  <2>1. c \in Procs BY DEF Procs
  <2> QED BY <1>3, <2>1, ListKeeps, ReachKeeps, ProcKeeps DEF CoordinatorStep
<1>4. ASSUME NEW p \in Procs, Crash(p) PROVE Keeps BY <1>4, CrashKeeps
<1>5. ASSUME NEW r \in Runs, NEW id \in DOMAIN tasks[r], WorkerStep(r, id) PROVE Keeps
  BY <1>5, WorkerKeeps
<1>6. CASE CommandStep BY <1>6, CommandKeeps
<1> QED BY <1>1, <1>2, <1>3, <1>4, <1>5, <1>6 DEF Next

LEMMA StepInv ==
  ASSUME SchedulerInv, [Next]_vars
  PROVE  SchedulerInv'
<1>1. TypeInv BY DEF SchedulerInv
<1>2. Keeps
  <2>1. CASE Next BY <1>1, <2>1, NextKeeps
  <2>2. CASE UNCHANGED vars
    <3>1. UNCHANGED <<plan, root, runStatus, output, tasks, job>> BY <2>2 DEF vars, runVars, procVars
    <3> QED BY <1>1, <3>1, JobsStay, AllStay
  <2> QED BY <2>1, <2>2
<1>3. ASSUME NEW r \in Runs, Sound(r)' PROVE RunInv(r)'
  <2>1. Sound(r) BY <1>2, <1>3 DEF Keeps, Sound
  <2>2. RunInv(r) BY <2>1 DEF SchedulerInv
  <2>3. RunStep(r) /\ plan' = plan /\ root' = root BY <1>2, <2>1, <2>2 DEF Keeps
  <2> QED BY <1>1, <2>1, <2>3, RunStepInv
<1>4. TypeInv' BY <1>2 DEF Keeps
<1> QED BY <1>3, <1>4 DEF SchedulerInv

-----------------------------------------------------------------------------
(***************************************************************************)
(* What the invariant says of the runs.                                    *)
(***************************************************************************)

LEMMA SchedulerAlways == Spec => []SchedulerInv
BY InitInv, StepInv, PTL DEF Spec

LEMMA AcceptedIs ==
  ASSUME NEW r
  PROVE  /\ Accepted(r) = AcceptedIn(tasks[r])
         /\ \A n : Meaning(r, n) = Denote(plan[r], AcceptedIn(tasks[r]), root[r], n)
         /\ Needed(r) = Demanded(plan[r], AcceptedIn(tasks[r]), root[r], plan[r].output)
<1>1. Accepted(r) = AcceptedIn(tasks[r]) BY DEF Accepted, AcceptedIn
<1> QED BY <1>1 DEF Meaning, Needed

\* The invariant of a run that has a plan whose scopes are told apart.
LEMMA OfRun ==
  ASSUME SchedulerInv, NEW r \in Runs, Sound(r)
  PROVE  /\ IsPlan(plan[r]) /\ RunInv(r)
         /\ \A id \in DOMAIN tasks[r] :
              TaskFine(plan[r], root[r], AcceptedIn(tasks[r]), id, tasks[r][id])
BY DEF SchedulerInv, TypeInv, Sound, RunInv, TasksFine

LEMMA InvOneTask == SchedulerInv => OneTaskPerOccurrence
<1> SUFFICES ASSUME SchedulerInv, NEW r \in Runs, plan[r] # Null, WellScoped(plan[r]),
                    NEW n \in Nodes(plan[r]), NEW i \in TasksOf(r, n), NEW j \in TasksOf(r, n),
                    i # j
             PROVE  plan[r].steps[n].kind = "map_module" /\ ItemOf(i) # ItemOf(j)
  BY DEF OneTaskPerOccurrence
<1>1. IsTask(plan[r], i) /\ IsTask(plan[r], j) BY OfRun DEF Sound, TasksOf, TaskFine
<1>2. i[1] = n /\ j[1] = n BY DEF TasksOf
<1>3. plan[r].steps[i[1]].kind = "map_module" /\ Last(i[2])[2] # Last(j[2])[2]
  BY <1>1, <1>2, OneTask
<1> QED BY <1>2, <1>3 DEF ItemOf

LEMMA InvReleased == SchedulerInv => ReleasedAsDenoted
<1> SUFFICES ASSUME SchedulerInv, NEW r \in Runs, plan[r] # Null, WellScoped(plan[r]),
                    NEW id \in DOMAIN tasks[r], tasks[r][id].record # Null
             PROVE  LET step == plan[r].steps[id[1]]
                        Meanings(nodes) == [i \in DOMAIN nodes |-> Meaning(r, nodes[i])]
                    IN  /\ id[1] \in Needed(r)
                        /\ AllResolved(Meanings(step.deps))
                        /\ tasks[r][id].record.input =
                             IF step.kind = "module" THEN BoundValue(Meanings(step.data))
                             ELSE ItemOf(id)
                        /\ step.kind = "map_module" =>
                             ItemOf(id) \in ToSet(Items[Meaning(r, step.deps[1]).value])
  BY Zenon DEF ReleasedAsDenoted
<1>1. Released(plan[r], AcceptedIn(tasks[r]), root[r], id, tasks[r][id].record.input)
  BY OfRun DEF Sound, TaskFine
<1> QED BY <1>1, AcceptedIs, Zenon DEF Released, ItemOf

LEMMA InvSucceeded == SchedulerInv => SucceededAsDenoted
<1> SUFFICES ASSUME SchedulerInv, NEW r \in Runs, runStatus[r] = "SUCCEEDED", WellScoped(plan[r])
             PROVE  /\ Meaning(r, plan[r].output).ok
                    /\ output[r] = Meaning(r, plan[r].output).value
                    /\ \A id \in DOMAIN tasks[r] :
                         tasks[r][id].status = "SUCCEEDED" /\ id[1] \in Needed(r)
  BY DEF SucceededAsDenoted
<1>1. Sound(r) BY DEF SchedulerInv, TypeInv, Sound
<1>2. Ended(plan[r], root[r], tasks[r], output[r]) BY <1>1, OfRun DEF RunInv
<1>3. \A id \in DOMAIN tasks[r] :
        id[1] \in Demanded(plan[r], AcceptedIn(tasks[r]), root[r], plan[r].output)
  BY <1>1, OfRun DEF TaskFine
<1> QED BY <1>2, <1>3, AcceptedIs DEF Ended, AllAccepted, Complete

\* However many schedulers, clients and replays of start drive a run, and wherever they
\* crash, a module occurrence of its plan has one task, and a map one per item: all
\* passes reach a node under one scope (_precreate_static_tasks and _evaluate_node).
THEOREM SchedulerOneTask == Spec => []OneTaskPerOccurrence
BY SchedulerAlways, InvOneTask, PTL

\* A task is released only for a node that the plan needs, after all that the node
\* depends on is accepted, and with the input that the accepted results give, though
\* the pass that releases it has loaded the history long before.
THEOREM SchedulerReleased == Spec => []ReleasedAsDenoted
BY SchedulerAlways, InvReleased, PTL

\* A run that succeeds has the value that its plan denotes for the accepted results,
\* all its tasks are accepted, and the plan needed each of them (complete_run).
THEOREM SchedulerSucceeded == Spec => []SucceededAsDenoted
BY SchedulerAlways, InvSucceeded, PTL
=============================================================================
