--------------------------- MODULE PlanValidator ---------------------------
(***************************************************************************)
(* The trust boundary of generated plans (dynamic.py, guardrail.py): what  *)
(* PlanValidator.validate makes of a fragment, the PlanIR and the evidence *)
(* it resolves to, and the policy check of PlanGuardrail.                  *)
(*                                                                         *)
(* A fragment is [nodes |-> sequence of [key, alias, deps], outputs |->    *)
(* sequence of keys]; keys are numbers, in their canonical order.  A       *)
(* catalog entry is [module, inputs, type, output, grant, approvals, calls,*)
(* cost, time]: the schemas of the inputs and of the declared input type,  *)
(* the capabilities and effects it asks for, those effects that need an    *)
(* approval, and its budget.  calls stands for tokens and tool calls, which*)
(* are both sums of integers.  A cost is the number that str writes for a  *)
(* float, in units of a digit below all of them: str keeps the order of    *)
(* floats, so comparing such numbers compares the floats.                  *)
(***************************************************************************)
EXTENDS Integers, FiniteSets, SequencesExt

CONSTANTS
  Catalog,       \* the registry: a function from aliases to entries
  Limits,        \* [nodes, depth, fanout, budget |-> [calls, cost, time]]
  DecimalOf(_),  \* how Decimal's context rounds a sum, to 28 digits
  Double,        \* how float() rounds a sum, for the sums it takes to a finite number
  MaxTime,       \* the longest timedelta
  RegionGrant,   \* the names the region may ask for
  InputSchema,   \* schema of the region's input
  OutputSchemas, \* the schemas expected of the outputs, in order
  Policy         \* [max |-> bounds of depth and fan-out,
                 \*  forbidden |-> modules that no plan may use]

\* A budget dimension that is None, and a budget of such dimensions.
Unbounded == -1

NoLimit == [calls |-> Unbounded, cost |-> Unbounded, time |-> Unbounded]

\* What Budget accepts for its fields: numbers from 0, or no bound; a cost is finite.
IsBudget(b) ==
  /\ {b.calls, b.time} \subseteq Nat \cup {Unbounded}
  /\ b.cost \in Range(Double) \cup {Unbounded}

\* What PlanLimits accepts for its fields.  An entry lists the schemas of its inputs.
ASSUME PlanValidatorAssumption ==
  /\ {Limits.nodes, Limits.depth, Limits.fanout} \subseteq Nat
  /\ Double \in [DOMAIN Double -> Nat] /\ MaxTime \in Nat
  /\ IsBudget(Limits.budget)
  /\ \A a \in DOMAIN Catalog :
       /\ IsBudget(Catalog[a])
       /\ Catalog[a].inputs \in Seq(ToSet(Catalog[a].inputs))

\* The name of the region's input among the dependencies: $input.
RegionInput == 0

Keys(f) == {n.key : n \in ToSet(f.nodes)}

NodeAt(f, k) == CHOOSE n \in ToSet(f.nodes) : n.key = k

DepsOf(f) == [k \in Keys(f) |-> NodeAt(f, k).deps]

MaxOr(default, S) == IF S = {} THEN default ELSE Max(S)

-----------------------------------------------------------------------------
(***************************************************************************)
(* Graph algorithms.                                                       *)
(***************************************************************************)

\* One round of the worklist of _resolve_graph: take a pending node, and note its
\* dependencies.  The list is kept as the set of its nodes that are still new: what
\* the loop finds depends neither on its order nor on its repetitions.
Visit(deps, s) ==
  LET key == CHOOSE k \in s.pending : TRUE
      seen == s.seen \cup {key}
  IN  [pending |-> (s.pending \cup (ToSet(deps[key]) \cap DOMAIN deps)) \ seen, seen |-> seen]

\* The nodes found from the outputs: the worklist takes each as new only once.
Reachable(deps, outputs) ==
  LET rounds == Cardinality(DOMAIN deps)
      state[n \in 0 .. rounds] ==
        IF n = 0 THEN [pending |-> ToSet(outputs), seen |-> {}]
        ELSE LET s == state[n - 1] IN IF s.pending = {} THEN s ELSE Visit(deps, s)
  IN  state[rounds].seen

\* The members of a set of numbers from the greatest to the least.
Descending(S) ==
  [i \in 1 .. Cardinality(S) |-> CHOOSE x \in S : Cardinality({y \in S : y >= x}) = i]

\* The positions of a node's dependencies on other nodes.
Waits(deps, k) == {i \in DOMAIN deps[k] : deps[k][i] # RegionInput}

\* _topological_depths before its loop: ready are the nodes that wait for none.
Unsorted(deps) ==
  [ready |-> Descending({k \in DOMAIN deps : Waits(deps, k) = {}}),
   indegrees |-> [k \in DOMAIN deps |-> Cardinality(Waits(deps, k))],
   depths |-> [k \in DOMAIN deps |-> 0], order |-> <<>>]

\* One round of the loop: take the last node that waits for nothing, fix its
\* depth, and free the consumers it was the last to hold back.
TakeReady(deps, s) ==
  LET key == Last(s.ready)
      indegrees == [k \in DOMAIN deps |->
                      s.indegrees[k] - Cardinality({i \in DOMAIN deps[k] : deps[k][i] = key})]
      freed == {k \in DOMAIN deps : s.indegrees[k] > 0 /\ indegrees[k] = 0}
      before == {s.depths[d] : d \in ToSet(deps[key]) \ {RegionInput}}
  IN  [ready |-> Front(s.ready) \o Descending(freed), indegrees |-> indegrees,
       depths |-> [s.depths EXCEPT ![key] = 1 + MaxOr(0, before)],
       order |-> Append(s.order, key)]

\* The loop, round by round; it takes each node at most once.
Rounds(deps) ==
  LET state[n \in Nat] ==
        IF n = 0 THEN Unsorted(deps)
        ELSE LET s == state[n - 1] IN IF s.ready = <<>> THEN s ELSE TakeReady(deps, s)
  IN  state

\* Depths and order of an acyclic graph; the order of a cyclic one is short.
TopologicalDepths(deps) == Rounds(deps)[Cardinality(DOMAIN deps)]

\* Consumers of each node and of the region input; the largest number.
MaxFanout(deps) ==
  Max({0} \cup {Cardinality({k \in DOMAIN deps : d \in ToSet(deps[k])}) :
                 d \in DOMAIN deps \cup {RegionInput}})

\* The sum of a sequence, and of a function over a set of keys.
Total(s) ==
  LET total[n \in 0 .. Len(s)] == IF n = 0 THEN 0 ELSE total[n - 1] + s[n]
  IN  total[Len(s)]

Sum(f, S) == Total([i \in 1 .. Cardinality(S) |-> f[Descending(S)[i]]])

\* The costs of a set of keys: the sum of decimals, in the order of the keys.
CostSum(cost, S) ==
  LET keys == Reverse(Descending(S))
      sum[n \in 0 .. Len(keys)] ==
        IF n = 0 THEN 0 ELSE DecimalOf(sum[n - 1] + cost[keys[n]])
  IN  sum[Len(keys)]

\* path_ms: the wall time of the longest path that ends with the node.
PathTime(nodes, paths, key) ==
  LET before == {paths[d] : d \in ToSet(nodes[key].deps) \ {RegionInput}}
      own == nodes[key].entry.time
  IN  [paths EXCEPT ![key] = IF Unbounded \in before \cup {own} THEN Unbounded
                             ELSE own + MaxOr(0, before)]

\* The times of all paths, by the node they end with.
PathTimes(nodes, order) ==
  LET paths[n \in 0 .. Len(order)] ==
        IF n = 0 THEN [k \in DOMAIN nodes |-> 0] ELSE PathTime(nodes, paths[n - 1], order[n])
  IN  paths[Len(order)]

\* A cost that is no finite number.
Infinite == -2

\* float() of a sum of costs.
FloatOf(sum) == IF sum \in DOMAIN Double THEN Double[sum] ELSE Infinite

AggregateBudget(nodes, outputs) ==
  LET order == TopologicalDepths([k \in DOMAIN nodes |-> nodes[k].deps]).order
      paths == PathTimes(nodes, order)
      ends == {paths[o] : o \in ToSet(outputs)}
      calls == [k \in DOMAIN nodes |-> nodes[k].entry.calls]
      cost == [k \in DOMAIN nodes |-> nodes[k].entry.cost]
  IN  [calls |-> IF Unbounded \in Range(calls) THEN Unbounded ELSE Sum(calls, DOMAIN nodes),
       cost |-> IF Unbounded \in Range(cost) THEN Unbounded
                ELSE FloatOf(CostSum(cost, DOMAIN nodes)),
       time |-> IF Unbounded \in ends THEN Unbounded ELSE MaxOr(0, ends)]

\* Mutant: a cost that is not finite is let through.
InRange_Time(budget) == budget.time <= MaxTime

\* What Budget and timedelta can hold; _aggregate_budget raises for the rest.
InRange(budget) == budget.cost # Infinite /\ budget.time <= MaxTime

-----------------------------------------------------------------------------
(***************************************************************************)
(* PlanIR of a generated plan, and back.                                   *)
(***************************************************************************)

Address(d) == IF d = RegionInput THEN <<"input">> ELSE <<"nodes", d>>

KeyAt(address) == IF address = <<"input">> THEN RegionInput ELSE address[2]

\* Mutant: the steps in the order of their keys.
BuildGeneratedPlan_KeyOrder(nodes, outputs) ==
  LET order == SetToSortSeq(DOMAIN nodes, <)
  IN  [steps |-> [i \in DOMAIN order |->
                    LET n == nodes[order[i]] IN
                    [node |-> Address(order[i]), entry |-> n.entry,
                     deps |-> [j \in DOMAIN n.deps |-> Address(n.deps[j])]]],
       output |-> [i \in DOMAIN outputs |-> Address(outputs[i])]]

\* _build_generated_plan: one step per node, in topological order.
BuildGeneratedPlan(nodes, outputs) ==
  LET order == TopologicalDepths([k \in DOMAIN nodes |-> nodes[k].deps]).order
  IN  [steps |-> [i \in DOMAIN order |->
                    LET n == nodes[order[i]] IN
                    [node |-> Address(order[i]), entry |-> n.entry,
                     deps |-> [j \in DOMAIN n.deps |-> Address(n.deps[j])]]],
       output |-> [i \in DOMAIN outputs |-> Address(outputs[i])]]

\* _resolved_nodes_from_plan, by key.
ResolvedNodes(plan) ==
  [k \in {KeyAt(s.node) : s \in ToSet(plan.steps)} |->
     LET s == CHOOSE x \in ToSet(plan.steps) : x.node = Address(k)
     IN  [entry |-> s.entry, deps |-> [j \in DOMAIN s.deps |-> KeyAt(s.deps[j])]]]

Outputs(plan) == [i \in DOMAIN plan.output |-> KeyAt(plan.output[i])]

\* _resolved_metrics.
Metrics(plan) ==
  LET nodes == ResolvedNodes(plan)
      deps == [k \in DOMAIN nodes |-> nodes[k].deps]
  IN  [depth |-> Max(Range(TopologicalDepths(deps).depths)),
       fanout |-> MaxFanout(deps),
       budget |-> AggregateBudget(nodes, Outputs(plan)),
       grant |-> UNION {nodes[k].entry.grant : k \in DOMAIN nodes},
       modules |-> {nodes[k].entry.module : k \in DOMAIN nodes},
       approvals |-> UNION {{k} \X nodes[k].entry.approvals : k \in DOMAIN nodes}]

-----------------------------------------------------------------------------
(***************************************************************************)
(* PlanValidator.validate: the code of the error it raises, or "valid".    *)
(***************************************************************************)

\* _decode_generated_plan: nodes with names, where none has the name of the region's
\* input, which is no _STABLE_NAME, ...
NamedNodes(f) ==
  /\ f.nodes \in Seq(ToSet(f.nodes))
  /\ \A n \in ToSet(f.nodes) : n.key \in Nat \ {RegionInput} /\ n.deps \in Seq(Nat)

\* ... in the order of their keys, ...
Ordered(f) == \A i, j \in DOMAIN f.nodes : i < j => f.nodes[i].key <= f.nodes[j].key

\* ... each of them once, ...
Canonical(f) == \A i, j \in DOMAIN f.nodes : i < j => f.nodes[i].key < f.nodes[j].key

\* ... and outputs that are names.
IsFragment(f) == NamedNodes(f) /\ f.outputs \in Seq(Nat \ {RegionInput})

\* The checks of one node in the loop that looks up the entries.
NodeError(n) ==
  IF n.alias \notin DOMAIN Catalog THEN "PLAN_MODULE_NOT_ALLOWED"
  ELSE IF ~IsInjective(n.deps) THEN "PLAN_TOPOLOGY_INVALID"
  ELSE IF Len(n.deps) # Len(Catalog[n.alias].inputs) THEN "PLAN_SCHEMA_INVALID"
  ELSE "valid"

EntryOf(f, k) == Catalog[NodeAt(f, k).alias]

Resolve(f) == [k \in Keys(f) |-> [entry |-> EntryOf(f, k), deps |-> NodeAt(f, k).deps]]

SchemaOf(nodes, d) == IF d = RegionInput THEN InputSchema ELSE nodes[d].entry.output

EdgesTyped(nodes) ==
  \A k \in DOMAIN nodes : \A i \in DOMAIN nodes[k].deps :
    SchemaOf(nodes, nodes[k].deps[i]) = nodes[k].entry.inputs[i]

OutputsTyped(nodes, outputs) ==
  [i \in DOMAIN outputs |-> nodes[outputs[i]].entry.output] = OutputSchemas

\* The part of _resolve_graph about the graph alone.
ShapeError(f) ==
  LET bad == {i \in DOMAIN f.nodes : NodeError(f.nodes[i]) # "valid"}
      deps == DepsOf(f)
      sorted == TopologicalDepths(deps)
  IN
  IF f.nodes = <<>> THEN "PLAN_TOPOLOGY_INVALID"
  ELSE IF Len(f.nodes) > Limits.nodes THEN "PLAN_LIMIT_EXCEEDED"
  ELSE IF \/ f.outputs = <<>> \/ ~IsInjective(f.outputs)
          \/ ~(ToSet(f.outputs) \subseteq Keys(f))
          \/ Reachable(deps, f.outputs) # Keys(f)
          \/ \E n \in ToSet(f.nodes) : ~(ToSet(n.deps) \subseteq Keys(f) \cup {RegionInput})
       THEN "PLAN_TOPOLOGY_INVALID"
  ELSE IF bad # {} THEN NodeError(f.nodes[Min(bad)])
  ELSE IF Len(sorted.order) # Cardinality(Keys(f)) THEN "PLAN_TOPOLOGY_INVALID"
  ELSE IF Max(Range(sorted.depths)) > Limits.depth \/ MaxFanout(deps) > Limits.fanout
       THEN "PLAN_LIMIT_EXCEEDED"
  ELSE "valid"

\* _validate_budget for one dimension.
Exceeds(actual, limit) == limit # Unbounded /\ (actual = Unbounded \/ actual > limit)

\* validate, where limit is the budget of the region's limits, which the rest of them does
\* not depend on.  check is {} for no approval check, which is what run_generated has, or
\* {passing} for one that lets the <<key, effect>> pairs of the set passing pass.
\* The metrics come first, and with them the error about the range.
Validate(f, limit, check) ==
  LET nodes == Resolve(f)
      metrics == Metrics(BuildGeneratedPlan(nodes, f.outputs))
      shape == ShapeError(f)
  IN
  IF ~NamedNodes(f) \/ ~Ordered(f) THEN "PLAN_FRAGMENT_INVALID"
  ELSE IF ~Canonical(f) THEN "PLAN_TOPOLOGY_INVALID"
  ELSE IF ~IsFragment(f) THEN "PLAN_FRAGMENT_INVALID"
  ELSE IF shape # "valid" THEN shape
  ELSE IF ~EdgesTyped(nodes) \/ ~OutputsTyped(nodes, f.outputs) THEN "PLAN_SCHEMA_INVALID"
  ELSE IF ~InRange(metrics.budget) THEN "PLAN_BUDGET_INVALID"
  ELSE IF ~(metrics.grant \subseteq RegionGrant) THEN "PLAN_CAPABILITY_ESCALATION"
  ELSE IF \/ Exceeds(metrics.budget.calls, limit.calls)
          \/ Exceeds(metrics.budget.cost, limit.cost)
          \/ Exceeds(metrics.budget.time, limit.time)
       THEN "PLAN_BUDGET_EXCEEDED"
  ELSE IF metrics.approvals # {} /\ check = {} THEN "PLAN_APPROVAL_REQUIRED"
  ELSE IF ~(metrics.approvals \subseteq UNION check) THEN "PLAN_APPROVAL_VALIDATION_FAILED"
  ELSE "valid"

Signature(f) == BuildGeneratedPlan(Resolve(f), f.outputs)

\* PlanGuardrail.evaluate: the rules that the plan breaks.
PolicyIssues(plan) ==
  LET metrics == Metrics(plan)
  IN  {m \in DOMAIN Policy.max : metrics[m] > Policy.max[m]}
      \cup (metrics.modules \cap Policy.forbidden)

-----------------------------------------------------------------------------
(***************************************************************************)
(* What validate is to decide, without the algorithms: the reference.      *)
(***************************************************************************)

\* The paths of distinct nodes along the dependencies.
Paths(deps) ==
  {s \in SeqOf(DOMAIN deps, Cardinality(DOMAIN deps)) :
     /\ s # <<>> /\ IsInjective(s)
     /\ \A i \in 1 .. (Len(s) - 1) : s[i] \in ToSet(deps[s[i + 1]])}

\* Every dependency is a node or the region input and is named once.
WellFormed(f) ==
  /\ IsFragment(f) /\ Canonical(f) /\ f.nodes # <<>> /\ f.outputs # <<>>
  /\ IsInjective(f.outputs) /\ ToSet(f.outputs) \subseteq Keys(f)
  /\ \A n \in ToSet(f.nodes) :
       /\ n.alias \in DOMAIN Catalog
       /\ IsInjective(n.deps)
       /\ ToSet(n.deps) \subseteq Keys(f) \cup {RegionInput}

\* A well-formed fragment that is a typed graph without cycles in which every
\* node serves an output, within the limits, the budget and the grant of the region, whose
\* effects are approved, and whose bounded cost and time are in the range of a
\* budget, whether or not they have a limit.
Admissible(f, limit, approved) ==
  /\ WellFormed(f)
  /\ LET deps == DepsOf(f)
         keys == DOMAIN deps
         entry == [k \in keys |-> EntryOf(f, k)]
         paths == Paths(deps)
         schema(d) == IF d = RegionInput THEN InputSchema ELSE entry[d].output
         consumers(d) == {k \in keys : d \in ToSet(deps[k])}
     IN
     /\ \A s \in paths : Last(s) \notin ToSet(deps[Head(s)])
     /\ \A k \in keys : \E s \in paths : Head(s) = k /\ Last(s) \in ToSet(f.outputs)
     /\ \A k \in keys : entry[k].inputs = [i \in DOMAIN deps[k] |-> schema(deps[k][i])]
     /\ [i \in DOMAIN f.outputs |-> schema(f.outputs[i])] = OutputSchemas
     /\ Cardinality(keys) <= Limits.nodes
     /\ \A s \in paths : Len(s) <= Limits.depth
     /\ \A d \in keys \cup {RegionInput} : Cardinality(consumers(d)) <= Limits.fanout
     /\ \A k \in keys : entry[k].grant \subseteq RegionGrant
     /\ \A k \in keys : {k} \X entry[k].approvals \subseteq approved
     /\ limit.calls # Unbounded =>
          /\ \A k \in keys : entry[k].calls # Unbounded
          /\ Sum([k \in keys |-> entry[k].calls], keys) <= limit.calls
     /\ LET sum == CostSum([k \in keys |-> entry[k].cost], keys)
            bounded == \A k \in keys : entry[k].cost # Unbounded
        IN  /\ bounded => sum \in DOMAIN Double
            /\ limit.cost # Unbounded => bounded /\ Double[sum] <= limit.cost
     /\ LET within(T) == \A s \in paths : Total([i \in DOMAIN s |-> entry[s[i]].time]) <= T
            bounded == \A k \in keys : entry[k].time # Unbounded
        IN  /\ bounded => within(MaxTime)
            /\ limit.time # Unbounded => bounded /\ within(limit.time)
=============================================================================
