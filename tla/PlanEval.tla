------------------------------ MODULE PlanEval ------------------------------
(***************************************************************************)
(* The evaluation of a compiled plan by WorkflowScheduler (runtime.py): a  *)
(* depth-first walk from the output node that reads accepted results from  *)
(* a snapshot of the run's tasks and asks for the tasks that are missing   *)
(* or may be released.  A walk has no effect but the store calls it makes, *)
(* and the answers to those calls do not change its course, so that it is  *)
(* a function of the snapshot.  visit and _evaluate_node call themselves;  *)
(* here the calls under way are a stack of frames.                         *)
(*                                                                         *)
(* A plan is [steps, output]; nodes are numbers, 0 is "input", and a step  *)
(* depends on smaller nodes only (_validate_imported_plan).  A step is     *)
(* [kind, deps, data], where data are the nodes of its input binding in    *)
(* their order (BindingIR.source_nodes).  A task is identified by its node *)
(* and the scope under which the walk reaches it (_stable_instance_id).    *)
(***************************************************************************)
EXTENDS Naturals, Sequences, FiniteSets, SequencesExt

CONSTANTS
  Values,  \* what modules return, and root inputs
  Flag,    \* Flag[v]: v where a when condition projects it
  Items    \* Items[v]: v where a map iterates over it

ASSUME ValueAssumption ==
  /\ Flag \in [Values -> BOOLEAN]
  /\ \A v \in Values : Items[v] \in Seq(Values)

Nodes(plan) == DOMAIN plan.steps

\* The kinds of step with a module, which have tasks.
Executable == {"module", "map_module"}

\* A plan as it is admitted (_validate_imported_plan): a node depends on earlier
\* nodes only, and a binding on dependencies of its step.  A when has a condition and
\* two branches.  Conditions and maps read plain results, which are Values, and not
\* what a parallel or a map collects.
IsPlan(plan) ==
  LET n == Len(plan.steps) IN
  /\ plan.steps \in Seq(ToSet(plan.steps))
  /\ plan.output \in 0 .. n
  /\ \A m \in 1 .. n :
       LET step == plan.steps[m] IN
       /\ step.kind \in Executable \cup {"when", "parallel"}
       /\ step.deps \in Seq(0 .. (m - 1))
       /\ step.kind = "module" => step.data \in Seq(ToSet(step.deps))
       /\ step.kind = "when" => Len(step.deps) = 3
       /\ step.kind = "map_module" => step.deps # <<>>
  /\ \E plain \in SUBSET (0 .. n) :
       /\ \A m \in plain \ {0} :
            LET step == plan.steps[m] IN
            \/ step.kind = "module"
            \/ step.kind = "when" /\ {step.deps[2], step.deps[3]} \subseteq plain
       /\ \A m \in 1 .. n :
            plan.steps[m].kind \in {"when", "map_module"} => plan.steps[m].deps[1] \in plain

\* A scope is a path of <<"parallel", i>>, <<"branch", i>> and <<"item", key>>.
Identity(n, scope) == <<n, scope>>

\* The scope in which n walks its i-th dependency: parallels and branches have
\* scopes of their own.
Inner(plan, n, i, scope) ==
  CASE plan.steps[n].kind = "parallel" -> Append(scope, <<"parallel", i>>)
    [] plan.steps[n].kind = "when" /\ i > 1 -> Append(scope, <<"branch", i>>)
    [] OTHER -> scope

\* A result is a value with the accepted tasks and the decisions it rests on.
Resolved(value, keys, decisions) ==
  [ok |-> TRUE, value |-> value, keys |-> keys, decisions |-> decisions]

Unresolved == [ok |-> FALSE, value |-> <<>>, keys |-> <<>>, decisions |-> <<>>]

NoNode == [m \in {} |-> Unresolved]

\* The function f, with value at x.
Put(f, x, value) == [y \in DOMAIN f \cup {x} |-> IF y = x THEN value ELSE f[y]]

-----------------------------------------------------------------------------
(***************************************************************************)
(* The frames of a walk.  w.stack are the nodes under way with their scope *)
(* and the dependency that is next; w.cache the results of this pass by    *)
(* node, whatever the scope; w.calls what the walk asks of the store, in   *)
(* its order; w.context the decision in force under a branch's scope;      *)
(* w.failed says that a RuntimeExecutionError has ended the walk.          *)
(***************************************************************************)

Frame(n, scope) == [node |-> n, scope |-> scope, next |-> 1]

\* A node is walked unless it has been before: the cache has the node alone.
Visit(w, n, scope) ==
  IF n = 0 \/ n \in DOMAIN w.cache THEN w ELSE [w EXCEPT !.stack = Append(@, Frame(n, scope))]

Advanced(w) == [w EXCEPT !.stack[Len(w.stack)].next = @ + 1]

\* The last frame returns.
Leave(w, result) ==
  [w EXCEPT !.cache = Put(@, Last(w.stack).node, result), !.stack = Front(@)]

Raise(w) == [w EXCEPT !.failed = TRUE, !.stack = <<>>]

Call(w, call) == [w EXCEPT !.calls = Append(@, call)]

NewWalk(plan) ==
  Visit([stack |-> <<>>, cache |-> NoNode, calls |-> <<>>, context |-> NoNode, failed |-> FALSE],
        plan.output, <<>>)

\* The nodes that a step looks at, in their order: its input, then all that it
\* depends on.
DataOf(plan, n) ==
  IF plan.steps[n].kind = "map_module" THEN <<plan.steps[n].deps[1]>> ELSE plan.steps[n].data

Kids(plan, n) ==
  IF plan.steps[n].kind \in Executable THEN DataOf(plan, n) \o plan.steps[n].deps
  ELSE plan.steps[n].deps

\* Steps that are enough to look at every dependency of every node.
Steps(plan) ==
  Len(plan.steps) + Len(FlattenSeq([n \in Nodes(plan) |-> Kids(plan, n)]))

-----------------------------------------------------------------------------
(***************************************************************************)
(* _precreate_static_tasks: the tasks that exist before any result does.   *)
(* Branches of a when are left out, and so are the items of a map.         *)
(***************************************************************************)

IsStatic(plan, n, i) == plan.steps[n].kind \in {"when", "map_module"} => i = 1

\* A module is created after all that it depends on.
Created(plan, w, f) ==
  Leave(IF plan.steps[f.node].kind = "module" THEN Call(w, Identity(f.node, f.scope)) ELSE w,
        Unresolved)

StaticStep(plan, w) ==
  LET f == Last(w.stack)
      deps == plan.steps[f.node].deps
  IN  CASE w.stack = <<>> -> w
        [] w.stack # <<>> /\ f.next > Len(deps) -> Created(plan, w, f)
        [] OTHER ->
             IF IsStatic(plan, f.node, f.next)
             THEN Visit(Advanced(w), deps[f.next], Inner(plan, f.node, f.next, f.scope))
             ELSE Advanced(w)

StaticWalk(plan) ==
  LET w[k \in 0 .. Steps(plan)] == IF k = 0 THEN NewWalk(plan) ELSE StaticStep(plan, w[k - 1])
  IN  w[Steps(plan)]

\* Mutant: tasks are created without their scope.
StaticTasks_Unscoped(plan) ==
  LET ids == StaticWalk(plan).calls IN [i \in DOMAIN ids |-> Identity(ids[i][1], <<>>)]

StaticTasks(plan) == StaticWalk(plan).calls

-----------------------------------------------------------------------------
(***************************************************************************)
(* The walk of advance().  snap.tasks are the tasks of the snapshot,       *)
(* snap.decided the control nodes whose decision was logged, snap.root the *)
(* input of the run.                                                       *)
(***************************************************************************)

\* _unique: the first occurrences, in order.
Unique(s) ==
  FlattenSeq([i \in DOMAIN s |-> IF \E j \in 1 .. (i - 1) : s[j] = s[i] THEN <<>> ELSE <<s[i]>>])

\* The result of a node, Unresolved while it has none.
ResultOf(w, root, n) ==
  IF n = 0 THEN Resolved(root, <<>>, <<>>)
  ELSE IF n \in DOMAIN w.cache THEN w.cache[n] ELSE Unresolved

ResultsOf(w, root, nodes) == [i \in DOMAIN nodes |-> ResultOf(w, root, nodes[i])]

AllResolved(results) == \A i \in DOMAIN results : results[i].ok

KeysOf(results) == FlattenSeq([i \in DOMAIN results |-> results[i].keys])

DecisionsOf(results) == FlattenSeq([i \in DOMAIN results |-> results[i].decisions])

ValuesOf(results) == [i \in DOMAIN results |-> results[i].value]

\* A binding that is one node passes its value on, an object collects several.
BoundValue(results) == IF Len(results) = 1 THEN results[1].value ELSE ValuesOf(results)

\* The branch of a when that its condition selects.
Selected(condition) == IF Flag[condition.value] THEN 2 ELSE 3

\* Mutant: dependencies that only order a step are not waited for.
OnlyOrders_Never(plan, n, i) == FALSE

\* The i-th dependency is not part of the input (_include_order_dependencies).
OnlyOrders(plan, n, i) == plan.steps[n].deps[i] \notin ToSet(DataOf(plan, n))

\* Which of its kids a step walks: the input, and once that is resolved what only
\* orders the step; the condition, and the branch that it selects; every branch of
\* a parallel, whatever the others return.
Wanted(plan, snap, w, n, i) ==
  LET data == DataOf(plan, n)
      condition == ResultOf(w, snap.root, plan.steps[n].deps[1])
  IN  CASE plan.steps[n].kind \in Executable ->
             \/ i <= Len(data)
             \/ /\ OnlyOrders(plan, n, i - Len(data))
                /\ AllResolved(ResultsOf(w, snap.root, data))
        [] plan.steps[n].kind = "when" -> i = 1 \/ (condition.ok /\ i = Selected(condition))
        [] OTHER -> TRUE

\* _append_control_once.
Decide(snap, w, n, decision) ==
  IF n \in snap.decided THEN w
  ELSE Call(w, [op |-> "decide", node |-> n, decision |-> decision])

\* A when records its decision before it walks into the branch.
Entered(plan, snap, w, f) ==
  IF plan.steps[f.node].kind # "when" \/ f.next = 1 THEN w
  ELSE [Decide(snap, w, f.node, <<f.node, f.next>>) EXCEPT
          !.context = Put(@, Inner(plan, f.node, f.next, f.scope), <<f.node, f.next>>)]

\* _inherited_branches: the decisions of the branches that the scope lies in.
Inherited(w, scope) ==
  FlattenSeq([k \in 1 .. Len(scope) |->
    LET prefix == SubSeq(scope, 1, k)
    IN  IF prefix \in DOMAIN w.context THEN <<w.context[prefix]>> ELSE <<>>])

\* The results of the dependencies that only order n.
OrderResults(plan, w, root, n) ==
  [i \in DOMAIN plan.steps[n].deps |->
     IF OnlyOrders(plan, n, i) THEN ResultOf(w, root, plan.steps[n].deps[i])
     ELSE Resolved(root, <<>>, <<>>)]

\* What the binding of n returns (_resolve_binding), with the keys and decisions
\* of what only orders it.
Source(plan, snap, w, n) ==
  LET bound == ResultsOf(w, snap.root, DataOf(plan, n))
      order == OrderResults(plan, w, snap.root, n)
  IN  IF ~AllResolved(bound \o order) THEN Unresolved
      ELSE Resolved(BoundValue(bound), Unique(KeysOf(bound) \o KeysOf(order)),
                    DecisionsOf(bound) \o DecisionsOf(order))

-----------------------------------------------------------------------------
\* _module_result asks for a task, releases it, or reads its accepted boundary;
\* a map does so for one item after the other, until one has failed.

StatusIn(snap, id) == IF id \in DOMAIN snap.tasks THEN snap.tasks[id].status ELSE "ABSENT"

TaskCalls(snap, id, record) ==
  CASE StatusIn(snap, id) = "ABSENT" -> <<[op |-> "enqueue", id |-> id, record |-> record]>>
    [] StatusIn(snap, id) = "BLOCKED" -> <<[op |-> "ready", id |-> id, record |-> record]>>
    [] OTHER -> <<>>

TaskResult(snap, id) ==
  IF StatusIn(snap, id) = "SUCCEEDED" THEN Resolved(snap.tasks[id].output, <<id>>, <<>>)
  ELSE Unresolved

\* ids[i] is asked for unless a task before it has failed.
Asked(snap, ids, i) == \A j \in 1 .. i : StatusIn(snap, ids[j]) # "FAILED"

Ask(snap, w, ids, records) ==
  [w EXCEPT !.calls = @ \o FlattenSeq([i \in DOMAIN ids |->
     IF Asked(snap, ids, i) THEN TaskCalls(snap, ids[i], records[i]) ELSE <<>>])]

\* The end of a step that has asked for its tasks.
Answered(snap, w, ids, result) ==
  IF \E i \in DOMAIN ids : StatusIn(snap, ids[i]) = "FAILED" THEN Raise(w) ELSE Leave(w, result)

Record(value, source, decisions) ==
  [input |-> value, keys |-> source.keys, decisions |-> decisions]

FinishModule(snap, w, f, source) ==
  LET ids == <<Identity(f.node, f.scope)>>
      record == Record(source.value, source, source.decisions \o Inherited(w, f.scope))
  IN  Answered(snap, Ask(snap, w, ids, <<record>>), ids, TaskResult(snap, ids[1]))

ItemIds(f, items) ==
  [i \in DOMAIN items |-> Identity(f.node, Append(f.scope, <<"item", items[i]>>))]

JoinItems(results, decisions) ==
  IF AllResolved(results) THEN Resolved(ValuesOf(results), KeysOf(results), decisions)
  ELSE Unresolved

\* The decision of a map and its items: keys must differ, and all items are asked
\* for before any is missed.
FinishMap(snap, w, f, source) ==
  LET items == Items[source.value]
      ids == ItemIds(f, items)
      decisions == Append(source.decisions, <<f.node, items>>)
      records == [i \in DOMAIN items |-> Record(items[i], source, decisions)]
      results == [i \in DOMAIN ids |-> TaskResult(snap, ids[i])]
  IN  IF ~IsInjective(items) THEN Raise(w)
      ELSE Answered(snap, Ask(snap, Decide(snap, w, f.node, <<f.node, items>>), ids, records),
                    ids, JoinItems(results, decisions))

\* The result of a when is that of the selected branch.
BranchResult(plan, snap, w, n) ==
  LET deps == plan.steps[n].deps
      condition == ResultOf(w, snap.root, deps[1])
      branch == ResultOf(w, snap.root, deps[Selected(condition)])
  IN  IF ~condition.ok \/ ~branch.ok THEN Unresolved
      ELSE Resolved(branch.value, Unique(condition.keys \o branch.keys),
                    condition.decisions \o branch.decisions \o <<<<n, Selected(condition)>>>>)

\* Mutant: results are collected with the last branch first.
Join_Reversed(branches) ==
  IF ~AllResolved(branches) THEN Unresolved
  ELSE Resolved(Reverse(ValuesOf(branches)), Unique(KeysOf(branches)), DecisionsOf(branches))

\* The result of a parallel.
Join(branches) ==
  IF ~AllResolved(branches) THEN Unresolved
  ELSE Resolved(ValuesOf(branches), Unique(KeysOf(branches)), DecisionsOf(branches))

\* A step that has looked at all its kids returns.
FinishStep(plan, snap, w, f) ==
  LET n == f.node
      kind == plan.steps[n].kind
      source == Source(plan, snap, w, n)
  IN  CASE kind \in Executable /\ ~source.ok -> Leave(w, Unresolved)
        [] kind = "module" /\ source.ok -> FinishModule(snap, w, f, source)
        [] kind = "map_module" /\ source.ok -> FinishMap(snap, w, f, source)
        [] kind = "when" -> Leave(w, BranchResult(plan, snap, w, n))
        [] kind = "parallel" -> Leave(w, Join(ResultsOf(w, snap.root, plan.steps[n].deps)))

\* _evaluate_node and _evaluate_step.
WalkStep(plan, snap, w) ==
  LET f == Last(w.stack)
      kids == Kids(plan, f.node)
  IN  CASE w.stack = <<>> -> w
        [] w.stack # <<>> /\ f.next > Len(kids) -> FinishStep(plan, snap, w, f)
        [] OTHER ->
             IF Wanted(plan, snap, w, f.node, f.next)
             THEN Visit(Entered(plan, snap, Advanced(w), f), kids[f.next],
                        Inner(plan, f.node, f.next, f.scope))
             ELSE Advanced(w)

Walk(plan, snap) ==
  LET w[k \in 0 .. Steps(plan)] == IF k = 0 THEN NewWalk(plan)
                                   ELSE WalkStep(plan, snap, w[k - 1])
  IN  w[Steps(plan)]

\* The store calls of a walk that has returned, with the end of the run.
EndOfWalk(w, result) ==
  CASE w.failed -> Append(w.calls, [op |-> "fail"])
    [] ~w.failed /\ result.ok -> Append(w.calls, [op |-> "count", output |-> result.value])
    [] OTHER -> w.calls

\* The store calls of one pass: tasks and decisions, then the end of the run.
PassCalls(plan, snap) ==
  LET w == Walk(plan, snap) IN EndOfWalk(w, ResultOf(w, snap.root, plan.output))

-----------------------------------------------------------------------------
(***************************************************************************)
(* What a plan means, without walks, scopes and tasks: for the properties. *)
(***************************************************************************)

\* What n reaches in a graph of nodes, itself included: the least set that has n
\* and follows every edge.
Reachable(graph, n) ==
  {m \in DOMAIN graph :
     \A S \in SUBSET DOMAIN graph :
       n \in S \cup {0} /\ (\A k \in S : graph[k] \subseteq S \cup {0}) => m \in S}

Dependencies(plan) == [n \in Nodes(plan) |-> ToSet(plan.steps[n].deps)]

\* The nodes that n rests on.
Reach(plan, n) == Reachable(Dependencies(plan), n)

\* The plan without the i-th dependency of w.
Without(plan, w, i) == [plan EXCEPT !.steps[w].deps[i] = 0]

\* A node that a branch of a when rests on, and its condition does not, is
\* used by nothing outside that branch.
BranchesClosed(plan) ==
  \A w \in Nodes(plan) : plan.steps[w].kind = "when" =>
    \A i \in {2, 3} :
      Reach(plan, plan.steps[w].deps[i]) \cap Reach(Without(plan, w, i), plan.output)
        \subseteq Reach(plan, plan.steps[w].deps[1])

\* The nodes of deps before the first d.
Before(deps, d) == {deps[j] : j \in {i \in DOMAIN deps : \A k \in 1 .. i : deps[k] # d}}

\* A module depends on its input alone, in the order in which it is bound, and a
\* map on the sequence it iterates over alone: as in every plan that is compiled
\* from a workflow.
InputOnly(plan, n) ==
  LET step == plan.steps[n] IN
  /\ step.kind = "module" =>
       /\ ToSet(step.deps) = ToSet(step.data)
       /\ \A i \in DOMAIN step.data :
            Before(step.deps, step.data[i]) \subseteq {step.data[j] : j \in 1 .. (i - 1)}
  /\ step.kind = "map_module" => Len(step.deps) = 1

\* Dependencies that only order a step occur in plans without scopes.
OrderUnscoped(plan) ==
  \/ \A n \in Nodes(plan) : plan.steps[n].kind \in Executable
  \/ \A n \in Nodes(plan) : InputOnly(plan, n)

WellScoped(plan) == BranchesClosed(plan) /\ OrderUnscoped(plan)

Known(value) == Resolved(value, <<>>, <<>>)

OutputsOf(accepted, n) == {id \in DOMAIN accepted : id[1] = n}

ItemTask(accepted, n, item) == {id \in OutputsOf(accepted, n) : Last(id[2]) = <<"item", item>>}

OneOf(accepted, ids) ==
  IF ids = {} THEN Unresolved ELSE Known(accepted[CHOOSE id \in ids : TRUE])

Joined(results) == IF AllResolved(results) THEN Known(ValuesOf(results)) ELSE Unresolved

\* The value of n, given the accepted outputs of the tasks so far, and the values
\* of the nodes that it depends on.
MeaningIn(plan, accepted, root, of, n) ==
  LET deps == plan.steps[n].deps
      items == Items[of[deps[1]].value]
  IN  IF n = 0 THEN Known(root)
      ELSE CASE plan.steps[n].kind = "module" -> OneOf(accepted, OutputsOf(accepted, n))
             [] plan.steps[n].kind = "parallel" -> Joined([i \in DOMAIN deps |-> of[deps[i]]])
             [] plan.steps[n].kind = "when" ->
                  IF of[deps[1]].ok THEN of[deps[Selected(of[deps[1]])]] ELSE Unresolved
             [] plan.steps[n].kind = "map_module" ->
                  IF of[deps[1]].ok
                  THEN Joined([i \in DOMAIN items |->
                                 OneOf(accepted, ItemTask(accepted, n, items[i]))])
                  ELSE Unresolved

Denote(plan, accepted, root, n) ==
  LET of[m \in 0 .. Len(plan.steps)] == MeaningIn(plan, accepted, root, of, m)
  IN  of[n]

\* What n needs: of a when the condition, then the selected branch.
Needs(plan, accepted, root, n) ==
  LET deps == plan.steps[n].deps
      test == Denote(plan, accepted, root, deps[1])
  IN  IF plan.steps[n].kind # "when" THEN ToSet(deps)
      ELSE {deps[1]} \cup (IF test.ok THEN {deps[Selected(test)]} ELSE {})

\* The nodes that n needs, and those that these need.
Demanded(plan, accepted, root, n) ==
  Reachable([m \in Nodes(plan) |-> Needs(plan, accepted, root, m)], n)
=============================================================================
