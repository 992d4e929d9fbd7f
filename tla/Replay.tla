------------------------------- MODULE Replay -------------------------------
(***************************************************************************)
(* Replay: a successful run is projected to a fixture (fixture.py), and    *)
(* the fixture is replayed against the current workflow (replay.py), which *)
(* may have been edited since.  Full-stub replay injects every recorded    *)
(* output and executes nothing; selective replay then executes the chosen  *)
(* boundaries once more and compares.                                      *)
(*                                                                         *)
(* The run is recorded by one scheduler whose passes are atomic: what      *)
(* several do is the subject of Scheduler.  Regions generated at run time  *)
(* and the values of artifacts are left out.                               *)
(***************************************************************************)
EXTENDS PlanCompiler, SelectiveReplay

CONSTANTS
  Workflows,   \* the workflows that are run
  Edits,       \* Edits[w]: what w may have become when its run is replayed
  MaxSelected  \* bound: how many live steps a case names

ASSUME ReplayAssumption ==
  \A w \in Workflows : Compiles(Compile(w)) /\ w \in Edits[w]

VARIABLES
  workflow,  \* the workflow that was run
  run        \* its run in the store

vars == <<workflow, run, fixture, replay>>

NoFixture == [exported |-> FALSE]

-----------------------------------------------------------------------------
(***************************************************************************)
(* The run.  run.created are the tasks in the order of their created_at.   *)
(***************************************************************************)
Task(status, record) ==
  [status |-> status, input |-> record.input, keys |-> record.keys, output |-> <<>>]

NoRecord == [input |-> <<>>, keys |-> <<>>]

\* submit: the static tasks exist, blocked, before any result does.
Submitted(w, root) ==
  LET plan == Compile(w)
      ids == StaticTasks(plan)
  IN  [plan |-> plan, root |-> root, status |-> "RUNNING", output |-> <<>>,
       tasks |-> [id \in ToSet(ids) |-> Task("BLOCKED", NoRecord)],
       created |-> ids, decisions |-> <<>>]

Init ==
  /\ workflow \in Workflows
  /\ run \in {Submitted(workflow, root) : root \in Values}
  /\ fixture = NoFixture
  /\ replay = Idle

\* A decision by the node_id of its control node; a branch by its index.
LoggedDecision(plan, decision) ==
  [node |-> plan.steps[decision[1]].path,
   chosen |-> IF plan.steps[decision[1]].kind = "when" THEN <<decision[2]>> ELSE decision[2]]

\* The store calls of a pass: enqueue_task, ready_task, append_event,
\* complete_run and fail_run.
Applied(r, call) ==
  CASE call.op = "enqueue" ->
         [r EXCEPT !.tasks = (call.id :> Task("READY", call.record)) @@ @,
                   !.created = Append(@, call.id)]
    [] call.op = "ready" -> [r EXCEPT !.tasks[call.id] = Task("READY", call.record)]
    [] call.op = "decide" ->
         [r EXCEPT !.decisions = Append(@, LoggedDecision(r.plan, call.decision))]
    [] call.op = "count" -> [r EXCEPT !.status = "SUCCEEDED", !.output = call.output]
    [] call.op = "fail" -> [r EXCEPT !.status = "FAILED"]

Decided(r) ==
  {n \in Nodes(r.plan) : \E i \in DOMAIN r.decisions : r.decisions[i].node = r.plan.steps[n].path}

\* advance, by the only scheduler.
Pass ==
  /\ run.status = "RUNNING"
  /\ run' = FoldLeft(Applied, run,
                     PassCalls(run.plan, [root |-> run.root, tasks |-> run.tasks,
                                          decided |-> Decided(run)]))
  /\ run' # run
  /\ UNCHANGED <<workflow, fixture, replay>>

\* A worker executes a task; its boundary is accepted.
Accept(id, value) ==
  /\ run.status = "RUNNING"
  /\ run.tasks[id].status = "READY"
  /\ run' = [run EXCEPT !.tasks[id].status = "SUCCEEDED", !.tasks[id].output = value]
  /\ UNCHANGED <<workflow, fixture, replay>>

-----------------------------------------------------------------------------
(***************************************************************************)
(* Export.                                                                 *)
(***************************************************************************)

\* instance_key: a replay key with the instance under it.
Instance(plan, id) == <<plan.steps[id[1]].key, id[2]>>

\* accepted_boundaries: one per task, in the order in which they were created.
Boundaries(r) ==
  [i \in DOMAIN r.created |->
    LET id == r.created[i]
        task == r.tasks[id]
    IN  [instance |-> Instance(r.plan, id),
         schema |-> r.plan.steps[id[1]].schema,
         input |-> task.input,
         deps |-> [k \in DOMAIN task.keys |-> Instance(r.plan, task.keys[k])],
         output |-> task.output]]

Occurrences(s, P(_)) == Cardinality({i \in DOMAIN s : P(s[i])})

DecisionsAt(decisions, path) == SelectSeq(decisions, LAMBDA d : d.node = path)

\* The boundaries that a step on the path must have: one, or one per item.
Expected(r, n) ==
  IF r.plan.steps[n].kind = "map_module"
  THEN Len(DecisionsAt(r.decisions, r.plan.steps[n].path)[1].chosen) ELSE 1

\* Mutant: items of a map are not counted.
HistoryComplete_NoItems(r) ==
  LET path == OnPath(r.plan, r.decisions, r.plan.output)
      records == Boundaries(r)
  IN  /\ \A id \in DOMAIN r.tasks : r.tasks[id].status = "SUCCEEDED"
      /\ \A n \in path : r.plan.steps[n].kind \in {"when", "map_module"} =>
           Len(DecisionsAt(r.decisions, r.plan.steps[n].path)) = 1
      /\ \A n \in path : HasKey(r.plan.steps[n]) =>
           Occurrences(records, LAMBDA b : b.instance[1] = r.plan.steps[n].key) = 1

\* _validate_history.
HistoryComplete(r) ==
  LET path == OnPath(r.plan, r.decisions, r.plan.output)
      records == Boundaries(r)
  IN  /\ \A id \in DOMAIN r.tasks : r.tasks[id].status = "SUCCEEDED"
      /\ \A n \in path : r.plan.steps[n].kind \in {"when", "map_module"} =>
           Len(DecisionsAt(r.decisions, r.plan.steps[n].path)) = 1
      /\ \A n \in path : r.plan.steps[n].kind = "map_module" =>
           IsInjective(DecisionsAt(r.decisions, r.plan.steps[n].path)[1].chosen)
      /\ \A n \in path : HasKey(r.plan.steps[n]) =>
           Occurrences(records, LAMBDA b : b.instance[1] = r.plan.steps[n].key) = Expected(r, n)
      /\ \A i \in DOMAIN records :
           \E n \in path : r.plan.steps[n].key = records[i].instance[1]

\* project: a fixture, or ReplayFixtureError.
Export ==
  /\ run.status = "SUCCEEDED" /\ fixture = NoFixture
  /\ fixture' = [exported |-> TRUE, complete |-> HistoryComplete(run), plan |-> run.plan,
                 root |-> run.root, output |-> run.output, boundaries |-> Boundaries(run),
                 decisions |-> run.decisions]
  /\ UNCHANGED <<workflow, run, replay>>

-----------------------------------------------------------------------------
(***************************************************************************)
(* _validate_contracts: the recorded boundaries fit the current contracts, *)
(* and each one's dependencies are listed before it.                       *)
(***************************************************************************)
InjectableInto(plan, f) ==
  /\ plan.schema = f.plan.schema
  /\ \A i \in DOMAIN f.boundaries :
       LET b == f.boundaries[i]
       IN  /\ \E n \in Nodes(plan) : /\ plan.steps[n].key = b.instance[1]
                                     /\ plan.steps[n].schema = b.schema
           /\ \A j \in 1 .. i - 1 : f.boundaries[j].instance # b.instance
           /\ ToSet(b.deps) \subseteq {f.boundaries[j].instance : j \in 1 .. i - 1}

-----------------------------------------------------------------------------
(***************************************************************************)
(* _StubGraphExecutor: a walk over the current expressions, like that of   *)
(* the compiler, but into the selected branches only.  env is [w, plan,    *)
(* fixture]; s.cache are the results by value, s.used the boundaries that  *)
(* were injected, s.decisions the decisions met, s.failed an exception.    *)
(***************************************************************************)
Evaluation(value, keys) == [value |-> value, keys |-> keys]

NoEvaluation == Evaluation(<<>>, <<>>)

EvaluationOf(s, x, external) == IF x = 0 THEN external ELSE s.cache[x]

EvaluationsOf(s, xs, external) == [i \in DOMAIN xs |-> EvaluationOf(s, xs[i], external)]

StubFails(s) == [s EXCEPT !.failed = TRUE, !.ret = NoEvaluation]

\* Mutant: the recorded input is not compared with the handoff.
Inject_AnyInput(env, s, path, source, scope) ==
  LET here == {n \in Nodes(env.plan) : env.plan.steps[n].path = path}
      wanted == {<<env.plan.steps[n].key, scope>> : n \in here}
      found == {i \in DOMAIN env.fixture.boundaries :
                  env.fixture.boundaries[i].instance \in wanted}
      b == env.fixture.boundaries[CHOOSE i \in found : TRUE]
  IN  IF \/ found = {}
         \/ b.instance \in s.used
         \/ b.deps # source.keys
      THEN StubFails(s)
      ELSE [s EXCEPT !.used = @ \cup {b.instance},
                     !.ret = Evaluation(b.output, <<b.instance>>)]

\* _inject: the step is looked up by the path walked, the boundary by its key
\* and scope; it must not have been injected, and its recorded input and
\* dependencies must be those of the handoff.
Inject(env, s, path, source, scope) ==
  LET here == {n \in Nodes(env.plan) : env.plan.steps[n].path = path}
      wanted == {<<env.plan.steps[n].key, scope>> : n \in here}
      found == {i \in DOMAIN env.fixture.boundaries :
                  env.fixture.boundaries[i].instance \in wanted}
      b == env.fixture.boundaries[CHOOSE i \in found : TRUE]
  IN  IF \/ found = {}
         \/ b.instance \in s.used
         \/ b.input # source.value
         \/ b.deps # source.keys
      THEN StubFails(s)
      ELSE [s EXCEPT !.used = @ \cup {b.instance},
                     !.ret = Evaluation(b.output, <<b.instance>>)]

Note(s, path, chosen) ==
  [s EXCEPT !.decisions = Append(@, [node |-> path, chosen |-> chosen])]

RECURSIVE StubValue(_, _, _, _, _, _)

RECURSIVE StubStep(_, _, _, _, _, _)

RECURSIVE StubAll(_, _, _, _)

RECURSIVE StubItems(_, _, _, _, _, _)

\* Visits are <<value, path, scope>>.
StubAll(env, s, visits, external) ==
  IF visits = <<>> THEN s
  ELSE StubAll(env, StubValue(env, s, Head(visits)[1], Head(visits)[2], external,
                              Head(visits)[3]),
               Tail(visits), external)

StubValue(env, s, x, path, external, scope) ==
  IF s.failed \/ x = 0 \/ x \in DOMAIN s.cache THEN s
  ELSE LET done == StubStep(env, s, x, path, external, scope)
       IN  [done EXCEPT !.cache = (x :> done.ret) @@ @]

\* The items of a map, each injected under its key.
StubItems(env, s, path, source, scope, items) ==
  IF s.failed \/ items = <<>> THEN s
  ELSE LET done == Inject(env, s, path, [source EXCEPT !.value = Head(items)],
                          Append(scope, <<"item", Head(items)>>))
       IN  StubItems(env, [done EXCEPT !.items = Append(@, done.ret)], path, source, scope,
                     Tail(items))

Gathered(results) == Evaluation(ValuesOf(results), Unique(KeysOf(results)))

StubModule(env, s, x, path, external, scope) ==
  LET operands == Operands(env.w.exprs[x], path)
      walked == StubAll(env, s, [i \in DOMAIN operands |->
                                   <<operands[i][1], operands[i][2], scope>>], external)
      results == EvaluationsOf(walked, env.w.exprs[x].deps, external)
  IN  IF walked.failed THEN walked
      ELSE Inject(env, walked, path,
                  IF Len(results) = 1 THEN results[1] ELSE Gathered(results), scope)

StubParallel(env, s, x, path, external, scope) ==
  LET operands == Operands(env.w.exprs[x], path)
      walked == StubAll(env, s, [i \in DOMAIN operands |->
                  <<operands[i][1], operands[i][2], Append(scope, <<"parallel", i>>)>>], external)
  IN  IF walked.failed THEN walked
      ELSE [walked EXCEPT !.ret = Gathered(EvaluationsOf(walked, env.w.exprs[x].deps, external))]

StubWhen(env, s, x, path, external, scope) ==
  LET deps == env.w.exprs[x].deps
      tested == StubValue(env, s, deps[1], Operand(path, 1), external, scope)
      condition == EvaluationOf(tested, deps[1], external)
      index == IF Flag[condition.value] THEN 2 ELSE 3
      walked == StubValue(env, Note(tested, path, <<index>>), deps[index], Operand(path, index),
                          external, Append(scope, <<"branch", index>>))
      branch == EvaluationOf(walked, deps[index], external)
  IN  IF tested.failed THEN tested
      ELSE IF walked.failed THEN walked
      ELSE [walked EXCEPT !.ret = Evaluation(branch.value, Unique(condition.keys \o branch.keys))]

StubMap(env, s, x, path, external, scope) ==
  LET dep == env.w.exprs[x].deps[1]
      walked == StubValue(env, s, dep, Operand(path, 1), external, scope)
      source == EvaluationOf(walked, dep, external)
      items == Items[source.value]
      mapped == StubItems(env, [Note(walked, path, items) EXCEPT !.items = <<>>],
                          path, source, scope, items)
  IN  IF walked.failed THEN walked
      ELSE IF ~IsInjective(items) THEN StubFails(walked)
      ELSE IF mapped.failed THEN mapped
      ELSE [mapped EXCEPT !.ret = Evaluation(ValuesOf(mapped.items), KeysOf(mapped.items))]

\* A nested workflow: its values take its input for theirs.
StubNested(env, s, x, path, external, scope) ==
  LET operands == Operands(env.w.exprs[x], path)
      walked == StubValue(env, s, operands[1][1], operands[1][2], external, scope)
      source == EvaluationOf(walked, operands[1][1], external)
      inner == StubValue(env, walked, operands[2][1], operands[2][2], source, scope)
  IN  IF walked.failed THEN walked
      ELSE IF inner.failed THEN inner
      ELSE [inner EXCEPT !.ret = EvaluationOf(inner, operands[2][1], source)]

StubStep(env, s, x, path, external, scope) ==
  CASE env.w.exprs[x].kind = "module" -> StubModule(env, s, x, path, external, scope)
    [] env.w.exprs[x].kind = "parallel" -> StubParallel(env, s, x, path, external, scope)
    [] env.w.exprs[x].kind = "when" -> StubWhen(env, s, x, path, external, scope)
    [] env.w.exprs[x].kind = "map" -> StubMap(env, s, x, path, external, scope)
    [] env.w.exprs[x].kind = "workflow" -> StubNested(env, s, x, path, external, scope)

SameBag(s, t) ==
  \A d \in ToSet(s) \cup ToSet(t) :
    Occurrences(s, LAMBDA e : e = d) = Occurrences(t, LAMBDA e : e = d)

\* execute: every boundary is injected, the output and the decisions are those
\* recorded.
Reconstructs(w, plan, f) ==
  LET env == [w |-> w, plan |-> plan, fixture |-> f]
      blank == [cache |-> NoNode, used |-> {}, decisions |-> <<>>, failed |-> FALSE,
                ret |-> NoEvaluation, items |-> <<>>]
      walked == StubValue(env, blank, w.output, RootPath, Evaluation(f.root, <<>>), <<>>)
      result == EvaluationOf(walked, w.output, Evaluation(f.root, <<>>))
  IN  /\ ~walked.failed
      /\ result.value = f.output
      /\ \A i \in DOMAIN f.boundaries : f.boundaries[i].instance \in walked.used
      /\ SameBag(walked.decisions, f.decisions)

-----------------------------------------------------------------------------
(***************************************************************************)
(* replay.                                                                 *)
(***************************************************************************)
\* What happens before any live step: OK when the stub walk succeeded.
StubStatus(w, f) ==
  LET plan == Compile(w)
  IN  CASE ~Compiles(plan) -> "ERROR"
        [] Compiles(plan) /\ ~Aligned(f.plan, plan, f.decisions) -> "REPLAY_DIVERGENCE"
        [] OTHER -> IF InjectableInto(plan, f) /\ Reconstructs(w, plan, f) THEN "OK" ELSE "ERROR"

StepKeys(plan) == {plan.steps[n].key : n \in {m \in Nodes(plan) : HasKey(plan.steps[m])}}

\* build_module_registry, as far as it is asked: the keys whose current modules
\* are effectful or interactions.
HeldKeys(plan) == {key \in StepKeys(plan) : plan.steps[NodeWithKey(plan, key)].held}

Executed(f) == {f.boundaries[i].instance[1] : i \in DOMAIN f.boundaries}

\* A call of replay.  Full-stub replay accepts no live steps; selective replay
\* needs some, each a step of the current plan that the fixture has an execution
\* of, and goes on with them.
ReplayCase(w, mode, selected) ==
  /\ fixture.exported /\ fixture.complete /\ replay = Idle
  /\ LET status == StubStatus(w, fixture)
         case == Case(w, mode, selected, HeldKeys(Compile(w)))
         selectable == /\ selected # {}
                       /\ selected \subseteq StepKeys(Compile(w)) \cap Executed(fixture)
     IN  replay' = IF status # "OK" THEN Ended(case, status)
                   ELSE IF mode = "full-stub"
                   THEN Ended(case, IF selected = {} THEN "PASS" ELSE "ERROR")
                   ELSE IF selectable THEN case ELSE Ended(case, "ERROR")
  /\ UNCHANGED <<workflow, run, fixture>>

\* The live steps a case may name: of the current plan or the recorded one.
Selections(w) ==
  {sel \in SUBSET (StepKeys(Compile(w)) \cup StepKeys(run.plan)) :
     Cardinality(sel) <= MaxSelected}

Modes == {"full-stub", "selective"}

Next ==
  \/ Pass
  \/ \E id \in DOMAIN run.tasks, value \in Values : Accept(id, value)
  \/ Export
  \/ \E w \in Edits[workflow], mode \in Modes :
       \E selected \in Selections(w) : ReplayCase(w, mode, selected)
  \/ Loop /\ UNCHANGED <<workflow, run>>

Spec == Init /\ [][Next]_vars

-----------------------------------------------------------------------------
(***************************************************************************)
(* Properties.                                                             *)
(***************************************************************************)

\* The recorded outputs as accepted results of a plan with the same keys.
AcceptedIn(plan, f) ==
  LET known == {i \in DOMAIN f.boundaries : f.boundaries[i].instance[1] \in StepKeys(plan)}
      Id(i) == <<NodeWithKey(plan, f.boundaries[i].instance[1]), f.boundaries[i].instance[2]>>
  IN  [id \in {Id(i) : i \in known} |->
         f.boundaries[CHOOSE i \in known : Id(i) = id].output]

\* What a plan says that the input of an instance of n is.
IsInput(plan, accepted, root, n, scope, input) ==
  LET step == plan.steps[n]
      Of(m) == Denote(plan, accepted, root, m)
  IN  IF step.kind = "map_module"
      THEN /\ Of(step.deps[1]).ok
           /\ input \in ToSet(Items[Of(step.deps[1]).value])
           /\ Last(scope) = <<"item", input>>
      ELSE LET results == [i \in DOMAIN step.data |-> Of(step.data[i])]
           IN  AllResolved(results) /\ input = BoundValue(results)

\* A replay that is not refused vouches for the current workflow: with the
\* recorded results, the current definition - edited in whatever way - computes
\* the recorded output, needs exactly the recorded executions, and gives each
\* of them the recorded input.
SoundReplay ==
  replay.phase = "done" /\ replay.status \in Accepting =>
    LET plan == Compile(replay.current)
        accepted == AcceptedIn(plan, fixture)
        result == Denote(plan, accepted, fixture.root, plan.output)
        needed == {n \in Demanded(plan, accepted, fixture.root, plan.output) :
                     /\ HasKey(plan.steps[n])
                     /\ plan.steps[n].kind = "map_module" =>
                          Items[Denote(plan, accepted, fixture.root,
                                       plan.steps[n].deps[1]).value] # <<>>}
    IN  /\ result.ok /\ result.value = fixture.output
        /\ {plan.steps[n].key : n \in needed} = Executed(fixture)
        /\ \A i \in DOMAIN fixture.boundaries :
             LET b == fixture.boundaries[i]
             IN  IsInput(plan, accepted, fixture.root, NodeWithKey(plan, b.instance[1]),
                         b.instance[2], b.input)

\* The steps that the recorded results lead through, without their behaviour.
Travelled(plan, f) ==
  {[path |-> plan.steps[n].path, kind |-> plan.steps[n].kind, key |-> plan.steps[n].key,
    schema |-> plan.steps[n].schema,
    deps |-> [i \in DOMAIN plan.steps[n].deps |-> PathOf(plan, plan.steps[n].deps[i])]] :
     n \in Demanded(plan, AcceptedIn(plan, f), f.root, plan.output)}

\* Each boundary is listed after those it depends on.
ListedInOrder(f) ==
  \A i \in DOMAIN f.boundaries :
    ToSet(f.boundaries[i].deps) \subseteq {f.boundaries[j].instance : j \in 1 .. i - 1}

\* Replay does not refuse what it need not: the history of a successful run is
\* complete, and full-stub replay passes for every current workflow that differs
\* from the recorded one only in the behaviour of modules and off the recorded
\* path.  Two kinds of runs are excepted: boundaries listed out of order, and
\* values that a branch of a when shares with its surroundings.
CompleteReplay ==
  /\ fixture.exported => fixture.complete
  /\ /\ replay.phase = "done" /\ replay.mode = "full-stub" /\ replay.selected = {}
     /\ ListedInOrder(fixture)
     /\ Compiles(Compile(replay.current))
     /\ BranchesClosed(fixture.plan) /\ BranchesClosed(Compile(replay.current))
     /\ replay.current.schema = workflow.schema
     /\ Travelled(Compile(replay.current), fixture) = Travelled(fixture.plan, fixture)
     => replay.status = "PASS"

\* Full-stub replay of a successful run against the workflow that was run passes.
RecordedRunReplays ==
  /\ replay.phase = "done" /\ replay.mode = "full-stub" /\ replay.selected = {}
  /\ replay.current = workflow
  => replay.status = "PASS"
=============================================================================
