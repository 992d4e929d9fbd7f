---------------------------- MODULE PlanCompiler ----------------------------
(***************************************************************************)
(* The compilation of a workflow into Plan IR (ir.py, _Compiler), and the  *)
(* comparison of compiled plans by replay identity (alignment.py).         *)
(*                                                                         *)
(* A workflow is [exprs, output, schema]: the values that build() made, in *)
(* an order in which operands come first, the one it returned, and the     *)
(* root schemas.  Values are numbers, 0 is the input of the workflow that  *)
(* the value was built in; a value used twice is one Python object.  An    *)
(* expression is [kind, deps, module, at, schema, behaviour, held]: at is  *)
(* its explicit logical step, 0 when there is none; several operands of a  *)
(* module are the fields of a structured input, none is a literal.  A      *)
(* nested workflow has its input and its own output as operands.           *)
(***************************************************************************)
EXTENDS PlanEval

Exprs(w) == DOMAIN w.exprs

\* Paths of the walk from the output; "input" is the empty path.
RootPath == <<<<"root", 0>>>>

Operand(path, i) == Append(path, <<"dep", i>>)

\* The operands of an expression with their paths, as every walk visits them.
Operands(expr, path) ==
  [i \in DOMAIN expr.deps |->
    <<expr.deps[i],
      CASE expr.kind = "module" /\ Len(expr.deps) > 1 ->
             Append(Operand(path, 1), <<"field", i>>)
        [] expr.kind = "workflow" -> Append(path, <<IF i = 1 THEN "input" ELSE "nested", 0>>)
        [] OTHER -> Operand(path, i)>>]

-----------------------------------------------------------------------------
\* _visit: c.steps are the steps so far, c.nodes the node of each value met,
\* whatever the path that meets it later.
NodeOf(c, x, external) == IF x = 0 THEN external ELSE c.nodes[x]

\* ReplayKey: without an explicit logical step the path is one.
ReplayKey(expr, path) ==
  <<expr.module, IF expr.at = 0 THEN path ELSE <<<<"at", expr.at>>>>>>

NoKey == <<>>

\* _module_step, or the step of a control node.
CompiledStep(expr, path, nodes) ==
  [kind |-> IF expr.kind = "map" THEN "map_module" ELSE expr.kind,
   path |-> path,
   deps |-> IF expr.kind = "module" THEN Unique(nodes) ELSE nodes,
   data |-> nodes,
   key |-> IF expr.kind \in {"module", "map"} THEN ReplayKey(expr, path) ELSE NoKey,
   explicit |-> expr.at # 0,
   schema |-> expr.schema,
   behaviour |-> expr.behaviour,
   held |-> expr.held]

RECURSIVE CompileValue(_, _, _, _, _)

RECURSIVE CompileAll(_, _, _, _)

CompileAll(w, c, visits, external) ==
  IF visits = <<>> THEN c
  ELSE CompileAll(w, CompileValue(w, c, Head(visits)[1], Head(visits)[2], external),
                  Tail(visits), external)

CompileValue(w, c, x, path, external) ==
  IF x = 0 \/ x \in DOMAIN c.nodes THEN c
  ELSE LET expr == w.exprs[x]
           visits == Operands(expr, path)
           inner == CompileValue(w, c, visits[1][1], visits[1][2], external)
           source == NodeOf(inner, expr.deps[1], external)
           nested == CompileValue(w, inner, visits[2][1], visits[2][2], source)
           walked == CompileAll(w, c, visits, external)
           nodes == [i \in DOMAIN expr.deps |-> NodeOf(walked, expr.deps[i], external)]
       IN  IF expr.kind = "workflow"
           THEN [nested EXCEPT !.nodes = (x :> NodeOf(nested, expr.deps[2], source)) @@ @]
           ELSE [walked EXCEPT
                   !.steps = Append(@, CompiledStep(expr, path, nodes)),
                   !.nodes = (x :> Len(walked.steps) + 1) @@ @]

\* compile_graph.
Compile(w) ==
  LET c == CompileValue(w, [steps |-> <<>>, nodes |-> NoNode], w.output, RootPath, 0)
  IN  [steps |-> c.steps, output |-> NodeOf(c, w.output, 0), schema |-> w.schema]

HasKey(step) == step.key # NoKey

\* CompileError: a duplicate replay key, or a module that occurs twice and not
\* always under an explicit logical step.  The code counts occurrences of module
\* objects; here a module is its id, so two objects never share one.
Compiles(plan) ==
  \A n, m \in Nodes(plan) :
    n # m /\ HasKey(plan.steps[n]) /\ HasKey(plan.steps[m]) =>
      /\ plan.steps[n].key # plan.steps[m].key
      /\ plan.steps[n].key[1] = plan.steps[m].key[1] =>
           plan.steps[n].explicit /\ plan.steps[m].explicit

-----------------------------------------------------------------------------
\* project_execution_path: the nodes on the path that the recorded decisions
\* select; a when without a decision keeps its branches.  The steps themselves
\* are those of the plan.
ChosenAt(decisions, path) ==
  {decisions[i].chosen : i \in {j \in DOMAIN decisions : decisions[j].node = path}}

RECURSIVE OnPath(_, _, _)

OnPath(plan, decisions, n) ==
  IF n = 0 THEN {}
  ELSE LET step == plan.steps[n]
           chosen == ChosenAt(decisions, step.path)
           used == IF step.kind = "when" /\ chosen # {}
                   THEN {step.deps[1]} \cup {step.deps[c[1]] : c \in chosen}
                   ELSE ToSet(step.deps)
       IN  {n} \cup UNION {OnPath(plan, decisions, d) : d \in used}

PathOf(plan, n) == IF n = 0 THEN <<>> ELSE plan.steps[n].path

\* The nodes of a set in plan order.
InPlanOrder(plan, nodes) == SelectSeq([n \in Nodes(plan) |-> n], LAMBDA n : n \in nodes)

\* executable_steps of the projected plan, and _control_signature of the others.
ExecutableKeys(plan, nodes) ==
  LET all == InPlanOrder(plan, {n \in nodes : HasKey(plan.steps[n])})
  IN  [i \in DOMAIN all |-> plan.steps[all[i]].key]

ControlSignature(plan, nodes) ==
  LET all == InPlanOrder(plan, {n \in nodes : ~HasKey(plan.steps[n])})
  IN  [i \in DOMAIN all |->
        LET step == plan.steps[all[i]]
        IN  [path |-> step.path, kind |-> step.kind,
             deps |-> [j \in DOMAIN step.deps |-> PathOf(plan, step.deps[j])]]]

RECURSIVE DependencyWalk(_, _, _, _)

\* _dependency_keys: the nearest executable nodes, in the order of a walk
\* that does not enter nodes off the path.
DependencyWalk(plan, nodes, w, visits) ==
  IF visits = <<>> THEN w
  ELSE LET n == Head(visits)
           met == [w EXCEPT !.seen = @ \cup {n}]
           next == IF n = 0 \/ n \in w.seen THEN w
                   ELSE IF n \notin nodes THEN met
                   ELSE IF HasKey(plan.steps[n])
                   THEN [met EXCEPT !.found = Append(@, plan.steps[n].key)]
                   ELSE DependencyWalk(plan, nodes, met, plan.steps[n].deps)
       IN  DependencyWalk(plan, nodes, next, Tail(visits))

DependencyKeys(plan, nodes, n) ==
  DependencyWalk(plan, nodes, [seen |-> {}, found |-> <<>>], plan.steps[n].deps).found

NodeWithKey(plan, key) == CHOOSE n \in Nodes(plan) : plan.steps[n].key = key

\* align, as far as it decides whether correspondence stops: differences of
\* behaviour, budgets, declarations and schemas are listed and stop nothing.
Aligned(old, new, decisions) ==
  LET before == OnPath(old, decisions, old.output)
      after == OnPath(new, decisions, new.output)
      keys == ExecutableKeys(old, before)
  IN  /\ keys = ExecutableKeys(new, after)
      /\ ControlSignature(old, before) = ControlSignature(new, after)
      /\ \A i \in DOMAIN keys :
           LET n == NodeWithKey(old, keys[i])
               m == NodeWithKey(new, keys[i])
           IN  /\ old.steps[n].kind = new.steps[m].kind
               /\ DependencyKeys(old, before, n) = DependencyKeys(new, after, m)
=============================================================================
