------------------------------ MODULE MCReplay ------------------------------
(* Workflows, their edits and values for the instances of Replay. *)
EXTENDS Replay, TLC

CONSTANTS no, yes

MCFlag == (no :> FALSE) @@ (yes :> TRUE)

MCItems == (no :> <<>>) @@ (yes :> <<yes, no>>)

Expr(kind, deps) ==
  [kind |-> kind, deps |-> deps, module |-> "", at |-> 0, schema |-> 0, behaviour |-> 0,
   held |-> FALSE]

\* A module under an implicit logical step, and one under an explicit step.
Module(name, deps) == [Expr("module", deps) EXCEPT !.module = name]

ModuleAt(name, at, deps) == [Module(name, deps) EXCEPT !.at = at]

Workflow(exprs) == [exprs |-> exprs, output |-> Len(exprs), schema |-> 0]

\* One module used for two steps of a chain; the second has an effect.
Chain ==
  Workflow(<<ModuleAt("a", 1, <<0>>), [ModuleAt("a", 2, <<1>>) EXCEPT !.held = TRUE]>>)

\* A structured input of two parallel values that share a module.
Diamond ==
  Workflow(<<Module("a", <<0>>), Module("b", <<1>>), Module("c", <<1, 2, 0>>),
             Expr("parallel", <<2, 3>>)>>)

\* A when on the result of a module, one branch of which goes on from it.
Choice ==
  Workflow(<<Module("a", <<0>>), Module("b", <<1>>), Module("c", <<0>>),
             Expr("when", <<1, 2, 3>>)>>)

\* A map in a nested workflow, over the result of a module outside.
Fan ==
  Workflow(<<Module("a", <<0>>), [Expr("map", <<0>>) EXCEPT !.module = "b"],
             Expr("workflow", <<1, 2>>)>>)

\* A module after a when.
After ==
  Workflow(<<Module("a", <<0>>), Expr("when", <<0, 1, 0>>), Module("b", <<2>>)>>)

\* A module that both branches of a when go on from.
Twin ==
  Workflow(<<Module("a", <<0>>), Module("b", <<1>>), Module("c", <<1>>),
             Expr("when", <<0, 2, 3>>)>>)

MCWorkflows == {Chain, Diamond, Choice, Fan, After, Twin}

AfterOnly == {After}

-----------------------------------------------------------------------------
Executables(w) == {x \in Exprs(w) : w.exprs[x].kind \in {"module", "map"}}

\* The values with the shape of a root input.
Scalars(w) == {0} \cup {x \in Exprs(w) : w.exprs[x].kind = "module"}

Flat(w) == \A x \in Exprs(w) : w.exprs[x].kind # "workflow"

\* One operand is replaced by another value of its shape, built before.
Redirections(w) ==
  UNION {{[w EXCEPT !.exprs[x].deps[i] = y] : y \in {z \in Scalars(w) : z < x}} :
           <<x, i>> \in {<<z, j>> \in Exprs(w) \X (1 .. 3) :
                          /\ Flat(w)
                          /\ j \in DOMAIN w.exprs[z].deps
                          /\ w.exprs[z].deps[j] \in Scalars(w)}}

\* A module becomes another one, or another logical step, changes its contract
\* or its behaviour, or begins to have an effect.
Changes(w) ==
  UNION {{[w EXCEPT !.exprs[x].module = "d"],
          [w EXCEPT !.exprs[x].at = 3],
          [w EXCEPT !.exprs[x].schema = 1],
          [w EXCEPT !.exprs[x].behaviour = 1, !.exprs[x].held = TRUE]} : x \in Executables(w)}

\* Two modules change places.
Exchanges(w) ==
  {[w EXCEPT !.exprs[x].module = w.exprs[y].module, !.exprs[x].at = w.exprs[y].at,
             !.exprs[y].module = w.exprs[x].module, !.exprs[y].at = w.exprs[x].at] :
     x \in Executables(w), y \in Executables(w)}

MCEdits ==
  [w \in MCWorkflows |->
    {w, [w EXCEPT !.schema = 1]} \cup Redirections(w) \cup Changes(w) \cup Exchanges(w)]

Unedited == [w \in MCWorkflows |-> {w}]
=============================================================================
