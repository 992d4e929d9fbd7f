---------------------------- MODULE GeneratedRun ----------------------------
(***************************************************************************)
(* A run whose plan is generated: WorkflowRunner.run_generated (runtime.py)*)
(* with adopt_run_definition (persistence.py), PlanMaterializer and        *)
(* DynamicPlanScheduler (materialization.py) and the guardrail's proof of  *)
(* execution (guardrail.py).                                               *)
(*                                                                         *)
(* The driver is the process in run_generated.  Peers are other hosts that *)
(* serve the same run with the public parts: they repeat materialize once  *)
(* the definition is adopted, make scheduling passes, and claim children   *)
(* with a worker of their own.  Every store call is a transaction; anything*)
(* may happen between two of them.  The handler of attempt a of a child k  *)
(* returns <<k, a>>, so that a value tells where it comes from; the input  *)
(* of the region is <<RegionInput, 0>>.                                    *)
(***************************************************************************)
EXTENDS PlanValidator

CONSTANTS
  Driver,       \* the process in run_generated
  Peers,        \* the other processes
  Fragments,    \* what the planner may return
  MaxAttempts,  \* max_attempts of the workers
  FaultBound,   \* bound on the commands (but resume) and crashes
  Null

Procs == {Driver} \cup Peers

\* Null is no value of the others.
ASSUME GeneratedRunAssumption ==
  /\ MaxAttempts \in Nat \ {0} /\ FaultBound \in Nat
  /\ Driver \notin Peers
  /\ Null \notin Fragments \cup Procs \cup Seq(Nat) \cup Seq(Seq(Nat))

VARIABLES
  run,       \* the columns status, definition and root_output
  planner,   \* the planner's task
  children,  \* the generated tasks by key; empty before materialization
  log,       \* the events of the run about its plan, in order
  pc,        \* where each process is
  view,      \* the children as each process has loaded them, while it needs them
  todo,      \* the children each pass has still to make ready
  target,    \* the child the driver executes
  tries,     \* rounds the driver has left for the planner
  faults

storeVars == <<run, planner, children, log>>

procVars == <<pc, view, todo, target, tries>>

vars == <<storeVars, procVars, faults>>

NoChildren == [k \in {} |-> Null]

ActiveRun == {"RUNNING", "PAUSED"}

Unfinished == {"BLOCKED", "READY", "RUNNING"}

Init ==
  /\ run = [status |-> "ABSENT", definition |-> "bootstrap", output |-> Null]
  /\ planner = [status |-> "ABSENT", attempt |-> 0, output |-> Null]
  /\ children = NoChildren
  /\ log = <<>>
  /\ pc = [p \in Procs |-> IF p = Driver THEN "create" ELSE "idle"]
  /\ view = [p \in Procs |-> NoChildren]
  /\ todo = [p \in Procs |-> <<>>]
  /\ target = Null
  /\ tries = MaxAttempts
  /\ faults = 0

Goto(p, label) == pc' = [pc EXCEPT ![p] = label]

\* An exception: the driver goes to its except block, a peer gives the call up.
Raise(p) == Goto(p, IF p = Driver THEN "failing" ELSE "idle")

Record(event) == log' = Append(log, event)

Logged(event) == event \in ToSet(log)

-----------------------------------------------------------------------------
(***************************************************************************)
(* run_generated up to the approval.                                       *)
(***************************************************************************)

CreateRun ==
  /\ pc[Driver] = "create"
  /\ run' = [run EXCEPT !.status = "RUNNING"]
  /\ Goto(Driver, "enqueue")
  /\ UNCHANGED <<planner, children, log, view, todo, target, tries, faults>>

\* enqueue_task of the planner, outside the try.
EnqueuePlanner ==
  /\ pc[Driver] = "enqueue"
  /\ IF run.status = "RUNNING"
     THEN planner' = [planner EXCEPT !.status = "READY"] /\ Goto(Driver, "planner")
     ELSE planner' = planner /\ Goto(Driver, "raised")
  /\ UNCHANGED <<run, children, log, view, todo, target, tries, faults>>

\* The planner's worker claims it, or does not accept the request.
ClaimPlanner ==
  /\ pc[Driver] = "planner"
  /\ IF run.status = "RUNNING" /\ planner.status = "READY"
     THEN /\ planner' = [planner EXCEPT !.status = "RUNNING", !.attempt = @ + 1]
          /\ Goto(Driver, "planning")
     ELSE planner' = planner /\ Goto(Driver, "failing")
  /\ UNCHANGED <<run, children, log, view, todo, target, tries, faults>>

\* The planner returns a fragment, and its boundary is accepted.
PlannerReturns(f) ==
  /\ pc[Driver] = "planning"
  /\ run.status \in ActiveRun /\ planner.status = "RUNNING"
  /\ planner' = [planner EXCEPT !.status = "SUCCEEDED", !.output = f]
  /\ Goto(Driver, "validate")
  /\ UNCHANGED <<run, children, log, view, todo, target, tries, faults>>

\* The planner raises, or its result is refused because the run has ended.  The
\* driver asks again until the task has FAILED or its rounds are used up.
PlannerRaises ==
  /\ pc[Driver] = "planning"
  /\ IF planner.status = "RUNNING"
     THEN \E s \in {"FAILED"} \cup (IF planner.attempt < MaxAttempts THEN {"READY"} ELSE {}) :
            planner' = [planner EXCEPT !.status = s]
     ELSE planner' = planner
  /\ tries' = tries - 1
  /\ Goto(Driver, IF planner'.status = "FAILED" \/ tries' = 0 THEN "failing" ELSE "planner")
  /\ UNCHANGED <<run, children, log, view, todo, target, faults>>

Planned == planner.output

Approved == Validate(Planned, Limits.budget, {}) = "valid" /\ PolicyIssues(Signature(Planned)) = {}

\* The accepted fragment is loaded, validated and judged.  append_event does
\* not look at the status of the run.
Judge ==
  /\ pc[Driver] = "validate"
  /\ IF Validate(Planned, Limits.budget, {}) # "valid" THEN log' = log
     ELSE Record(IF Approved THEN "PLAN_APPROVED" ELSE "PLAN_REJECTED")
  /\ Goto(Driver, IF Approved THEN "adopt" ELSE "failing")
  /\ UNCHANGED <<run, planner, children, view, todo, target, tries, faults>>

\* adopt_run_definition.
AdoptDefinition ==
  /\ pc[Driver] = "adopt"
  /\ IF run.status = "RUNNING" /\ planner.status = "SUCCEEDED"
     THEN /\ run' = [run EXCEPT !.definition = "generated"]
          /\ Record("RUN_DEFINITION_ADOPTED")
          /\ Goto(Driver, "materialize")
     ELSE UNCHANGED <<run, log>> /\ Goto(Driver, "failing")
  /\ UNCHANGED <<planner, children, view, todo, target, tries, faults>>

-----------------------------------------------------------------------------
(***************************************************************************)
(* PlanMaterializer.                                                       *)
(***************************************************************************)

\* _resolve_modules: _verify_descriptor refuses a module of one input whose
\* declared type is not the schema of that input.
Resolvable(nodes) ==
  \A k \in DOMAIN nodes :
    Len(nodes[k].entry.inputs) = 1 => nodes[k].entry.type = nodes[k].entry.inputs[1]

\* The value of a binding: the one dependency's, or the tuple of all.
Bound(values) == IF Len(values) = 1 THEN values[1] ELSE values

RegionValue == <<RegionInput, 0>>

\* Mutant: every child may be claimed at once.
Child_AllReady(node) ==
  [status |-> "READY", module |-> node.entry.module, deps |-> node.deps,
   grant |-> node.entry.grant, input |-> IF node.deps = <<RegionInput>> THEN RegionValue ELSE Null,
   output |-> Null, attempt |-> 0, owner |-> Null]

\* A generated task, READY if its only dependency is the region input.
Child(node) ==
  LET first == node.deps = <<RegionInput>> IN
  [status |-> IF first THEN "READY" ELSE "BLOCKED",
   module |-> node.entry.module, deps |-> node.deps, grant |-> node.entry.grant,
   input |-> IF first THEN RegionValue ELSE Null,
   output |-> Null, attempt |-> 0, owner |-> Null]

\* materialize loads the history: the plan is there already, or is resolved to
\* be inserted.  A peer repeats the call for a definition that was adopted.
BeginMaterialize(p) ==
  /\ \/ p = Driver /\ pc[p] = "materialize"
     \/ p \in Peers /\ pc[p] = "idle" /\ run.definition = "generated"
                    /\ ~Logged("PLAN_MATERIALIZED")
  /\ IF Logged("PLAN_MATERIALIZED") THEN Goto(p, IF p = Driver THEN "advance" ELSE "idle")
     ELSE IF Resolvable(Resolve(Planned)) THEN Goto(p, "insert")
     ELSE Raise(p)
  /\ UNCHANGED <<storeVars, view, todo, target, tries, faults>>

\* Mutant: the transaction does not look for an earlier materialization.
InsertChildren_Again(p) ==
  /\ pc[p] = "insert"
  /\ IF run.status # "RUNNING"
     THEN UNCHANGED <<children, log>> /\ Raise(p)
     ELSE /\ children' = [k \in Keys(Planned) |-> Child(Resolve(Planned)[k])]
          /\ Record("PLAN_MATERIALIZED")
          /\ Goto(p, IF p = Driver THEN "advance" ELSE "idle")
  /\ UNCHANGED <<run, planner, view, todo, target, tries, faults>>

\* _insert: all the children and the event in one transaction, while the run is
\* RUNNING and no other materialization of the region has been first.
InsertChildren(p) ==
  /\ pc[p] = "insert"
  /\ IF run.status # "RUNNING" \/ Logged("PLAN_MATERIALIZED")
     THEN UNCHANGED <<children, log>> /\ Raise(p)
     ELSE /\ children' = [k \in Keys(Planned) |-> Child(Resolve(Planned)[k])]
          /\ Record("PLAN_MATERIALIZED")
          /\ Goto(p, IF p = Driver THEN "advance" ELSE "idle")
  /\ UNCHANGED <<run, planner, view, todo, target, tries, faults>>

-----------------------------------------------------------------------------
(***************************************************************************)
(* DynamicPlanScheduler.advance.                                           *)
(***************************************************************************)

Available(tasks, d) == d = RegionInput \/ tasks[d].status = "SUCCEEDED"

ValueOf(tasks, d) == IF d = RegionInput THEN RegionValue ELSE tasks[d].output

\* Mutant: one accepted dependency is enough.
Releasable_Any(tasks) ==
  {k \in DOMAIN tasks : /\ tasks[k].status = "BLOCKED"
                        /\ \E d \in ToSet(tasks[k].deps) : Available(tasks, d)}

\* The blocked children whose dependencies have all been accepted.
Releasable(tasks) ==
  {k \in DOMAIN tasks : /\ tasks[k].status = "BLOCKED"
                        /\ \A d \in ToSet(tasks[k].deps) : Available(tasks, d)}

Ascending(S) == Reverse(Descending(S))

\* The first load of a pass.
BeginAdvance(p) ==
  /\ children # NoChildren
  /\ \/ p = Driver /\ pc[p] = "advance"
     \/ p \in Peers /\ pc[p] = "idle" /\ Releasable(children) # {}
  /\ todo' = [todo EXCEPT ![p] = Ascending(Releasable(children))]
  /\ view' = [view EXCEPT ![p] = IF todo'[p] = <<>> THEN NoChildren ELSE children]
  /\ Goto(p, "passing")
  /\ UNCHANGED <<storeVars, target, tries, faults>>

\* ready_task with the inputs of the snapshot.
ReadyTask(p) ==
  LET k == Head(todo[p])
      task == children[k]
      input == Bound([i \in DOMAIN task.deps |-> ValueOf(view[p], task.deps[i])])
  IN
  /\ pc[p] = "passing" /\ todo[p] # <<>>
  /\ CASE task.status = "BLOCKED" /\ run.status = "RUNNING" ->
            /\ children' = [children EXCEPT ![k].status = "READY", ![k].input = input]
            /\ todo' = [todo EXCEPT ![p] = Tail(@)] /\ pc' = pc
       [] task.status = "READY" /\ task.input = input ->
            children' = children /\ todo' = [todo EXCEPT ![p] = Tail(@)] /\ pc' = pc
       [] OTHER -> children' = children /\ todo' = [todo EXCEPT ![p] = <<>>] /\ Raise(p)
  /\ view' = [view EXCEPT ![p] = IF todo'[p] = <<>> THEN NoChildren ELSE @]
  /\ UNCHANGED <<run, planner, log, target, tries, faults>>

\* A peer's pass returns.
EndPeerPass(p) ==
  /\ p \in Peers /\ pc[p] = "passing" /\ todo[p] = <<>>
  /\ Goto(p, "idle")
  /\ UNCHANGED <<storeVars, view, todo, target, tries, faults>>

-----------------------------------------------------------------------------
(***************************************************************************)
(* The driver's loop over the children.                                    *)
(***************************************************************************)

Statuses(tasks) == {tasks[k].status : k \in DOMAIN tasks}

Complete(tasks) == \A o \in ToSet(Planned.outputs) : tasks[o].status = "SUCCEEDED"

\* The second load of the driver's pass, and what it decides from it.
Progress ==
  /\ pc[Driver] = "passing" /\ todo[Driver] = <<>>
  /\ view' = [view EXCEPT ![Driver] = IF Complete(children) THEN children ELSE NoChildren]
  /\ \/ /\ "FAILED" \in Statuses(children)
        /\ Goto(Driver, "failing") /\ target' = target
     \/ /\ "FAILED" \notin Statuses(children) /\ Complete(children)
        /\ Goto(Driver, "verify") /\ target' = target
     \/ /\ "FAILED" \notin Statuses(children) /\ ~Complete(children)
        /\ IF "READY" \in Statuses(children)
           THEN /\ \E k \in DOMAIN children : children[k].status = "READY" /\ target' = k
                /\ Goto(Driver, "execute")
           ELSE Goto(Driver, "failing") /\ target' = target
  /\ UNCHANGED <<storeVars, todo, tries, faults>>

\* A task that a worker may take: READY, or with a lease that has run out.
Claimable(k) ==
  /\ run.status = "RUNNING"
  /\ \/ children[k].status = "READY"
     \/ children[k].status = "RUNNING" /\ children[k].owner = Null

Claim(p, k) ==
  children' = [children EXCEPT ![k].status = "RUNNING", ![k].owner = p, ![k].attempt = @ + 1]

\* The driver's worker claims the child, or the request is not accepted.
Execute ==
  /\ pc[Driver] = "execute"
  /\ IF Claimable(target) THEN Claim(Driver, target) /\ Goto(Driver, "working")
     ELSE children' = children /\ Goto(Driver, "failing")
  /\ UNCHANGED <<run, planner, log, view, todo, target, tries, faults>>

\* A peer's worker claims a child.
PeerClaim(p, k) ==
  /\ \A j \in DOMAIN children : children[j].owner # p
  /\ Claimable(k)
  /\ Claim(p, k)
  /\ UNCHANGED <<run, planner, log, procVars, faults>>

Holds(p, k) == children[k].owner = p /\ children[k].status = "RUNNING"

\* The driver comes back from a child, whether it was accepted or it raised.
Back(p) ==
  IF p = Driver THEN Goto(p, "advance") /\ target' = Null ELSE UNCHANGED <<pc, target>>

\* The boundary of the attempt is accepted.
CompleteChild(p, k) ==
  /\ Holds(p, k) /\ run.status \in ActiveRun
  /\ children' = [children EXCEPT ![k].status = "SUCCEEDED", ![k].owner = Null,
                                  ![k].output = <<k, children[k].attempt>>]
  /\ Back(p)
  /\ UNCHANGED <<run, planner, log, view, todo, tries, faults>>

\* The handler raises: another attempt, or FAILED.
FailChild(p, k) ==
  /\ Holds(p, k)
  /\ \E s \in {"FAILED"} \cup (IF children[k].attempt < MaxAttempts THEN {"READY"} ELSE {}) :
       children' = [children EXCEPT ![k].status = s, ![k].owner = Null]
  /\ Back(p)
  /\ UNCHANGED <<run, planner, log, view, todo, tries, faults>>

\* The task was cancelled under the driver's attempt: complete and fail raise.
LoseChild ==
  /\ pc[Driver] = "working" /\ ~Holds(Driver, target)
  /\ Back(Driver)
  /\ UNCHANGED <<storeVars, view, todo, tries, faults>>

\* _task_mismatch.
Matches(task, node) ==
  /\ task.module = node.entry.module
  /\ task.deps = node.deps
  /\ task.grant = node.entry.grant
  /\ task.status = "SUCCEEDED"

\* verify_execution: the history against the signature that was approved.
Conforms(plan) ==
  LET nodes == ResolvedNodes(plan) IN
  /\ Logged("PLAN_MATERIALIZED")
  /\ DOMAIN children = DOMAIN nodes
  /\ \A k \in DOMAIN nodes : Matches(children[k], nodes[k])

\* The proof of execution is appended, or the divergence.
Verify ==
  /\ pc[Driver] = "verify"
  /\ Record(IF Conforms(Signature(Planned)) THEN "PLAN_EXECUTION_VERIFIED"
            ELSE "PLAN_EXECUTION_DIVERGED")
  /\ Goto(Driver, IF Conforms(Signature(Planned)) THEN "count" ELSE "failing")
  /\ UNCHANGED <<run, planner, children, view, todo, target, tries, faults>>

\* complete_run counts the tasks that have not succeeded ...
CountTasks ==
  /\ pc[Driver] = "count"
  /\ Goto(Driver, IF Statuses(children) \cup {planner.status} = {"SUCCEEDED"} THEN "complete"
                  ELSE "failing")
  /\ UNCHANGED <<storeVars, view, todo, target, tries, faults>>

\* Mutant: the output is that of the first task.
CompleteRun_FirstTask ==
  /\ pc[Driver] = "complete"
  /\ IF run.status = "RUNNING"
     THEN /\ run' = [run EXCEPT !.status = "SUCCEEDED",
                                !.output = view[Driver][Min(Keys(Planned))].output]
          /\ Goto(Driver, "returned")
     ELSE run' = run /\ Goto(Driver, "failing")
  /\ UNCHANGED <<planner, children, log, view, todo, target, tries, faults>>

\* ... and updates the run if it is still RUNNING, with the output of the pass.
CompleteRun ==
  /\ pc[Driver] = "complete"
  /\ IF run.status = "RUNNING"
     THEN /\ run' = [run EXCEPT !.status = "SUCCEEDED",
                                !.output = view[Driver][Planned.outputs[1]].output]
          /\ Goto(Driver, "returned")
     ELSE run' = run /\ Goto(Driver, "failing")
  /\ UNCHANGED <<planner, children, log, view, todo, target, tries, faults>>

\* Mutant: the except block re-raises and leaves the run alone.
FailRun_Silent ==
  /\ pc[Driver] = "failing"
  /\ Goto(Driver, "raised")
  /\ UNCHANGED <<storeVars, view, todo, target, tries, faults>>

\* The except block: fail_run changes a RUNNING run and appends its event.
FailRun ==
  /\ pc[Driver] = "failing"
  /\ run' = [run EXCEPT !.status = IF @ = "RUNNING" THEN "FAILED" ELSE @]
  /\ Record("RUN_FAILED")
  /\ Goto(Driver, "raised")
  /\ UNCHANGED <<planner, children, view, todo, target, tries, faults>>

-----------------------------------------------------------------------------
(***************************************************************************)
(* Commands and crashes.                                                   *)
(***************************************************************************)

Fault == faults < FaultBound /\ faults' = faults + 1

PauseRun ==
  /\ Fault /\ run.status = "RUNNING"
  /\ run' = [run EXCEPT !.status = "PAUSED"]
  /\ UNCHANGED <<planner, children, log, procVars>>

ResumeRun ==
  /\ run.status = "PAUSED"
  /\ run' = [run EXCEPT !.status = "RUNNING"]
  /\ UNCHANGED <<planner, children, log, procVars, faults>>

Cancelled(task) == IF task.status \in Unfinished THEN [task EXCEPT !.status = "CANCELLED"] ELSE task

CancelRun ==
  /\ Fault /\ run.status \in ActiveRun
  /\ run' = [run EXCEPT !.status = "CANCELLED"]
  /\ planner' = Cancelled(planner)
  /\ children' = [k \in DOMAIN children |-> Cancelled(children[k])]
  /\ UNCHANGED <<log, procVars>>

RetryTask(k) ==
  /\ Fault /\ run.status \in ActiveRun
  /\ children[k].status = "FAILED"
  /\ children' = [children EXCEPT ![k].status = "READY"]
  /\ UNCHANGED <<run, planner, log, procVars>>

\* A process stops for good and its leases run out.
Crash(p) ==
  /\ Fault
  /\ pc[p] \notin {"raised", "returned", "crashed"}
  /\ Goto(p, "crashed")
  /\ view' = [view EXCEPT ![p] = NoChildren] /\ todo' = [todo EXCEPT ![p] = <<>>]
  /\ target' = IF p = Driver THEN Null ELSE target
  /\ children' = [k \in DOMAIN children |->
                    IF children[k].owner = p THEN [children[k] EXCEPT !.owner = Null]
                    ELSE children[k]]
  /\ UNCHANGED <<run, planner, log, tries>>

DriverStep ==
  \/ CreateRun \/ EnqueuePlanner \/ ClaimPlanner \/ PlannerRaises
  \/ AdoptDefinition
  \/ BeginMaterialize(Driver) \/ InsertChildren(Driver)
  \/ BeginAdvance(Driver) \/ ReadyTask(Driver) \/ Progress
  \/ Execute \/ LoseChild
  \/ (\E k \in DOMAIN children : CompleteChild(Driver, k) \/ FailChild(Driver, k))
  \/ CountTasks \/ CompleteRun \/ FailRun

PeerStep(p) ==
  /\ pc[p] # "crashed"
  /\ \/ BeginMaterialize(p) \/ InsertChildren(p)
     \/ BeginAdvance(p) \/ ReadyTask(p) \/ EndPeerPass(p)
     \/ \E k \in DOMAIN children : PeerClaim(p, k) \/ CompleteChild(p, k) \/ FailChild(p, k)

Command ==
  \/ PauseRun \/ ResumeRun \/ CancelRun
  \/ \E k \in DOMAIN children : RetryTask(k)

Next ==
  \/ DriverStep \/ Judge \/ Verify
  \/ \E f \in Fragments : PlannerReturns(f)
  \/ \E p \in Peers : PeerStep(p)
  \/ Command
  \/ \E p \in Procs : Crash(p)

\* The driver's loop goes on, and handlers return or raise (where the planner
\* may return it may also raise, so its return needs no fairness of its own).
\* The last two conjuncts are WF_vars(Judge) and WF_vars(Verify), which are
\* enabled exactly at their labels.  Peers owe nothing.
Fairness ==
  /\ WF_vars(DriverStep)
  /\ pc[Driver] = "validate" ~> pc[Driver] # "validate"
  /\ pc[Driver] = "verify" ~> pc[Driver] # "verify"

Spec == Init /\ [][Next]_vars /\ Fairness

-----------------------------------------------------------------------------
(***************************************************************************)
(* Properties.                                                             *)
(***************************************************************************)

TypeOK ==
  /\ run.status \in {"ABSENT", "RUNNING", "PAUSED", "SUCCEEDED", "FAILED", "CANCELLED"}
  /\ run.definition \in {"bootstrap", "generated"}
  /\ planner.status \in {"ABSENT", "READY", "RUNNING", "SUCCEEDED", "FAILED", "CANCELLED"}
  /\ planner.attempt \in 0 .. MaxAttempts
  /\ planner.output # Null <=> planner.status = "SUCCEEDED"
  /\ \A k \in DOMAIN children :
       /\ children[k].status \in {"BLOCKED", "READY", "RUNNING", "SUCCEEDED", "FAILED", "CANCELLED"}
       /\ children[k].owner \in Procs \cup {Null}
       /\ children[k].status \notin {"BLOCKED", "CANCELLED"} => children[k].input # Null
       /\ children[k].output # Null <=> children[k].status = "SUCCEEDED"
  /\ tries \in 0 .. MaxAttempts /\ faults \in 0 .. FaultBound

\* validate accepts exactly the fragments that the declarative reading of its
\* contract admits: the worklist, Kahn's algorithm and the critical path agree
\* with paths, a bounded cost or time that no budget can hold is refused even where
\* the region has no limit, and no order of the checks lets a bad fragment through.
AdmittedAsSpecified ==
  pc[Driver] = "validate" =>
    \A limit \in {Limits.budget, NoLimit}, check \in {{}, {{}}, {Keys(Planned) \X RegionGrant}} :
      Validate(Planned, limit, check) = "valid" <=> Admissible(Planned, limit, UNION check)

\* The PlanIR of an accepted fragment lists each step after its dependencies,
\* and reading it back gives the nodes and outputs it was built from: the
\* signature kept in the log is the plan that was judged.
PlanRoundTrips ==
  pc[Driver] = "validate" /\ Validate(Planned, Limits.budget, {}) = "valid" =>
    LET plan == Signature(Planned)
        place(a) == CHOOSE i \in DOMAIN plan.steps : plan.steps[i].node = a
    IN  /\ ResolvedNodes(plan) = Resolve(Planned)
        /\ Outputs(plan) = Planned.outputs
        /\ \A i \in DOMAIN plan.steps : \A a \in ToSet(plan.steps[i].deps) \ {<<"input">>} :
             place(a) < i

Before(a, b) == \E i, j \in DOMAIN log : i < j /\ log[i] = a /\ log[j] = b

\* A child exists only in a run whose plan was approved and adopted first, and
\* then all nodes of the plan exist, each once and as approved, whoever
\* materialized them and however often.
ChildrenAsApproved ==
  children # NoChildren =>
    /\ Before("PLAN_APPROVED", "RUN_DEFINITION_ADOPTED")
    /\ Before("RUN_DEFINITION_ADOPTED", "PLAN_MATERIALIZED")
    /\ run.definition = "generated"
    /\ Cardinality({i \in DOMAIN log : log[i] = "PLAN_MATERIALIZED"}) = 1
    /\ DOMAIN children = Keys(Planned)
    /\ \A k \in Keys(Planned) : /\ children[k].module = EntryOf(Planned, k).module
                                /\ children[k].deps = DepsOf(Planned)[k]
                                /\ children[k].grant \subseteq RegionGrant

\* A child that has been released has the inputs that its dependencies' accepted
\* results give, also when a pass worked from an older snapshot.
ReleasedWithAccepted ==
  \A k \in DOMAIN children : children[k].input # Null =>
    /\ \A d \in ToSet(children[k].deps) : Available(children, d)
    /\ children[k].input =
         Bound([i \in DOMAIN children[k].deps |-> ValueOf(children, children[k].deps[i])])

\* A run that has succeeded carries its proof of execution and no refusal, all
\* its tasks are accepted, and its output is the accepted output of the plan.
SucceededVerified ==
  run.status = "SUCCEEDED" =>
    /\ Last(log) = "PLAN_EXECUTION_VERIFIED"
    /\ ~Logged("PLAN_REJECTED") /\ ~Logged("PLAN_EXECUTION_DIVERGED")
    /\ Statuses(children) = {"SUCCEEDED"}
    /\ run.output = children[Planned.outputs[1]].output

\* A run that the driver serves ends: whatever peers and commands do, it does
\* not stay RUNNING unless the driver has crashed.
GeneratedRunEnds ==
  run.status = "RUNNING" /\ pc[Driver] \notin {"raised", "crashed"}
    ~> run.status # "RUNNING" \/ pc[Driver] = "crashed"
=============================================================================
