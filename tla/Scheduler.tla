----------------------------- MODULE Scheduler -----------------------------
(***************************************************************************)
(* How runs are started and driven to their end: WorkflowClient.start with *)
(* an idempotency key (userplane.py), WorkflowScheduler.submit and advance *)
(* (runtime.py), and WorkflowCoordinator.run_once (coordination.py), with  *)
(* any number of replicas.                                                 *)
(*                                                                         *)
(* A pass loads the history of a run once and then makes its store calls,  *)
(* each a transaction of its own: other replicas, workers and commands act *)
(* between them.  PlanEval computes the calls from the snapshot.  An error *)
(* of the store leaves the pass, and for a coordinator also the rest of    *)
(* the runs it has listed.                                                 *)
(*                                                                         *)
(* Tasks are executed by workers, which TaskStore models in detail; here a *)
(* READY task is claimed and ends with an output or a failure.             *)
(***************************************************************************)
EXTENDS PlanEval

CONSTANTS
  Runs,          \* runs in the order of their creation: 1 .. n
  Scenarios,     \* the plans of the runs that are explored; Null for no run
  Catalog,       \* the definitions in the coordinators' catalogs
  Coordinators,
  Clients,       \* callers of start
  Limit,         \* limit of run_once
  StartBound,    \* bound on the calls of start
  FaultBound,    \* bound on the commands (but resume) and crashes
  Null           \* a column without a value

ASSUME SchedulerAssumption ==
  /\ IsFiniteSet(Runs) /\ Runs = 1 .. Cardinality(Runs)
  /\ Limit \in Nat \ {0}
  /\ {StartBound, FaultBound} \subseteq Nat

\* Runs are started with admitted plans.
ASSUME ScenarioAssumption ==
  \A s \in Scenarios :
    DOMAIN s = Runs /\ \A r \in Runs : s[r] # Null => IsPlan(s[r])

VARIABLES
  plan,       \* the definition of each run
  root,       \* its root input
  runStatus,  \* "ABSENT" or the status column
  output,     \* root_output
  tasks,      \* the tasks of each run by identity
  decided,    \* the BRANCH_DECISION and MAP_DECISION events of each run
  job,        \* what each process is doing: the run and the calls to come
  queue,      \* the runs a coordinator has listed and not yet reached
  starts, faults

runVars == <<runStatus, output, tasks, decided>>

procVars == <<job, queue>>

vars == <<plan, root, runVars, procVars, starts, faults>>

Procs == Coordinators \cup Clients

Idle == [run |-> 0, calls |-> <<>>]

NoTasks == [id \in {} |-> Idle]

ActiveRun == {"RUNNING", "PAUSED"}

Unfinished == {"BLOCKED", "READY", "RUNNING"}

Init ==
  /\ plan \in Scenarios
  /\ root \in [{r \in Runs : plan[r] # Null} -> Values]
  /\ runStatus = [r \in Runs |-> "ABSENT"]
  /\ output = [r \in Runs |-> Null]
  /\ tasks = [r \in Runs |-> NoTasks]
  /\ decided = [r \in Runs |-> {}]
  /\ job = [p \in Procs |-> Idle]
  /\ queue = [c \in Coordinators |-> <<>>]
  /\ starts = 0
  /\ faults = 0

-----------------------------------------------------------------------------
(***************************************************************************)
(* The store, as far as passes meet it.                                    *)
(***************************************************************************)

PutTask(r, id, task) == tasks' = [tasks EXCEPT ![r] = Put(@, id, task)]

SetStatus(r, id, status) == tasks' = [tasks EXCEPT ![r][id].status = status]

NewTask(status, record) == [status |-> status, record |-> record, output |-> Null]

\* The call under way of a process, and the run it is about.
Doing(p, op) == job[p].calls # <<>> /\ Head(job[p].calls).op = op

\* The call has returned.  A pass that has made its last call returns.
Continue(p) ==
  LET rest == Tail(job[p].calls) IN
  /\ job' = [job EXCEPT ![p] = IF rest = <<>> THEN Idle ELSE [@ EXCEPT !.calls = rest]]
  /\ UNCHANGED queue

\* The call has raised: the pass ends, a coordinator leaves run_once, and start
\* raises.
Abort(p) ==
  /\ job' = [job EXCEPT ![p] = Idle]
  /\ queue' = [c \in Coordinators |-> IF c = p THEN <<>> ELSE queue[c]]

\* enqueue_task: the run must be RUNNING; a task that exists is left alone, but
\* not with another input.
EnqueueTask(p) ==
  LET r == job[p].run
      call == Head(job[p].calls)
      clash == /\ call.id \in DOMAIN tasks[r]
               /\ call.op = "enqueue"
               /\ tasks[r][call.id].record # Null
               /\ tasks[r][call.id].record.input # call.record.input
  IN
  /\ Doing(p, "enqueue") \/ Doing(p, "precreate")
  /\ IF runStatus[r] # "RUNNING" \/ clash
     THEN Abort(p) /\ UNCHANGED tasks
     ELSE /\ Continue(p)
          /\ IF call.id \in DOMAIN tasks[r] THEN UNCHANGED tasks
             ELSE PutTask(r, call.id, IF call.op = "enqueue" THEN NewTask("READY", call.record)
                                      ELSE NewTask("BLOCKED", Null))
  /\ UNCHANGED <<plan, root, runStatus, output, decided, starts, faults>>

\* ready_task: from BLOCKED while the run is RUNNING; a task that is READY
\* already must have been released with the same record.
ReadyTask(p) ==
  LET r == job[p].run
      call == Head(job[p].calls)
      task == tasks[r][call.id]
  IN
  /\ Doing(p, "ready")
  /\ CASE task.status = "BLOCKED" /\ runStatus[r] = "RUNNING" ->
            Continue(p) /\ PutTask(r, call.id, NewTask("READY", call.record))
       [] task.status = "READY" /\ task.record = call.record -> Continue(p) /\ UNCHANGED tasks
       [] OTHER -> Abort(p) /\ UNCHANGED tasks
  /\ UNCHANGED <<plan, root, runStatus, output, decided, starts, faults>>

\* append_event with a decision; the status of the run is not read.
AppendDecision(p) ==
  LET call == Head(job[p].calls) IN
  /\ Doing(p, "decide")
  /\ decided' = [decided EXCEPT ![job[p].run] = @ \cup {<<call.node, call.decision>>}]
  /\ Continue(p)
  /\ UNCHANGED <<plan, root, runStatus, output, tasks, starts, faults>>

\* complete_run: the count, and in a later step the update.
CountTasks(p) ==
  LET r == job[p].run
      call == Head(job[p].calls)
  IN
  /\ Doing(p, "count")
  /\ IF \A id \in DOMAIN tasks[r] : tasks[r][id].status = "SUCCEEDED"
     THEN /\ job' = [job EXCEPT ![p].calls = <<[op |-> "complete", output |-> call.output]>>]
          /\ UNCHANGED queue
     ELSE Abort(p)
  /\ UNCHANGED <<plan, root, runVars, starts, faults>>

CompleteRun(p) ==
  LET r == job[p].run IN
  /\ Doing(p, "complete")
  /\ IF runStatus[r] = "RUNNING"
     THEN /\ runStatus' = [runStatus EXCEPT ![r] = "SUCCEEDED"]
          /\ output' = [output EXCEPT ![r] = Head(job[p].calls).output]
          /\ Continue(p)
     ELSE UNCHANGED <<runStatus, output>> /\ Abort(p)
  /\ UNCHANGED <<plan, root, tasks, decided, starts, faults>>

\* fail_run changes a RUNNING run only (and appends RUN_FAILED in any case);
\* advance then raises the error of the pass.
FailRun(p) ==
  LET r == job[p].run IN
  /\ Doing(p, "fail")
  /\ runStatus' = [runStatus EXCEPT ![r] = IF @ = "RUNNING" THEN "FAILED" ELSE @]
  /\ Abort(p)
  /\ UNCHANGED <<plan, root, output, tasks, decided, starts, faults>>

-----------------------------------------------------------------------------
(***************************************************************************)
(* The processes.                                                          *)
(***************************************************************************)

\* create_run inserts the run, or finds the one with this key and content.
CreateRun(r) == runStatus' = [runStatus EXCEPT ![r] = IF @ = "ABSENT" THEN "RUNNING" ELSE @]

\* submit creates the static tasks, whether or not the run is new; start then
\* makes a first pass.
SubmitCalls(r) ==
  LET static == StaticTasks(plan[r])
  IN  Append([i \in DOMAIN static |-> [op |-> "precreate", id |-> static[i]]],
             [op |-> "advance"])

\* A client calls start, for the first time or again.
Start(k, r) ==
  /\ job[k] = Idle
  /\ starts < StartBound
  /\ plan[r] # Null
  /\ \A q \in 1 .. (r - 1) : runStatus[q] # "ABSENT"
  /\ CreateRun(r)
  /\ job' = [job EXCEPT ![k] = [run |-> r, calls |-> SubmitCalls(r)]]
  /\ starts' = starts + 1
  /\ UNCHANGED <<plan, root, output, tasks, decided, queue, faults>>

\* list_active_runs: the oldest Limit runs that are RUNNING.
ListActive(c) ==
  LET active == SelectSeq([r \in Runs |-> r], LAMBDA r : runStatus[r] = "RUNNING") IN
  /\ job[c] = Idle /\ queue[c] = <<>>
  /\ active # <<>>
  /\ queue' = [queue EXCEPT ![c] = SubSeq(active, 1, IF Len(active) < Limit THEN Len(active)
                                                     ELSE Limit)]
  /\ UNCHANGED <<plan, root, runVars, job, starts, faults>>

\* Mutant: an unavailable definition ends the pass over the runs.
ReachRun_StopAtUnknown(c) ==
  LET known == plan[Head(queue[c])] \in Catalog IN
  /\ job[c] = Idle /\ queue[c] # <<>>
  /\ queue' = [queue EXCEPT ![c] = IF known THEN Tail(@) ELSE <<>>]
  /\ job' = IF known THEN [job EXCEPT ![c] = [run |-> Head(queue[c]), calls |-> <<[op |-> "advance"]>>]]
            ELSE job
  /\ UNCHANGED <<plan, root, runVars, starts, faults>>

\* run_once reaches the next run: WorkflowCatalog.resolve, then resume.
ReachRun(c) ==
  /\ job[c] = Idle /\ queue[c] # <<>>
  /\ queue' = [queue EXCEPT ![c] = Tail(@)]
  /\ job' = IF plan[Head(queue[c])] \notin Catalog THEN job
            ELSE [job EXCEPT ![c] = [run |-> Head(queue[c]), calls |-> <<[op |-> "advance"]>>]]
  /\ UNCHANGED <<plan, root, runVars, starts, faults>>

Snapshot(r) ==
  [root |-> root[r], tasks |-> tasks[r], decided |-> {d[1] : d \in decided[r]}]

\* advance: load the history, return if the run is not RUNNING, else walk.
Advance(p) ==
  LET r == job[p].run
      calls == IF runStatus[r] = "RUNNING" THEN PassCalls(plan[r], Snapshot(r)) ELSE <<>>
  IN
  /\ Doing(p, "advance")
  /\ job' = [job EXCEPT ![p] = IF calls = <<>> THEN Idle ELSE [@ EXCEPT !.calls = calls]]
  /\ UNCHANGED <<plan, root, runVars, queue, starts, faults>>

Fault == faults < FaultBound /\ faults' = faults + 1

\* A process stops, and starts afresh later.
Crash(p) ==
  /\ Fault
  /\ job[p] # Idle
  /\ job' = [job EXCEPT ![p] = Idle]
  /\ queue' = [c \in Coordinators |-> IF c = p THEN <<>> ELSE queue[c]]
  /\ UNCHANGED <<plan, root, runVars, starts>>

StoreCall(p) ==
  \/ EnqueueTask(p) \/ ReadyTask(p) \/ AppendDecision(p)
  \/ CountTasks(p) \/ CompleteRun(p) \/ FailRun(p)

ProcStep(p) == Advance(p) \/ StoreCall(p)

CoordinatorStep(c) == ListActive(c) \/ ReachRun(c) \/ ProcStep(c)

-----------------------------------------------------------------------------
(***************************************************************************)
(* Workers and commands, as TaskStore has them.                            *)
(***************************************************************************)

ClaimTask(r, id) ==
  /\ runStatus[r] = "RUNNING"
  /\ tasks[r][id].status = "READY"
  /\ SetStatus(r, id, "RUNNING")
  /\ UNCHANGED <<plan, root, runStatus, output, decided, procVars, starts, faults>>

CompleteTask(r, id, v) ==
  /\ runStatus[r] \in ActiveRun
  /\ tasks[r][id].status = "RUNNING"
  /\ tasks' = [tasks EXCEPT ![r][id].status = "SUCCEEDED", ![r][id].output = v]
  /\ UNCHANGED <<plan, root, runStatus, output, decided, procVars, starts, faults>>

FailTask(r, id) ==
  /\ tasks[r][id].status = "RUNNING"
  /\ SetStatus(r, id, "FAILED")
  /\ UNCHANGED <<plan, root, runStatus, output, decided, procVars, starts, faults>>

WorkerStep(r, id) ==
  \/ ClaimTask(r, id)
  \/ \E v \in Values : CompleteTask(r, id, v)
  \/ FailTask(r, id)

PauseRun(r) ==
  /\ Fault
  /\ runStatus[r] = "RUNNING"
  /\ runStatus' = [runStatus EXCEPT ![r] = "PAUSED"]
  /\ UNCHANGED <<plan, root, output, tasks, decided, procVars, starts>>

ResumeRun(r) ==
  /\ runStatus[r] = "PAUSED"
  /\ runStatus' = [runStatus EXCEPT ![r] = "RUNNING"]
  /\ UNCHANGED <<plan, root, output, tasks, decided, procVars, starts, faults>>

CancelRun(r) ==
  /\ Fault
  /\ runStatus[r] \in ActiveRun
  /\ runStatus' = [runStatus EXCEPT ![r] = "CANCELLED"]
  /\ tasks' = [tasks EXCEPT ![r] = [id \in DOMAIN @ |->
                 IF @[id].status \in Unfinished THEN [@[id] EXCEPT !.status = "CANCELLED"]
                 ELSE @[id]]]
  /\ UNCHANGED <<plan, root, output, decided, procVars, starts>>

RetryTask(r, id) ==
  /\ Fault
  /\ runStatus[r] \in ActiveRun
  /\ tasks[r][id].status = "FAILED"
  /\ SetStatus(r, id, "READY")
  /\ UNCHANGED <<plan, root, runStatus, output, decided, procVars, starts>>

CommandStep ==
  \E r \in Runs :
    PauseRun(r) \/ ResumeRun(r) \/ CancelRun(r) \/ \E id \in DOMAIN tasks[r] : RetryTask(r, id)

Next ==
  \/ \E k \in Clients, r \in Runs : Start(k, r)
  \/ \E k \in Clients : ProcStep(k)
  \/ \E c \in Coordinators : CoordinatorStep(c)
  \/ \E p \in Procs : Crash(p)
  \/ \E r \in Runs : \E id \in DOMAIN tasks[r] : WorkerStep(r, id)
  \/ CommandStep

\* Coordinators keep running, and workers take every task that is READY and
\* end it.  Nothing obliges a client to finish its call or to send a command.
\* The second conjunct is WF_vars(Advance(c)), which is enabled exactly while
\* the history is to be loaded.
Fairness ==
  /\ \A c \in Coordinators : WF_vars(ListActive(c) \/ ReachRun(c) \/ StoreCall(c))
  /\ \A c \in Coordinators : Doing(c, "advance") ~> ~Doing(c, "advance")
  /\ WF_vars(\E r \in Runs : \E id \in DOMAIN tasks[r] : WorkerStep(r, id))

Spec == Init /\ [][Next]_vars /\ Fairness

-----------------------------------------------------------------------------
(***************************************************************************)
(* Properties.                                                             *)
(***************************************************************************)

\* The tasks of an occurrence: one for a module, one per item for a map.
TasksOf(r, n) == {id \in DOMAIN tasks[r] : id[1] = n}

ItemOf(id) == Last(id[2])[2]

\* A module occurrence has one task, and a map one per item, however many
\* passes and replicas name it: _precreate_static_tasks and every evaluation
\* reach a node under the same scope.
OneTaskPerOccurrence ==
  \A r \in Runs : plan[r] # Null /\ WellScoped(plan[r]) =>
    \A n \in Nodes(plan[r]) : \A i, j \in TasksOf(r, n) :
      i = j \/ (plan[r].steps[n].kind = "map_module" /\ ItemOf(i) # ItemOf(j))

Accepted(r) ==
  [id \in {i \in DOMAIN tasks[r] : tasks[r][i].status = "SUCCEEDED"} |-> tasks[r][id].output]

Meaning(r, n) == Denote(plan[r], Accepted(r), root[r], n)

Needed(r) == Demanded(plan[r], Accepted(r), root[r], plan[r].output)

\* A task is released only when the plan needs its node and everything the node
\* depends on is accepted, and with the input that the accepted results give:
\* a stale snapshot of another replica never releases a task of a branch that
\* was not selected, or with an older input.
ReleasedAsDenoted ==
  \A r \in Runs : plan[r] # Null /\ WellScoped(plan[r]) =>
    \A id \in DOMAIN tasks[r] : tasks[r][id].record # Null =>
      LET step == plan[r].steps[id[1]]
          Meanings(nodes) == [i \in DOMAIN nodes |-> Meaning(r, nodes[i])]
      IN  /\ id[1] \in Needed(r)
          /\ AllResolved(Meanings(step.deps))
          /\ tasks[r][id].record.input =
               IF step.kind = "module" THEN BoundValue(Meanings(step.data)) ELSE ItemOf(id)
          /\ step.kind = "map_module" =>
               ItemOf(id) \in ToSet(Items[Meaning(r, step.deps[1]).value])

\* A run succeeds with the value that its plan denotes, with every task accepted
\* and no task but those of the nodes the plan needed: complete_run counts the
\* tasks after the pass that found the value, and replicas may still be adding.
SucceededAsDenoted ==
  \A r \in Runs : runStatus[r] = "SUCCEEDED" /\ WellScoped(plan[r]) =>
    /\ Meaning(r, plan[r].output).ok
    /\ output[r] = Meaning(r, plan[r].output).value
    /\ \A id \in DOMAIN tasks[r] : tasks[r][id].status = "SUCCEEDED" /\ id[1] \in Needed(r)

\* A run that stays RUNNING ends: replicas that overtake each other, raise and
\* crash do not leave it without a task to run and without an end.
RunEnds ==
  \A r \in Runs :
    runStatus[r] = "RUNNING" /\ plan[r] \in Catalog ~> runStatus[r] # "RUNNING"
=============================================================================
