# Verification of maida.workflows

TLA+ models of `maida.workflows`, the runs with which TLC checks them on small
instances, and theorems that TLAPS proves for every value of the constants.
Every definition that models code is listed in `PROJECT.json` under `map` with
the lines it stands for. Paths below are relative to `src/maida/workflows/`
unless they start with `src/`.

## The system

`maida.workflows` runs typed workflows durably. A workflow is compiled to a plan
(a graph of module, `when`, `parallel` and `map` steps). A run of the plan and
everything that happens to it are rows of a PostgreSQL database; schedulers,
workers, external backends and clients are processes that keep no state of their
own between transactions and may stop, stall, or be started twice.

| Part | State it keeps | Operations | Who calls it |
| --- | --- | --- | --- |
| Task store (`persistence.py`) | runs, tasks, attempts, leases, external reservations, checkpoints, accepted boundaries, received command ids | create, enqueue, ready, claim, start, heartbeat, checkpoint, start external, complete, fail, park, command, complete run, fail run | scheduler, workers, backends, clients |
| Effect operations (`access.py`, `persistence.py`) | one row per (task, effect, ordinal): RESERVED, ATTEMPTED, COMMITTED with request and result | look up, reserve, mark attempted, commit; the adapter's call in between | `AccessBroker` inside a module execution |
| Live budget (`budget.py`, `model.py`, `persistence.py`) | one row per charge: reservation, measured usage | reserve, commit; the provider's call in between | `ModelBroker`, `AccessBroker` |
| Event log and streams (`userplane.py`, `asgi.py`, `persistence.py`) | numbered events of a run; cursor of each reader | append, list, page, stream, reconnect | every transaction writes, clients read |
| Boundary harness, worker (`runtime.py`) | a claim, a heartbeat task | validate, execute the module, decide on retry, complete or fail | worker loop, backend handler |
| Scheduler, coordinator (`runtime.py`, `coordination.py`) | caches of one pass | evaluate the plan from accepted results, enqueue and release tasks, end the run | coordinator, runner, `start` |
| Materialization, guardrail (`materialization.py`, `guardrail.py`, `dynamic.py`) | approved plan of a generated run | validate, approve, insert all tasks in one transaction, verify | runner |
| Interactions (`interactions.py`) | requests and resolutions, as events | park, resolve, resume | modules, clients |
| External backends (`celery.py`) | none | deliver an `ExecutionRequest` any number of times | runner |
| Artifacts (`artifacts.py`) | files named by digest | put, get | value codec |
| Compiler, IR, registry, bundles, replay, fixtures | immutable definitions and recordings | compile, resolve, export, replay | authors, CI |

The parts meet in the database only. What makes the system hard:

- **Interleaving.** Any number of workers, deliveries, schedulers and clients act
  on the same run; each transaction locks some rows and reads others unlocked.
- **Stalls.** A worker may lose its lease while it runs a module and go on, with
  the provider's side effects already made. The fence of
  `_lock_boundary_execution` is all that stops it.
- **Duplicates.** A backend may deliver one `execution_id` twice, at once or
  late, and the fence cannot tell the two apart. A client may repeat a command.
- **Unfenced calls.** Adapters and model providers are called between two
  transactions, when nothing is locked.
- **Stale snapshots.** A scheduler pass loads the history of a run once and then
  makes several transactions, while replicas do the same.
- **Two evaluations of one plan.** The compiler, `_precreate_static_tasks`, the
  scheduler's walk and the stub walk of replay must name the same occurrences.
- **Unlocked reads.** `complete_run` counts tasks without a lock; event readers
  trust ids that were drawn before the commit.

The hazards, each at its line with the properties that guard it, are in
`PROJECT.json` under `hazards`; those without a property say why.

## Modules

| Module | Models | Built on |
| --- | --- | --- |
| `TaskStore` | the task store, one action per transaction | |
| `LogicalTask` | what the store promises, without attempts, leases and commands | |
| `Execution` | the executions of one task as far as they compete for it | |
| `EffectLedger` | one effect operation and `AccessBroker.effect` | `Execution` |
| `BudgetMeter` | the charges of one task, model and tool calls | `Execution` |
| `EventStream` | the event log of a run and a streaming client | |
| `Harness` | workers, deliveries, `_execute_boundary`, interactions | `TaskStore` |
| `PlanEval` | the scheduler's walk over a plan, as a function of its snapshot; what a plan denotes | |
| `Scheduler` | start, submit, advance, coordinators over several runs | `PlanEval` |
| `PlanValidator` | validation of a generated plan, policy, PlanIR and back; the reference | |
| `GeneratedRun` | `run_generated`, materialization, proof of execution | `PlanValidator` |
| `PlanCompiler` | compilation of a workflow, alignment of two plans | `PlanEval` |
| `SelectiveReplay` | the live loop of a replay, in any surroundings | `PlanEval` |
| `Replay` | recording, export, full-stub replay, and selective replay of what was recorded | `PlanCompiler`, `SelectiveReplay` |
| `HarnessProofs` | theorems about the store, and about those who call it | `Harness`, `SetLemmas` |
| `EffectLedgerProofs`, `BudgetMeterProofs`, `EventStreamProofs` | theorems | the module they prove about |
| `SchedulerProofs` | lemmas about the walk (scopes, and agreement with what a plan denotes); theorems about the runs that schedulers drive | `Scheduler`, `SetLemmas` |
| `SelectiveReplayProofs` | theorem about the live loop | `SelectiveReplay`, `SetLemmas` |
| `GeneratedRunProofs` | order of the steps and round trip of a generated plan; theorems about generated runs | `GeneratedRun`, `SetLemmas` |
| `SetLemmas` | least and greatest members of sets of numbers, sizes of unions | |
| `MC...` | the instances TLC checks: plans, fragments, workflows and edits, symmetry sets; the `.cfg` files give the other constants | |

### TaskStore

One run with tasks `Tasks`. `runStatus`, `taskStatus` and `attemptStatus` are the
status columns; `"ABSENT"` and `"NONE"` stand for rows that do not exist yet.
The lease token and the attempt id are drawn together by `claim_task`, so
`lease[t]` is the number of the attempt whose token the task holds; `leaseLive`
is the comparison of `lease_expires_at` with the database clock. `external[t]` is
the attempt whose `execution_id` is reserved for the task. `accepted[t]` is
`accepted_attempt_id` with the output of the accepted boundary.

The callers are not constrained. Whoever once held the claim of attempt `n` may
call any operation with it, arbitrarily late, so the guards of the actions are the
`WHERE` clauses and early returns of the transactions and nothing else. Where the
code looks at less than one expects the model does too: `start_task` ignores the
expiry, `heartbeat_task` and `fail_task` ignore the run, `checkpoint_task` ignores
the lease, `fail_run` leaves tasks alone. An operation that raises is rolled back
and is no step.

Each transaction is one step. The header of the module says why this is sound for
readers that do not lock the run's row; the one transaction for which it is not,
`complete_run`, is two actions. `complete_task` and `complete_external_execution`
are `CompleteBoundary` or, with open effect or budget rows, `RejectBoundary`; the
choice between them is left open here and is the subject of `EffectLedger` and
`BudgetMeter`. `EnqueueTask` also stands for the insertion of a generated plan by
`PlanMaterializer._insert`, which locks the run in the same way.

### LogicalTask

A task is absent, pending, accepted, failed or cancelled; it is accepted once,
with one output, while the run is active; a cancel ends all pending tasks with the
run. `StoreRefinesLogicalTask` maps the store's columns to this view.

### Execution, EffectLedger, BudgetMeter

`Execution` keeps what a broker's transaction can observe of the task: its
posture, whether it is open, who owns the lease, and whether the lease is live. In
the local posture each execution is an attempt; in the external one all executions
are deliveries of the same `execution_id`. The ledgers are built on it, and the executions
of every task of `Harness` are such executions (`HarnessImplementsExecution`), so that what
is shown of a ledger holds of the attempts that the store makes.

`EffectLedger` follows one execution through `AccessBroker.effect`, with `pc` between
its store calls: `Lookup`, `Reserve`, `MarkAttempted`, `CallAdapter`, `Commit`. The
adapter is external code. It may answer, or raise although its effect took place; if
it is declared idempotent it answers alike under one key. A module may catch the
broker's errors and return normally, so `Complete` is possible after a denial.
Budget charges and approval evidence, which lie between reservation and mark, may
deny the effect (`Deny`).

`BudgetMeter` has one budget dimension, since `_budget_exceeded_dimension` checks
them independently. `SumOf` adds up usage as a number of units. Keys are (attempt, kind, ordinal) as `_LiveBudgetMeter._key`
builds them, with one name per kind. `spent` is what providers really used,
whatever the ledger says; `overran` remembers a provider that used more than its
adapter estimated, which no ledger can prevent.

### EventStream

`AppendEvent` draws an id, `Commit` makes the event visible, `Rollback` leaves a gap.
The reader is `events()` batch by batch and `stream()` event by event, with the
code's limits as constants. `overtaken` remembers that an event became visible before
one with a smaller id: the properties that the cursor can only give while that has
not happened say so. The SSE route of `asgi.py`
has the loop of `stream()`, and adds `Reconnect` with `Last-Event-ID`.

### Harness

The transactions are those of `TaskStore`; `Harness` adds who calls them and what the
caller has read before. A worker claims, starts, executes and completes or fails
(`TaskWorker.run_once`, `_execute_boundary`), with the heartbeat loop beside it. A
delivery of the external posture reserves the `execution_id`, resumes it, or joins
what is under way, which is what `run_request` does with a redelivery. `log[t]` holds
the events about interactions; `Resolution` is the query of
`load_interaction_resolution`. `open` marks tasks with a reservation that never
commits, for which completion is rejected. Where the store raises, the execution ends:
the alternative with `UNCHANGED vars` is the negation of the store's guard.

### PlanEval and Scheduler

The answers to the store calls of a pass do not change its course, so `PlanEval`
computes the list of calls from the snapshot. `visit`, `_evaluate_node` and
`_evaluate_step` call themselves; here their calls under way are a stack of frames (a node,
its scope, the dependency that comes next), and `WalkStep` looks at one dependency of the
last frame, or returns from it. `w.cache` has results by node and not by scope, as in the code.
`Steps` is the number of steps that suffices for every dependency of every node. A task is
named by its node and scope, which is what `_stable_instance_id` digests.

`Scheduler` makes the calls one at a time. A call that raises ends the pass, for a
coordinator also the round. Commands, crashes and workers come in between; what happens to a
task between claim and end is `Harness` and `TaskStore`.

`Denote` and `Demanded` say what a plan means without walks, scopes and tasks; the
properties compare the store with them. `WellScoped` excludes the plans of which the
code does not keep its promise (see `scheduler_shared` below) and dependencies that only order a
step in plans with control nodes: authored workflows cannot write them, generated plans
have no control nodes.

### PlanValidator and GeneratedRun

`Validate` keeps the order of the checks and the algorithms: the reachability
worklist (`Visit`), Kahn's algorithm with its stack (`TakeReady`, iterated by the recursive
function `Rounds`), fan-out counts, the critical path of wall times (`PathTimes`). Loops are functions of
the number of rounds, which the number of nodes bounds; the worklist is the set of its new nodes, as taking
a node again changes nothing. `Admissible` is the reference: paths instead of algorithms. `Signature` is the
plan that is approved, `ResolvedNodes` and `Outputs` read it back.

A budget has three dimensions: `calls` stands for model tokens and tool calls, which are sums of Python's
unbounded integers, `cost` for dollars and `time` for wall time. `_aggregate_budget` adds costs as decimals, in the
order of the keys, and takes `float` of the sum. A cost here is the decimal that `str` writes for a float,
counted in a unit below its last digit; `DecimalOf` is the rounding of the decimal context, applied at every addition of
`CostSum`, and `Double` the rounding of `float`, a function that is defined on the sums with a finite float only. A sum
outside its domain, or a bounded time above `MaxTime` (the longest `timedelta`), is what
makes `Budget` or `timedelta` raise: `_resolved_metrics` turns that into `PLAN_BUDGET_INVALID`, with or without
a limit on the dimension, and before the grant and the limits are looked at (`InRange` in `Validate`). `Admissible` asks
for the range in the same words as for the limits, of the times of all paths instead of the computed path times; it has
`CostSum` in common with `Validate`, so of the cost the checks concern its range, its limit and what a node without
a bound does, and not the addition.

`GeneratedRun` has a driver in `run_generated` and peers, which are other hosts that
repeat `materialize`, make passes and claim children. The except block of the driver
is `FailRun`, reached from every call that raises. A handler's value is the child and
attempt it comes from.

### PlanCompiler, Replay and SelectiveReplay

A workflow is the list of values that `build()` made, with sharing. `Compile` gives
each the path under which `_visit` meets it first; `Compiles` is the check of replay keys.
`Aligned` compares two plans on the recorded path. (`project_execution_path` narrows
the `when` steps it visits, and then returns the plan's own; the model does as the code.)

`Replay` records a run with one scheduler whose passes are atomic, exports it,
and replays it against any edit of the workflow. `Reconstructs` is the walk of
`_StubGraphExecutor` over the current expressions. `SelectiveReplay` is the loop that
comes after it, for any fixture and any current workflow: all it asks of the workflow is which
keys are held, and that is looked up before the loop (`HeldKeys`). Its `Prepare` and `Begin` stand
for the steps of `Replay` outside the loop. The loop executes the chosen
boundaries with a handler that may do anything: return, raise, return another type, try
an effect and let the denial escape or swallow it. One dimension of cost stands for the
replay budget, and recorded executions cost nothing.

## Runs

| Run | Expect | Properties | What it shows |
| --- | --- | --- | --- |
| `store_one` | pass | TypeOK, LeaseExclusive, AcceptedEvidence, AcceptedBoundaryFinal, CommandAppliedOnce, CheckpointByLeaseHolder | One task: no order of claims, takeovers, late calls, redeliveries, parking, retries and commands brings task row and attempt rows out of step, replaces an accepted boundary, applies a command twice, or lets a superseded attempt write a checkpoint |
| `store_two` | pass | CancelledRunIsQuiet, TerminalRunIsFinal, StoreRefinesLogicalTask | Two tasks: cancel and the end of a run against everything else; the store implements `LogicalTask` |
| `effect` | pass | TypeOK, LocalCalledOnce, OneRequestPerOperation, AcceptedEffectSettled, ReturnedIsCommitted | Three attempts under leases call a non-idempotent adapter at most once; in both postures one request, one committed result, no acceptance with an unknown outcome |
| `budget` | pass | TypeOK, LocalSpendWithinBudget, LocalUsageComplete | Under leases real spending stays within the budget, over attempts that lose their lease anywhere, and the accepted usage covers it |
| `stream` | pass | TypeOK, DeliveredOnce, OrderedNothingSkipped, EventDelivered, StreamEnds | Any commit order: id order, no duplicates over reconnections, the stream ends; while commits follow the ids no event is lost and each is delivered |
| `harness` | pass | HarnessTypeOK, AcceptedWasAnswered, LocalAskedOnce, TaskSettles | Crashes, stalls, exceptions, answers and commands: no interaction is accepted unanswered, under leases a person is asked once, and no task stays READY or claimed for ever |
| `scheduler` | pass | OneTaskPerOccurrence, ReleasedAsDenoted, SucceededAsDenoted, RunEnds | A coordinator and a client that repeats `start` race over four scenarios with commands and a crash: one task per occurrence, released with the input the plan denotes, and every run ends, with the right value |
| `generated` | pass | TypeOK, AdmittedAsSpecified, PlanRoundTrips, ChildrenAsApproved, ReleasedWithAccepted, SucceededVerified, GeneratedRunEnds | About two thousand fragments: exactly the admissible ones are accepted, under the region's budget and under none; nothing runs that was not approved and adopted; a peer in the same run, a command or a crash breaks neither the children nor the end |
| `replay` | pass | SoundReplay, CompleteReplay, PassedAsCompared | Six workflows, every single edit of each: what replay does not refuse computes what was recorded, what it need not refuse passes, and a selective pass is one in which every chosen execution agreed and none tried an effect |
| `stream_end` | violation | EndIsStreamed | The run ends between the last page and the snapshot |
| `scheduler_shared` | violation | RunEnds | A module that a branch of a `when` shares with its surroundings: the run never ends |
| `replay_recorded` | violation | RecordedRunReplays | A module after a `when`: the recorded run is refused against its own definition |

Every property of a passing run has a mutant in `PROJECT.json`: a variant of one
modelled definition, as a plausible mistake in the code would make it, under which
TLC finds the property violated.

### What the violations mean

- `stream_end`: what a client misses it finds with another read from an older cursor;
  the stream itself does not return to it.
- `scheduler_shared`: `_precreate_static_tasks` does not enter the branches of a `when`,
  so it names the shared module by the scope outside; evaluation reaches it in the branch
  first and caches the result by node. The task made for the outside scope stays BLOCKED
  and `complete_run` refuses the run in every pass.
- `replay_recorded`: `_validate_contracts` wants dependencies listed first, and
  boundaries are listed by creation. A module after a `when` or a `map` is created with the
  run, the tasks inside it later.

### Seen while modelling

Behaviour that a reader of the code may not expect. The models have it; the
properties are stated so as to say what still holds.

- Takeovers of expired leases are not counted against `max_attempts`, which is read only
  when a module raises (`persistence.py:692`, `runtime.py:789`).
- `complete_run` may miss a task inserted between its count and its update. Of
  well-scoped plans no such task exists when the value is known (`SucceededAsDenoted`).
- Two deliveries at once of one external execution may both call an adapter that is not
  idempotent, and share each budget reservation: the properties `Local...` are about
  leases.
- An event that commits after one with a larger id may never be read by a stream
  (`overtaken` in `EventStream`).
- The answer a resumed interaction reads is the latest one after the latest request; in
  the external posture a second request may come after an answer, which is then lost and
  asked for again.
- A `retry` command revives a task whose external reservation has failed; no delivery can
  start it (`Stranded`).
- Repeating `start` with its key after the run has ended raises `InvalidRunStateError` from
  `enqueue_task` when the plan has static tasks; the docstring (`userplane.py:531`) speaks
  of the same run being returned.
- A driver of a generated run fails the run when a peer holds the only open child, or
  was first to materialize (`runtime.py:2071`, `2101`; `materialization.py:214`).
- A module whose declared input is a 1-tuple is admitted by the validator and refused by
  the materializer, after the plan has been approved and adopted.
- Two schedulers may log a decision twice, after which the run cannot be exported
  (`runtime.py:1614`, `fixture.py:443`).
- The stub walk of replay raises `KeyError` for a value that both branches of a `when` use,
  when the second is taken (`replay.py:1216`): `Twin` in `MCReplay`.

### Bounds

- `store_one`: one task suffices for properties of single tasks, as tasks share the
  run's status and the command ids only. `AttemptBound` 3 is a zombie, its successor
  and a third; `MaxAttempts` 2 makes both answers of the retry rule happen. Three
  commands allow pause, resume and cancel, or resolve, retry and cancel, in one
  behaviour. Two outputs make a replaced result visible.
- `store_two`: two tasks are needed where the run's end meets tasks in different
  states. Two attempts of each, three commands and two outputs.
- `effect`: three executions, so that two may be late while a third succeeds; two
  requests and two results, to tell a conflict from an agreement.
- `budget`: three executions as well; a budget of 3 with an estimate of 2 for a model call
  and one for a tool call admits one of each, and refuses two model calls. Two charges per
  execution let ordinals of deliveries meet. `MaxUsage` 3 lets a provider exceed its
  estimate.
- `stream`: four events, pages of two and batches of at most three put page ends inside
  and at the end of batches and allow a batch of internal events only. The code's 32,
  4 and 1001 are scaled down, keeping a cap above the page size.
- `harness`: two workers, or two deliveries, let one be late while the other acts. Three
  faults and three commands allow a crash, a stall and an exception in one behaviour, with
  an answer, a retry and a cancel. `AttemptBound` 8 is above what those can use up, so that it
  never stands in the way of `TaskSettles`.
- `scheduler`: the scenarios are a parallel with a shared module, a `when` one branch of which
  goes on from its condition, a map with a module that it only orders, and a run behind
  one that the catalog does not know. A coordinator and a client with two starts are two
  schedulers of one run; one command or crash comes at any point. `Limit` 2 lists both runs.
- `generated`: all graphs of three modules of one or two inputs, cyclic and disconnected
  ones included, and all aliases with wrong arities and outputs on two nodes. Each limit (nodes, depth,
  fan-out, calls, cost, time) is met exactly by some fragment and is the only one that some other exceeds. Floats have two
  binary digits, so that the rounding decides at the limit of the cost. AdmittedAsSpecified asks the same without a limit
  on the budget, and then pairs of costly or slow nodes leave the range of a cost (13) or a time (6) by their sum only, and pairs
  with a node without a bound do not. One peer, one command or crash, two attempts.
- `replay`: workflows with sharing, structured inputs, a `when`, a map in a nested workflow,
  and one module at two logical steps, with up to four values; edits are single redirections of operands, changes
  of one module, and exchanges of two. Two selected steps.

Symmetry is used for model values that are interchangeable, and only in runs without
liveness. Deadlock is not checked: a finished run, task, replay or
stream stops, and so may a run whose workers stop. `Scheduler` and `Replay` have no type
invariant of their own: their properties read every variable through the plan's meaning.

### Fairness

Weak fairness, of what the code's loops do by themselves:

- `EventStream`: the reader's loop is a generator that its consumer drives. A
  transaction that is open commits or rolls back: PostgreSQL ends the transaction of a
  client that goes away. No event is assumed to be appended, and no run to end.
- `Harness`: a lease that nobody extends expires; workers poll, and a substrate delivers
  again what was not accepted; an execution that has begun goes on. Crashes, stalls and
  exceptions are bounded by `FaultBound` and owe nothing, nor does any command.
- `Scheduler`: coordinators repeat `run_once`, and workers take READY tasks and end them.
  Clients owe nothing: a call of `start` may stop after any transaction.
- `GeneratedRun`: the driver's loop goes on unless it crashes, and handlers return or raise.
  Peers owe nothing, even while they hold a child.

Three actions (`Advance` of `Scheduler`, `Judge` and `Verify` of `GeneratedRun`) have a
leads-to formula instead of `WF`: each is enabled exactly at its label, and leaves it, so the
two say the same, and TLC need not evaluate the action to know that it is enabled.

## Proofs

`tlapm` proves the following for all constants that satisfy the named assumptions
(`StoreAssumption`, `ExecutionAssumption`, `LedgerAssumption`, `MeterAssumption`,
`StreamAssumption`, `HarnessAssumption`, `PlanValidatorAssumption`, `GeneratedRunAssumption`, `ValueAssumption`,
`SchedulerAssumption`, `ScenarioAssumption`), which the runs evaluate. They give constants
their types and keep model values apart, say of limits and budgets that they are numbers from 0 or
no bound (`PlanLimits` and `Budget` refuse others) and that costs are finite floats (`Budget` refuses others), and of the plans of `Scheduler` that they were
admitted (`_validate_imported_plan`); no theorem has another hypothesis. Each inductive
invariant that TLC can evaluate was checked on the instance of its run before it was proved;
that of `Scheduler` speaks of all walks, and there the runs check what follows from it.

**TaskStore** (`HarnessProofs`, first part): TypeOK, LeaseExclusive, AcceptedEvidence and
CancelledRunIsQuiet as invariants; AcceptedBoundaryFinal, TerminalRunIsFinal,
CommandAppliedOnce and CheckpointByLeaseHolder as action properties; and
`Spec => Logical!LSpec`, step by step. They rest on `StoreInv`, which adds to the
properties what they leave out:

- `NumberingInv`: attempt rows exist exactly up to `lastAttempt`, so that a claim or
  a reservation never meets an old row under its new number;
- `RowsInv`: the properties above as one statement of each task's rows; without
  it LeaseExclusive is not inductive, because a completion under an external
  reservation must be known to find no lease and no accepted attempt;
- `CancelledWithRun`: a task is CANCELLED only in a CANCELLED run, which is why nothing
  revives one.

`TypeStep` and `RowsStep` prove the step for each action; `AcceptedByCompletion` says
that only `CompleteBoundary` accepts, from which finality and the refinement follow.

**EffectLedger** (`EffectLedgerProofs`): TypeOK, OneRequestPerOperation,
AcceptedEffectSettled, ReturnedIsCommitted and CommittedOperationFinal for both
postures, and LocalCalledOnce for the local one. The argument of the last is
`FirstCallInv` with `MarkedInv`: the lease holder that is about to mark the operation
finds it RESERVED, because whoever marked it before held the lease and does not
get it back; and while the operation is RESERVED nobody has called. In the external
posture the first half fails, and with it the property: two deliveries may both call.
CommittedOperationFinal is proved only; no run states it.

**BudgetMeter** (`BudgetMeterProofs`): TypeOK, LocalSpendWithinBudget and
LocalUsageComplete. A total is the number of units of usage, the cardinality of a set of
pairs (key, unit): adding or replacing one row then is a fact about disjoint unions
(`SumUpdate`), where a fold over the keys would need an induction. `MeterInv` relates what
was really used to the rows:

- `SpendInv`: what was used and what the charges under way may still use are together at
  most what the rows count for. This is why a reservation counts in full until it is
  committed, and why committing less than was reserved is safe: the difference is no
  longer pending;
- `ChargeInv`: an execution draws fresh keys, and the row of the charge under way is its
  own and RESERVED, so that no other attempt settles it. It needs leases, under which
  attempts have distinct ids; deliveries share theirs, and their rows;
- `OverrunInv`: a row whose provider used more than was reserved stays RESERVED for good,
  as its commit is refused. An accepted task has no such row (`AcceptedInv`), so that its
  recorded usage covers the spending even though overruns happen.

**EventStream** (`EventStreamProofs`): TypeOK, DeliveredOnce and OrderedNothingSkipped.
`ReaderInv` says where the reader is: the page lies between what the client has seen and
the position of `events()`, and the position is always a visible event. `FirstDownClosed`
(`ORDER BY ... LIMIT` leaves nothing out below what it returns) gives that everything
visible below the position was read. `LogInv` gives that nothing appears there later:
while commits follow the ids, an open transaction has a larger id than every visible event.

**Harness** (`HarnessProofs`): `HarnessSpec => Spec`, so that every theorem about the store
holds of workers, deliveries and faults too; HarnessTypeOK, AcceptedWasAnswered and
LocalAskedOnce. `HarnessInv` adds to `StoreInv` what processes know from before:
an answer in the hands of a process is in the log (`ReturnedInv`), whoever has taken the
lease since; a process about to ask that still holds its lease is the first to ask
(`ParkingInv`), because the latest request is answered unless the task still waits
(`AskedInv`), and a task that waits is not claimed. The guards that negate a transaction
(`Startable`, `OwnsLease`) are written out rather than as ENABLED, which is out of the
prover's reach.

`HarnessImplementsExecution` is the refinement on which the ledgers stand: for every task,
the lease, its expiry, the status and the reservation map to the variables of `Execution`, and
each step of the store to a step of the executions or to none. `CompetitionInv` is
what this needs besides `HarnessInv`: no transaction leaves a lease alive that nobody owns,
and deliveries have no leases. `HarnessFence` is about the guards: what
`_lock_boundary_execution` admits passes the fence that `Execution` states, and while one
attempt is admitted no other is. `LedgerExecutions` and `MeterExecutions` close the circle:
the ledgers' executions behave as `Execution` says. No run states the refinement by tasks,
since TLC evaluates no instance with a parameter.

**PlanEval** (`SchedulerProofs`, first part, where `flow` is any plan): what a pass asks for, for every admitted plan of any size.

- *Scopes.* A task is named by the scope under which its node is walked, so one occurrence
  has one task only if every walk comes to a node under one scope, whatever it has cached
  and whichever branches it passes by. `Shape` is what all walks have in common, static
  ones included: the path from the output to the last frame, where what was looked at
  before is cached or is a branch. Two walks that are at the same node have the same
  stack of nodes above it (`SameScope`, by the first difference of the two): where they part, one
  of them went past a dependency that reaches the node, so it has cached the node, or passed
  a branch by that `BranchesClosed` says is used nowhere else. `ScopeOf` is the scope
  that this makes unique, and `Placed` keeps every frame at it. The hypothesis `WellScoped`
  is what `scheduler_shared` lacks.
- *Results.* `WalkInv` says of a walk: a cached result is what the plan denotes for the
  accepted results of the snapshot, all it rests on is cached and resolved, every node
  on the stack is demanded, and every call so far is sound (`CallSound`): released as
  `Released` says, or the end of the run with its value. `Ends` is how each kind of step returns.
- *Time.* A snapshot grows old. `DenoteGrows`, `DemandedGrows`, `ReleasedGrows` and
  `CompleteGrows`: what is denoted, needed, released or complete stays so when more results
  are accepted, because a condition that is resolved selects one branch for good.

`Denote` and `StaticWalk` are recursive functions; that they satisfy their equations is proved
by a least counterexample among the numbers, as for Kahn's loop below.

**Scheduler** (`SchedulerProofs`, last part): OneTaskPerOccurrence, ReleasedAsDenoted and
SucceededAsDenoted, for any number of runs, replicas, clients, commands and crashes.
`SchedulerInv` has `RunInv` for each run with a well-scoped plan: its tasks are fine for the results
accepted now, and so are the calls that any process is still going to make, however
long ago it loaded the history. ReleasedAsDenoted alone is not inductive: the release is decided in
one step and made in another. `Move` is all that a step may do to the tasks of a run: accepted
tasks stay, new ones are right, and a run that may end (`Ended`: its value is complete and all
tasks are accepted) gets no other task. The last is why `complete_run` is sound although it
counts the tasks in one step and updates the run in the next: every call that could add a
task is for a node that is demanded, and those are all accepted by then.

**PlanValidator** (`GeneratedRunProofs`, first part): what the algorithms on plans give for every fragment, of
any size, that passes the checks. `RoundsInv` is the invariant of Kahn's loop: ready nodes
are new and have their dependencies in the order, an indegree counts the dependencies that
are not, and the order lists each node once and after its dependencies. `state[n]` has it for
every `n` because there is no least `n` without it (the library's induction theorem takes an
operator as parameter; a least counterexample needs none). When the order is as long as the
graph, which `ShapeError` checks, it has every node (`OrderComplete`); then `ResolvedNodes`
inverts `BuildGeneratedPlan` (`RoundTrip`) and what the metrics grant covers each node
(`GrantedByRegion`).

The last part of `GeneratedRunProofs` is `ValidatorDecides`: `Validate` passes a fragment exactly when
it is `Admissible`, for every fragment, all limits and ranges, every rounding of costs, and every approval check or
none; AdmittedAsSpecified follows. The two sides speak of
different things, rounds of loops and paths of the graph, and walks along the dependencies join them:

- a complete order exists exactly when no path closes to a cycle. One way, a walk goes forward in the order
  (`WalkForward`), so it never meets a node twice and its end never leads back. The other way, a node that
  Kahn's loop leaves over waits for another such node, and the walk back along these must repeat one
  (`AcyclicOrdered`);
- what the worklist of `_resolve_graph` has seen or has pending reaches an output, and nothing else is
  missing when nothing is pending, which is so after as many visits as there are nodes (`ReachableOf`);
- depths and path times are the same computation with different weights: `Weighs` says that each node has
  its own weight and the largest of its dependencies', and then no walk weighs more than its end has and one weighs just
  that, or has a node without a bound (`WalkWeight`, `HeaviestWalk`). Hence `DepthBound` and `TimeBound`; the
  latter is for any number, and so serves the range and the limit.
  The maximum over the outputs alone suffices for the time as every node serves one, and times do not
  fall along a walk (`WalkRises`);
- calls and costs need no walk: `CallsBound` and `CostBound` follow the cases of a node without a bound, a sum
  in range and one out of it;
- `WellFormedMeans` collects what the canonical form gives (as many nodes as keys), and the lemmas after it take one
  conjunct of `Admissible` each.

**GeneratedRun** (`GeneratedRunProofs`): TypeOK, PlanRoundTrips, ChildrenAsApproved,
ReleasedWithAccepted and SucceededVerified, for every registry, set of fragments and policy,
and any number of peers, attempts, commands and crashes. `IInv` adds:

- `PlanInv`, `LogInv`: where the driver is tells which events there are, and the adopted
  definition outlives it, so that a peer that materializes later finds the plan that was
  approved;
- `ChildrenInv`: the children are the plan's nodes. `InsertStep` is the one step that makes
  them, at most once as the event is in the same transaction; every other step lets them
  evolve (`Evolves`: plan, inputs and accepted results stay);
- `ViewInv`: a snapshot may be older than the store, but what was accepted in it is final and
  the dependencies of what its pass is to release were accepted in it (`ViewReleased`).
  ReleasedWithAccepted alone is not inductive: a pass releases from its snapshot;
- `DriverInv`: the driver holds no child but its target, and from `verify` on has a snapshot
  with all outputs accepted, which the output of the run is taken from;
- `TriesInv`: the rounds of the driver bound the planner's attempts.

`Bystanders` is what the driver sees of peers, commands and crashes of others. That a command
may cancel an unfinished planner but no finished one is why the plan never changes once it
is there (`PlanStays`).

**SetLemmas**: `Min`, `Max` and `CHOOSE` in the models pick from sets of naturals that have
a least or greatest member, by the library's theorem on well-founded relations.

**SelectiveReplay** (`SelectiveReplayProofs`): PassedAsCompared, for every fixture with a sequence of
boundaries, every choice of steps, and whatever the handlers do and cost. `LoopInv` says
of a loop at position p that the chosen boundaries before p, and they alone, have been compared, in their order
(`Ranks` counts them), that none of the handlers has tried an effect, and that `changed` is set exactly when one
of these comparisons differs or something was spent. The theorem is about `LoopSpec`, the loop in
any surroundings that leave it alone: `Replay` uses its actions as they are, and its other steps either leave `replay`
alone while it is `Idle` or begin a case.

**Only model-checked.** All liveness (fairness is out of the prover's reach).
`PlanCompiler` and with it `Replay` use
recursive operators, which follow the recursion of the code over workflows: SoundReplay and
CompleteReplay are out of the prover's reach as the modules stand.

## Not modelled

Recorded per component in `PROJECT.json`. In short:

- canonical encoding, digests, type matching, serialisation, HTTP routing and console
  output are pure or I/O and appear as equality of abstract values;
- registry and bundles are immutable data, the artifact store two file operations;
- payload validation of commands and of approvals is the guard of an action without its
  content;
- row locks, and so the aborts of PostgreSQL's deadlock detection;
- generated regions, tool and model reads and replayed effects in `Replay`;
- the type checks of authored expressions, and workflows with two module objects of one id (the compiler counts
  occurrences by object);
- guardrail rules on budgets: the package of the assertions, outside this repository, decides what they make of a
  dimension without a bound. `PolicyIssues` has depth, fan-out and forbidden modules.

## Plan

The models are complete as far as they are planned, and so are the proofs about the store, the
ledgers, the streams, the harness, the scheduler, generated runs and selective replay. What may follow:

1. `PlanCompiler` with functions in the place of its recursive operators, as `PlanEval` has them;
   then SoundReplay.
