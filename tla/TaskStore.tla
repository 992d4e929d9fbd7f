------------------------------ MODULE TaskStore ------------------------------
(***************************************************************************)
(* The durable task store of maida.workflows (persistence.py): one run,    *)
(* its tasks, the attempts made at them, and every transaction that moves  *)
(* them.  Each action is one database transaction.  Those that write a     *)
(* task lock its row; commands, claims and task creation also lock the     *)
(* run's row.  The other readers of the run's status do not lock it: the   *)
(* model places each of them where it read the status.  That is a serial   *)
(* order of the same transactions, since a pause, fail_run or complete_run *)
(* that commits in between writes the run's row alone, and a cancel meets  *)
(* them at the task's row.  complete_run also reads task rows it does not  *)
(* lock, which has no such order: it is two actions.                       *)
(*                                                                         *)
(* Callers are not modelled: a worker that holds the claim of attempt n,   *)
(* or a delivery that holds the external execution of a task, may call any *)
(* operation at any time and arbitrarily late (a stalled process, a lost   *)
(* heartbeat, a redelivered message), so only the store's own conditions   *)
(* restrict what happens.  An operation that raises is rolled back, hence  *)
(* no step.                                                                *)
(*                                                                         *)
(* The lease token and the attempt id are drawn together by claim_task, so *)
(* a token is modelled by the number of the attempt it was issued with.    *)
(***************************************************************************)
EXTENDS Naturals

CONSTANTS
  Tasks,         \* the tasks of the run
  CommandIds,    \* the command_ids clients may use
  Outputs,       \* the outputs a module execution may return
  NoOutput,      \* the output of a task that has none yet
  MaxAttempts,   \* TaskWorker.max_attempts
  AttemptBound   \* bound of the model on the attempt rows of one task

ASSUME StoreAssumption ==
  /\ MaxAttempts \in Nat \ {0}
  /\ AttemptBound \in Nat \ {0}
  /\ NoOutput \notin Outputs

VARIABLES
  runStatus,      \* workflow_runs.status
  taskStatus,     \* workflow_tasks.status; "ABSENT" is a task with no row yet
  lease,          \* workflow_tasks.lease_token: its attempt number, 0 for NULL
  leaseLive,      \* whether workflow_tasks.lease_expires_at > now()
  attemptStatus,  \* workflow_attempts.status; "NONE" is a number with no row yet
  lastAttempt,    \* MAX(attempt_number) of the task's attempts, 0 for none
  external,       \* the attempt that holds the task's execution_id, 0 for none
  accepted,       \* accepted_attempt_id (0 for NULL) and the accepted output
  checkpoints,    \* the attempts that have a checkpoint_ref
  usedCommands,   \* the command_ids with a COMMAND_RECEIVED event
  counted         \* a complete_run has counted no incomplete task, and has not
                  \* yet updated the run

vars == <<runStatus, taskStatus, lease, leaseLive, attemptStatus, lastAttempt,
          external, accepted, checkpoints, usedCommands, counted>>

Attempts == 1 .. AttemptBound

RunStatus == {"RUNNING", "PAUSED", "SUCCEEDED", "FAILED", "CANCELLED"}

Awaiting == {"NEEDS_INPUT", "NEEDS_APPROVAL", "WAITING_SIGNAL"}

TaskStatus == {"ABSENT", "BLOCKED", "READY", "LEASED", "RUNNING",
               "SUCCEEDED", "FAILED", "CANCELLED"} \cup Awaiting

AttemptStatus == {"NONE", "CLAIMED", "RUNNING", "SUCCEEDED", "FAILED",
                  "ABANDONED", "PARKED", "CANCELLED"}

LiveAttempt == {"CLAIMED", "RUNNING"}

ActiveRun == {"RUNNING", "PAUSED"}

Unfinished == {"BLOCKED", "READY", "LEASED", "RUNNING"} \cup Awaiting

NotAccepted == [attempt |-> 0, output |-> NoOutput]

TypeOK ==
  /\ runStatus \in RunStatus
  /\ taskStatus \in [Tasks -> TaskStatus]
  /\ lease \in [Tasks -> 0 .. AttemptBound]
  /\ leaseLive \in [Tasks -> BOOLEAN]
  /\ attemptStatus \in [Tasks -> [Attempts -> AttemptStatus]]
  /\ lastAttempt \in [Tasks -> 0 .. AttemptBound]
  /\ external \in [Tasks -> 0 .. AttemptBound]
  /\ accepted \in [Tasks -> [attempt : 0 .. AttemptBound,
                             output : Outputs \cup {NoOutput}]]
  /\ checkpoints \in [Tasks -> SUBSET Attempts]
  /\ usedCommands \in SUBSET CommandIds
  /\ counted \in BOOLEAN

\* A run as create_run leaves it, before the scheduler enqueues its tasks.
Init ==
  /\ runStatus = "RUNNING"
  /\ taskStatus = [t \in Tasks |-> "ABSENT"]
  /\ lease = [t \in Tasks |-> 0]
  /\ leaseLive = [t \in Tasks |-> FALSE]
  /\ attemptStatus = [t \in Tasks |-> [n \in Attempts |-> "NONE"]]
  /\ lastAttempt = [t \in Tasks |-> 0]
  /\ external = [t \in Tasks |-> 0]
  /\ accepted = [t \in Tasks |-> NotAccepted]
  /\ checkpoints = [t \in Tasks |-> {}]
  /\ usedCommands = {}
  /\ counted = FALSE

-----------------------------------------------------------------------------
\* Updates shared by the operations.

SetTask(t, s) == taskStatus' = [taskStatus EXCEPT ![t] = s]

SetAttempt(t, n, s) == attemptStatus' = [attemptStatus EXCEPT ![t][n] = s]

GrantLease(t, n) ==
  /\ lease' = [lease EXCEPT ![t] = n]
  /\ leaseLive' = [leaseLive EXCEPT ![t] = TRUE]

ReleaseLease(t) ==
  /\ lease' = [lease EXCEPT ![t] = 0]
  /\ leaseLive' = [leaseLive EXCEPT ![t] = FALSE]

\* The fence of _lock_boundary_execution: the claim of a local attempt must
\* still own an unexpired lease; the execution of an external attempt needs
\* its reservation active and the task READY and unleased.
LocalFence(t, n) ==
  /\ n # external[t]
  /\ taskStatus[t] = "RUNNING"
  /\ lease[t] = n
  /\ leaseLive[t]

\* Mutant: the reservation alone admits the result.
ExternalFence_AnyTask(t, n) == n = external[t]

ExternalFence(t, n) ==
  /\ n = external[t]
  /\ taskStatus[t] = "READY"
  /\ lease[t] = 0

\* Mutant: the status of the run is not read.
BoundaryFence_AnyRun(t, n) ==
  /\ attemptStatus[t][n] = "RUNNING"
  /\ LocalFence(t, n) \/ ExternalFence(t, n)

BoundaryFence(t, n) ==
  /\ runStatus \in ActiveRun
  /\ attemptStatus[t][n] = "RUNNING"
  /\ LocalFence(t, n) \/ ExternalFence(t, n)

-----------------------------------------------------------------------------
\* The scheduler creates the tasks of the run and releases blocked ones.

\* enqueue_task (and the insertion of a generated plan): a task created with
\* its input is READY, without it BLOCKED.  The run row is locked and must be
\* RUNNING; a task that already exists is returned unchanged.
EnqueueTask(t, s) ==
  /\ runStatus = "RUNNING"
  /\ taskStatus[t] = "ABSENT"
  /\ SetTask(t, s)
  /\ UNCHANGED <<runStatus, lease, leaseLive, attemptStatus, lastAttempt,
                 external, accepted, checkpoints, usedCommands, counted>>

ReadyTask(t) ==
  /\ runStatus = "RUNNING"
  /\ taskStatus[t] = "BLOCKED"
  /\ SetTask(t, "READY")
  /\ UNCHANGED <<runStatus, lease, leaseLive, attemptStatus, lastAttempt,
                 external, accepted, checkpoints, usedCommands, counted>>

-----------------------------------------------------------------------------
\* The local posture: claim, start, heartbeat and checkpoint.

Claimable(t) ==
  \/ taskStatus[t] = "READY"
  \/ taskStatus[t] \in {"LEASED", "RUNNING"} /\ ~leaseLive[t]

\* Mutant: the attempts of an expired lease stay live.
ClaimedRows_KeepOld(t, n) ==
  [m \in Attempts |-> IF m = n THEN "CLAIMED" ELSE attemptStatus[t][m]]

\* The attempt rows after the claim of attempt n: taking over an expired lease
\* abandons every live attempt of the task.
ClaimedRows(t, n) ==
  [m \in Attempts |->
     IF m = n THEN "CLAIMED"
     ELSE IF taskStatus[t] # "READY" /\ attemptStatus[t][m] \in LiveAttempt
     THEN "ABANDONED"
     ELSE attemptStatus[t][m]]

ClaimTask(t) ==
  /\ runStatus = "RUNNING"
  /\ Claimable(t)
  /\ lastAttempt[t] < AttemptBound
  /\ SetTask(t, "LEASED")
  /\ GrantLease(t, lastAttempt[t] + 1)
  /\ lastAttempt' = [lastAttempt EXCEPT ![t] = @ + 1]
  /\ attemptStatus' = [attemptStatus EXCEPT ![t] =
                         ClaimedRows(t, lastAttempt[t] + 1)]
  /\ UNCHANGED <<runStatus, external, accepted, checkpoints, usedCommands,
                 counted>>

\* start_task compares the token but not the expiry, and needs a RUNNING run.
Startable(t, n) ==
  /\ runStatus = "RUNNING"
  /\ taskStatus[t] = "LEASED"
  /\ lease[t] = n
  /\ attemptStatus[t][n] = "CLAIMED"

StartTask(t, n) ==
  /\ Startable(t, n)
  /\ SetTask(t, "RUNNING")
  /\ SetAttempt(t, n, "RUNNING")
  /\ UNCHANGED <<runStatus, lease, leaseLive, lastAttempt, external, accepted,
                 checkpoints, usedCommands, counted>>

\* The lease condition of heartbeat_task and fail_task: the token, but neither
\* its expiry nor the status of the run.
OwnsLease(t, n) == taskStatus[t] \in {"LEASED", "RUNNING"} /\ lease[t] = n

\* heartbeat_task extends a lease that is still in place, whatever the status
\* of the run and even after its expiry, as long as nobody has taken it over.
HeartbeatTask(t, n) ==
  /\ OwnsLease(t, n)
  /\ leaseLive' = [leaseLive EXCEPT ![t] = TRUE]
  /\ UNCHANGED <<runStatus, taskStatus, lease, attemptStatus, lastAttempt,
                 external, accepted, checkpoints, usedCommands, counted>>

\* The clock of the database passes lease_expires_at.
LeaseExpires(t) ==
  /\ leaseLive[t]
  /\ leaseLive' = [leaseLive EXCEPT ![t] = FALSE]
  /\ UNCHANGED <<runStatus, taskStatus, lease, attemptStatus, lastAttempt,
                 external, accepted, checkpoints, usedCommands, counted>>

\* checkpoint_task looks at the attempt row only, never at the task's lease.
CheckpointTask(t, n) ==
  /\ n # external[t]
  /\ attemptStatus[t][n] = "RUNNING"
  /\ checkpoints' = [checkpoints EXCEPT ![t] = @ \cup {n}]
  /\ UNCHANGED <<runStatus, taskStatus, lease, leaseLive, attemptStatus,
                 lastAttempt, external, accepted, usedCommands, counted>>

-----------------------------------------------------------------------------
\* The external posture: a delivery reserves the stable execution_id of the
\* task, resumes the reservation it parked, or (a redelivery) finds it RUNNING
\* and changes nothing.  A delivery that fails keeps both the reservation and
\* the task's status: record_external_failure writes a diagnostic only.

ExternalStartable(t) ==
  /\ runStatus = "RUNNING"
  /\ taskStatus[t] = "READY"
  /\ lease[t] = 0

ReserveExternal(t) ==
  /\ external[t] = 0
  /\ lastAttempt[t] < AttemptBound
  /\ external' = [external EXCEPT ![t] = lastAttempt[t] + 1]
  /\ lastAttempt' = [lastAttempt EXCEPT ![t] = @ + 1]
  /\ SetAttempt(t, lastAttempt[t] + 1, "RUNNING")

ResumeExternal(t) ==
  /\ external[t] # 0
  /\ attemptStatus[t][external[t]] = "PARKED"
  /\ SetAttempt(t, external[t], "RUNNING")
  /\ UNCHANGED <<external, lastAttempt>>

StartExternalExecution(t) ==
  /\ ExternalStartable(t)
  /\ ReserveExternal(t) \/ ResumeExternal(t)
  /\ UNCHANGED <<runStatus, taskStatus, lease, leaseLive, accepted,
                 checkpoints, usedCommands, counted>>

-----------------------------------------------------------------------------
\* The end of an execution, in either posture.

\* _complete_boundary when every effect and budget row of the task is
\* COMMITTED.  (Completing a SUCCEEDED external task again returns the accepted
\* boundary and changes nothing.)
CompleteBoundary(t, n, o) ==
  /\ BoundaryFence(t, n)
  /\ SetTask(t, "SUCCEEDED")
  /\ ReleaseLease(t)
  /\ SetAttempt(t, n, "SUCCEEDED")
  /\ accepted' = [accepted EXCEPT ![t] = [attempt |-> n, output |-> o]]
  /\ UNCHANGED <<runStatus, lastAttempt, external, checkpoints, usedCommands,
                 counted>>

\* _complete_boundary when some effect or budget row is not COMMITTED: the task
\* and the attempt fail in the same transaction.
RejectBoundary(t, n) ==
  /\ BoundaryFence(t, n)
  /\ SetTask(t, "FAILED")
  /\ ReleaseLease(t)
  /\ SetAttempt(t, n, "FAILED")
  /\ UNCHANGED <<runStatus, lastAttempt, external, accepted, checkpoints,
                 usedCommands, counted>>

\* Mutant: the lease survives the failure.
FailTask_KeepLease(t, n, retry) ==
  /\ OwnsLease(t, n)
  /\ retry => n < MaxAttempts
  /\ SetTask(t, IF retry THEN "READY" ELSE "FAILED")
  /\ SetAttempt(t, n, "FAILED")
  /\ UNCHANGED <<runStatus, lease, leaseLive, lastAttempt, external, accepted,
                 checkpoints, usedCommands, counted>>

\* Mutant: a status the schema does not have.
FailTask_Pending(t, n, retry) ==
  /\ OwnsLease(t, n)
  /\ retry => n < MaxAttempts
  /\ SetTask(t, IF retry THEN "PENDING" ELSE "FAILED")
  /\ ReleaseLease(t)
  /\ SetAttempt(t, n, "FAILED")
  /\ UNCHANGED <<runStatus, lastAttempt, external, accepted, checkpoints,
                 usedCommands, counted>>

\* fail_task compares the token only: neither expiry nor run status matter.
\* BoundaryHarness asks for a retry only below MaxAttempts, and then only for
\* some exceptions.
FailTask(t, n, retry) ==
  /\ OwnsLease(t, n)
  /\ retry => n < MaxAttempts
  /\ SetTask(t, IF retry THEN "READY" ELSE "FAILED")
  /\ ReleaseLease(t)
  /\ attemptStatus' = [attemptStatus EXCEPT ![t][n] =
                         IF @ \in LiveAttempt THEN "FAILED" ELSE @]
  /\ UNCHANGED <<runStatus, lastAttempt, external, accepted, checkpoints,
                 usedCommands, counted>>

\* _park_boundary: the task waits for a command of the kind s, the attempt is
\* PARKED, and a local lease is released.
ParkBoundary(t, n, s) ==
  /\ BoundaryFence(t, n)
  /\ SetTask(t, s)
  /\ ReleaseLease(t)
  /\ SetAttempt(t, n, "PARKED")
  /\ UNCHANGED <<runStatus, lastAttempt, external, accepted, checkpoints,
                 usedCommands, counted>>

-----------------------------------------------------------------------------
\* submit_command.  The run row is locked FOR UPDATE; a command_id that was
\* received before is answered with the original event and changes nothing.

\* Mutant: a redelivered command is applied again.
Fresh_Redelivered(c) ==
  /\ usedCommands' = usedCommands \cup {c}

Fresh(c) ==
  /\ c \notin usedCommands
  /\ usedCommands' = usedCommands \cup {c}

PauseCommand(c) ==
  /\ Fresh(c)
  /\ runStatus = "RUNNING"
  /\ runStatus' = "PAUSED"
  /\ UNCHANGED <<taskStatus, lease, leaseLive, attemptStatus, lastAttempt,
                 external, accepted, checkpoints, counted>>

ResumeCommand(c) ==
  /\ Fresh(c)
  /\ runStatus = "PAUSED"
  /\ runStatus' = "RUNNING"
  /\ UNCHANGED <<taskStatus, lease, leaseLive, attemptStatus, lastAttempt,
                 external, accepted, checkpoints, counted>>

\* Mutant: the attempts of cancelled tasks stay live.
CancelCommand_KeepAttempts(c) ==
  /\ Fresh(c)
  /\ runStatus \in ActiveRun
  /\ runStatus' = "CANCELLED"
  /\ taskStatus' = [t \in Tasks |-> IF taskStatus[t] \in Unfinished
                                    THEN "CANCELLED" ELSE taskStatus[t]]
  /\ lease' = [t \in Tasks |-> 0]
  /\ leaseLive' = [t \in Tasks |-> FALSE]
  /\ UNCHANGED <<attemptStatus, lastAttempt, external, accepted, checkpoints,
                 counted>>

\* cancel ends every unfinished task, clears its lease and cancels its live
\* attempts in one transaction.
CancelCommand(c) ==
  LET cancelled == {t \in Tasks : taskStatus[t] \in Unfinished} IN
  /\ Fresh(c)
  /\ runStatus \in ActiveRun
  /\ runStatus' = "CANCELLED"
  /\ taskStatus' = [t \in Tasks |-> IF t \in cancelled THEN "CANCELLED"
                                    ELSE taskStatus[t]]
  /\ lease' = [t \in Tasks |-> IF t \in cancelled THEN 0 ELSE lease[t]]
  /\ leaseLive' = [t \in Tasks |-> IF t \in cancelled THEN FALSE
                                   ELSE leaseLive[t]]
  /\ attemptStatus' = [t \in Tasks |-> [n \in Attempts |->
       IF t \in cancelled /\ attemptStatus[t][n] \in LiveAttempt
       THEN "CANCELLED" ELSE attemptStatus[t][n]]]
  /\ UNCHANGED <<lastAttempt, external, accepted, checkpoints, counted>>

\* retry makes a FAILED task READY again; no attempt is reset.
RetryCommand(c, t) ==
  /\ Fresh(c)
  /\ runStatus \in ActiveRun
  /\ taskStatus[t] = "FAILED"
  /\ SetTask(t, "READY")
  /\ UNCHANGED <<runStatus, lease, leaseLive, attemptStatus, lastAttempt,
                 external, accepted, checkpoints, counted>>

\* approve, reject and input, and a signal that names a request, release the
\* task that is waiting for them.
ResolveCommand(c, t) ==
  /\ Fresh(c)
  /\ runStatus \in ActiveRun
  /\ taskStatus[t] \in Awaiting
  /\ SetTask(t, "READY")
  /\ UNCHANGED <<runStatus, lease, leaseLive, attemptStatus, lastAttempt,
                 external, accepted, checkpoints, counted>>

\* A signal without a request_id is recorded and releases no task.
SignalCommand(c) ==
  /\ Fresh(c)
  /\ runStatus \in ActiveRun
  /\ UNCHANGED <<runStatus, taskStatus, lease, leaseLive, attemptStatus,
                 lastAttempt, external, accepted, checkpoints, counted>>

-----------------------------------------------------------------------------
\* The end of the run.

\* complete_run counts the incomplete tasks without any lock ...
CompleteRunCount ==
  /\ \A t \in Tasks : taskStatus[t] \in {"ABSENT", "SUCCEEDED"}
  /\ counted' = TRUE
  /\ UNCHANGED <<runStatus, taskStatus, lease, leaseLive, attemptStatus,
                 lastAttempt, external, accepted, checkpoints, usedCommands>>

\* Mutant: the UPDATE has no status condition.
CompleteRun_AnyStatus ==
  /\ counted
  /\ counted' = FALSE
  /\ runStatus' = "SUCCEEDED"
  /\ UNCHANGED <<taskStatus, lease, leaseLive, attemptStatus, lastAttempt,
                 external, accepted, checkpoints, usedCommands>>

\* ... and then updates the run if it is still RUNNING.
CompleteRun ==
  /\ counted
  /\ counted' = FALSE
  /\ runStatus' = IF runStatus = "RUNNING" THEN "SUCCEEDED" ELSE runStatus
  /\ UNCHANGED <<taskStatus, lease, leaseLive, attemptStatus, lastAttempt,
                 external, accepted, checkpoints, usedCommands>>

\* fail_run leaves the tasks, their leases and their attempts as they are.
FailRun ==
  /\ runStatus = "RUNNING"
  /\ runStatus' = "FAILED"
  /\ UNCHANGED <<taskStatus, lease, leaseLive, attemptStatus, lastAttempt,
                 external, accepted, checkpoints, usedCommands, counted>>

-----------------------------------------------------------------------------
SchedulerStep ==
  \/ \E t \in Tasks, s \in {"READY", "BLOCKED"} : EnqueueTask(t, s)
  \/ \E t \in Tasks : ReadyTask(t)
  \/ CompleteRunCount
  \/ CompleteRun
  \/ FailRun

WorkerStep ==
  \/ \E t \in Tasks : ClaimTask(t)
  \/ \E t \in Tasks : LeaseExpires(t)
  \/ \E t \in Tasks : StartExternalExecution(t)
  \/ \E t \in Tasks, n \in Attempts : StartTask(t, n)
  \/ \E t \in Tasks, n \in Attempts : HeartbeatTask(t, n)
  \/ \E t \in Tasks, n \in Attempts : CheckpointTask(t, n)
  \/ \E t \in Tasks, n \in Attempts, o \in Outputs : CompleteBoundary(t, n, o)
  \/ \E t \in Tasks, n \in Attempts : RejectBoundary(t, n)
  \/ \E t \in Tasks, n \in Attempts, r \in BOOLEAN : FailTask(t, n, r)
  \/ \E t \in Tasks, n \in Attempts, s \in Awaiting : ParkBoundary(t, n, s)

CommandStep ==
  \/ \E c \in CommandIds : PauseCommand(c)
  \/ \E c \in CommandIds : ResumeCommand(c)
  \/ \E c \in CommandIds : CancelCommand(c)
  \/ \E c \in CommandIds : SignalCommand(c)
  \/ \E c \in CommandIds, t \in Tasks : RetryCommand(c, t)
  \/ \E c \in CommandIds, t \in Tasks : ResolveCommand(c, t)

Next == SchedulerStep \/ WorkerStep \/ CommandStep

Spec == Init /\ [][Next]_vars

-----------------------------------------------------------------------------
(***************************************************************************)
(* Properties.                                                             *)
(***************************************************************************)

\* A task holds a lease exactly while it is LEASED or RUNNING, the lease is the
\* one of a local attempt in the same phase, and no other local attempt of the
\* task is CLAIMED or RUNNING: claim_task, fail_task, _park_boundary and cancel
\* update the task row and the attempt rows with different conditions, and this
\* is what keeps them in step.
LeaseExclusive ==
  \A t \in Tasks :
    /\ lease[t] # 0 <=> taskStatus[t] \in {"LEASED", "RUNNING"}
    /\ lease[t] # 0 =>
         /\ lease[t] # external[t]
         /\ attemptStatus[t][lease[t]] =
              (IF taskStatus[t] = "LEASED" THEN "CLAIMED" ELSE "RUNNING")
    /\ \A n \in Attempts :
         n # lease[t] /\ n # external[t] => attemptStatus[t][n] \notin LiveAttempt

\* A SUCCEEDED task has exactly one SUCCEEDED attempt, the one recorded as
\* accepted, and no other task has any: late completions by zombie workers and
\* by redelivered executions leave no second success behind.
AcceptedEvidence ==
  \A t \in Tasks :
    /\ taskStatus[t] = "SUCCEEDED" <=> accepted[t].attempt # 0
    /\ \A n \in Attempts :
         attemptStatus[t][n] = "SUCCEEDED" <=> accepted[t].attempt = n

\* After a cancel no task is unfinished, no lease is held, and no attempt of a
\* cancelled task is CLAIMED or RUNNING, although heartbeat_task, fail_task and
\* checkpoint_task never look at the status of the run.
CancelledRunIsQuiet ==
  runStatus = "CANCELLED" =>
    \A t \in Tasks :
      /\ taskStatus[t] \notin Unfinished
      /\ lease[t] = 0
      /\ taskStatus[t] = "CANCELLED" =>
           \A n \in Attempts : attemptStatus[t][n] \notin LiveAttempt

\* The boundary a task has accepted, with its attempt and its output, is never
\* replaced or withdrawn by any later call of any worker, delivery or command.
AcceptedBoundaryFinal ==
  [][\A t \in Tasks : accepted[t].attempt # 0 => accepted'[t] = accepted[t]]_vars

\* A terminal run stays as it ended: its status does not change again (also when
\* a complete_run that has counted its tasks is overtaken by a cancel), no
\* result is accepted, no task is created, and no attempt is added.
TerminalRunIsFinal ==
  [][runStatus \notin ActiveRun =>
       /\ runStatus' = runStatus
       /\ accepted' = accepted
       /\ lastAttempt' = lastAttempt
       /\ \A t \in Tasks : taskStatus[t] = "ABSENT" => taskStatus'[t] = "ABSENT"
    ]_vars

\* A pause, resume or cancel, and the release of a waiting or failed task, each
\* consume a command_id never received before: a command that is delivered twice
\* is applied once, even if the run has moved on in between.
CommandAppliedOnce ==
  [][\/ runStatus' \in {"PAUSED", "CANCELLED"} /\ runStatus' # runStatus
     \/ runStatus = "PAUSED" /\ runStatus' = "RUNNING"
     \/ \E t \in Tasks : /\ taskStatus[t] \in Awaiting \cup {"FAILED"}
                         /\ taskStatus'[t] = "READY"
     => \E c \in CommandIds : c \notin usedCommands /\ c \in usedCommands']_vars

\* An attempt only gets its first checkpoint while it holds the task's lease,
\* although checkpoint_task does not read the lease: an abandoned, parked, failed
\* or cancelled attempt leaves no late row among those that its successor may
\* resume from.  Rows are kept per attempt, so none replaces another's.
CheckpointByLeaseHolder ==
  [][\A t \in Tasks, n \in Attempts :
       n \in checkpoints'[t] \ checkpoints[t] => lease[t] = n]_vars

\* The logical view of a task and of the run: everything between creation and
\* the end is one pending state.
OutcomeOf(s) ==
  IF s = "ABSENT" THEN "absent"
  ELSE IF s = "SUCCEEDED" THEN "accepted"
  ELSE IF s = "FAILED" THEN "failed"
  ELSE IF s = "CANCELLED" THEN "cancelled"
  ELSE "pending"

RunOf(s) ==
  IF s \in ActiveRun THEN "active"
  ELSE IF s = "CANCELLED" THEN "cancelled"
  ELSE "closed"

Logical == INSTANCE LogicalTask
  WITH run <- RunOf(runStatus),
       outcome <- [t \in Tasks |-> OutcomeOf(taskStatus[t])],
       result <- [t \in Tasks |-> accepted[t].output]

\* Seen from outside, the store with all its attempts, leases, redeliveries and
\* commands behaves as LogicalTask: a task is accepted once, with one output,
\* only while the run is active, and a cancel ends all pending tasks at once.
StoreRefinesLogicalTask == Logical!LSpec
=============================================================================
