------------------------------ MODULE Harness ------------------------------
(***************************************************************************)
(* The processes that execute tasks: TaskWorker.run_once with its claim    *)
(* and heartbeats (the local posture), the deliveries of an execution      *)
(* request by an external substrate such as Celery (the external posture), *)
(* and BoundaryHarness, which both run (runtime.py, celery.py).  A task is *)
(* an ordinary module, or an interaction module that asks a person and     *)
(* waits parked for the answer (interactions.py).                          *)
(*                                                                         *)
(* TaskStore has the transactions; here they are called in the order of    *)
(* the code, with what the process has read before: other processes act in *)
(* between.  An operation of the store that raises ends the execution and  *)
(* changes nothing.                                                        *)
(***************************************************************************)
EXTENDS TaskStore, Sequences, FiniteSets

CONSTANTS
  Workers,      \* processes of the local posture
  Deliveries,   \* deliveries that an external substrate may have under way
  Answers,      \* what a person may decide; the outputs of interactions
  FaultBound    \* bound on crashes, stalls, refusals and raised exceptions

\* The entries of a task's log that are not answers.
Requested == "REQUIRED"

Retried == "RETRY"

ASSUME HarnessAssumption ==
  /\ Answers \subseteq Outputs
  /\ Requested \notin Answers /\ Retried \notin Answers
  /\ FaultBound \in Nat

VARIABLES
  posture,      \* how the run is executed: "local" or "external"
  interactive,  \* the tasks whose module is an interaction
  log,          \* of each task: the requests, the answers and the retries
  open,         \* the tasks with an effect or a charge that never commits
  proc,         \* what each process is doing
  faults

harnessVars == <<posture, interactive, log, open, proc, faults>>

allVars == <<vars, harnessVars>>

Procs == Workers \cup Deliveries

Free == [pc |-> "free"]

Busy(p) == proc[p].pc # "free"

At(p, pc) == proc[p].pc = pc

Become(p, state) == proc' = [proc EXCEPT ![p] = state]

Goto(p, pc) == proc' = [proc EXCEPT ![p].pc = pc]

\* The execution of p has returned or raised.
Leave(p) == Become(p, Free)

Fault == faults < FaultBound /\ faults' = faults + 1

HarnessInit ==
  /\ Init
  /\ posture \in {"local", "external"}
  /\ interactive \in SUBSET Tasks
  /\ log = [t \in Tasks |-> <<>>]
  /\ open = {}
  /\ proc = [p \in Procs |-> Free]
  /\ faults = 0

-----------------------------------------------------------------------------
(***************************************************************************)
(* What the log says.                                                      *)
(***************************************************************************)

NoAnswer == NoOutput

\* load_interaction_resolution: the latest answer after the latest request.
\* The request_id is a digest of the task, so that all requests share it.
Resolution(t) ==
  LET asked == {i \in DOMAIN log[t] : log[t][i] = Requested}
      given == {i \in DOMAIN log[t] : log[t][i] \in Answers /\ \A j \in asked : j < i}
  IN  IF asked = {} \/ given = {} THEN NoAnswer
      ELSE log[t][CHOOSE i \in given : \A j \in given : j <= i]

Logged(t, entry) == log' = [log EXCEPT ![t] = Append(@, entry)]

-----------------------------------------------------------------------------
(***************************************************************************)
(* Getting a task: a claim and its start, or a delivery.                   *)
(***************************************************************************)

Execution(pc, t, n) == [pc |-> pc, task |-> t, attempt |-> n, output |-> NoOutput]

Claim(w, t) ==
  /\ posture = "local" /\ ~Busy(w)
  /\ ClaimTask(t)
  /\ Become(w, Execution("claimed", t, lastAttempt[t] + 1))
  /\ UNCHANGED <<posture, interactive, log, open, faults>>

Start(w) ==
  LET t == proc[w].task
      n == proc[w].attempt
  IN
  /\ At(w, "claimed")
  /\ \/ StartTask(t, n) /\ Goto(w, "started")
     \/ ~Startable(t, n) /\ Leave(w) /\ UNCHANGED vars
  /\ UNCHANGED <<posture, interactive, log, open, faults>>

\* Mutant: the execution carries the attempt that was read before the reservation.
RunRequest_OldAttempt(d, t) ==
  /\ StartExternalExecution(t)
  /\ Become(d, Execution("started", t, external[t]))

\* Mutant: a reservation that is under way is not executed again.
RunRequest_FirstOnly(d, t) ==
  /\ StartExternalExecution(t)
  /\ Become(d, Execution("started", t, external'[t]))

\* run_request reserves the task's execution_id, resumes it, or joins what is
\* already under way.  For a task that is accepted, not READY, or has a
\* reservation that ended, it returns or raises at once.
RunRequest(d, t) ==
  /\ \/ StartExternalExecution(t)
     \/ /\ ExternalStartable(t)
        /\ external[t] # 0 /\ attemptStatus[t][external[t]] = "RUNNING"
        /\ UNCHANGED vars
  /\ Become(d, Execution("started", t, external'[t]))

\* The substrate delivers the request of a task, for the first time or again.
Deliver(d, t) ==
  /\ posture = "external" /\ ~Busy(d)
  /\ RunRequest(d, t)
  /\ UNCHANGED <<posture, interactive, log, open, faults>>

\* The heartbeat loop runs beside the execution, once it has started.
Heartbeat(w) ==
  /\ posture = "local" /\ Busy(w) /\ ~At(w, "claimed")
  /\ HeartbeatTask(proc[w].task, proc[w].attempt)
  /\ UNCHANGED harnessVars

-----------------------------------------------------------------------------
(***************************************************************************)
(* _execute_boundary.                                                      *)
(***************************************************************************)

\* fail(): the store moves a task of the local posture, and keeps no more than
\* a diagnostic of an external one.
Fail(p, retry) ==
  LET t == proc[p].task
      n == proc[p].attempt
  IN
  /\ Leave(p)
  /\ \/ posture = "local" /\ FailTask(t, n, retry)
     \/ (posture = "external" \/ ~OwnsLease(t, n)) /\ UNCHANGED vars

\* The input cannot be decoded or violates its contract, the module is missing
\* or has another digest, or its access contract cannot be bound.
Refuse(p) ==
  /\ At(p, "started")
  /\ Fault
  /\ Fail(p, FALSE)
  /\ UNCHANGED <<posture, interactive, log, open>>

\* An interaction looks for its answer.
LoadResolution(p) ==
  LET answer == Resolution(proc[p].task) IN
  /\ At(p, "started") /\ proc[p].task \in interactive
  /\ Become(p, IF answer = NoAnswer THEN [proc[p] EXCEPT !.pc = "parking"]
               ELSE [proc[p] EXCEPT !.pc = "returned", !.output = answer])
  /\ UNCHANGED <<vars, posture, interactive, log, open, faults>>

\* Mutant: a late request is not fenced.
Park_Unfenced(p) ==
  LET t == proc[p].task IN
  /\ At(p, "parking")
  /\ Leave(p)
  /\ SetTask(t, "NEEDS_APPROVAL") /\ ReleaseLease(t) /\ SetAttempt(t, proc[p].attempt, "PARKED")
  /\ Logged(t, Requested)
  /\ UNCHANGED <<runStatus, lastAttempt, external, accepted, checkpoints, usedCommands, counted,
                 posture, interactive, open, faults>>

\* _park_boundary with its event, behind the fence of the execution.
Park(p) ==
  LET t == proc[p].task
      n == proc[p].attempt
  IN
  /\ At(p, "parking")
  /\ Leave(p)
  /\ \/ ParkBoundary(t, n, "NEEDS_APPROVAL") /\ Logged(t, Requested)
     \/ ~BoundaryFence(t, n) /\ UNCHANGED <<vars, log>>
  /\ UNCHANGED <<posture, interactive, open, faults>>

\* Mutant: an interaction is executed like any module.
Return_AnyModule(p, o) ==
  /\ At(p, "started")
  /\ Become(p, [proc[p] EXCEPT !.pc = "returned", !.output = o])
  /\ UNCHANGED <<vars, posture, interactive, log, open, faults>>

\* An ordinary module returns.
Return(p, o) ==
  /\ At(p, "started") /\ proc[p].task \notin interactive
  /\ Become(p, [proc[p] EXCEPT !.pc = "returned", !.output = o])
  /\ UNCHANGED <<vars, posture, interactive, log, open, faults>>

\* It raises, or exceeds its wall time; a call that it has begun may stay open.
Raise(p, error) ==
  /\ At(p, "started") /\ proc[p].task \notin interactive
  /\ Fault
  /\ open' \in {open, open \cup {proc[p].task}}
  /\ Goto(p, error)
  /\ UNCHANGED <<vars, posture, interactive, log>>

\* A budget or non-retryable access error is final, and so is the last attempt.
MayRetry(p) == At(p, "retryable") /\ proc[p].attempt < MaxAttempts

FailRaised(p) ==
  /\ At(p, "retryable") \/ At(p, "final")
  /\ Fail(p, MayRetry(p))
  /\ UNCHANGED <<posture, interactive, log, open, faults>>

\* complete_task or complete_external_execution: accepted, rejected for what is
\* still open, or stale.
Complete(p) ==
  LET t == proc[p].task
      n == proc[p].attempt
  IN
  /\ At(p, "returned")
  /\ Leave(p)
  /\ \/ t \notin open /\ CompleteBoundary(t, n, proc[p].output)
     \/ t \in open /\ RejectBoundary(t, n)
     \/ ~BoundaryFence(t, n) /\ UNCHANGED vars
  /\ UNCHANGED <<posture, interactive, log, open, faults>>

Step(p) ==
  \/ Start(p) \/ LoadResolution(p) \/ Park(p) \/ FailRaised(p) \/ Complete(p)
  \/ \E o \in Outputs : Return(p, o)

-----------------------------------------------------------------------------
(***************************************************************************)
(* Faults, leases, and the commands of the application.                    *)
(***************************************************************************)

\* A process stops; what it has begun may stay open.
Crash(p) ==
  /\ Busy(p)
  /\ Fault
  /\ Leave(p)
  /\ open' \in {open, open \cup ({proc[p].task} \ interactive)}
  /\ UNCHANGED <<vars, posture, interactive, log>>

Held(t) == \E w \in Workers : Busy(w) /\ proc[w].task = t /\ proc[w].attempt = lease[t]

\* A lease that nobody extends any more expires ...
Lapse(t) ==
  /\ ~Held(t)
  /\ LeaseExpires(t)
  /\ UNCHANGED harnessVars

\* ... and so does one whose worker has stalled.
Stall(t) ==
  /\ Held(t)
  /\ Fault
  /\ LeaseExpires(t)
  /\ UNCHANGED <<posture, interactive, log, open, proc>>

\* approve, reject, input, or a signal with the request's id.
Answer(c, t, a) ==
  /\ ResolveCommand(c, t)
  /\ Logged(t, a)
  /\ UNCHANGED <<posture, interactive, open, proc, faults>>

Retry(c, t) ==
  /\ RetryCommand(c, t)
  /\ Logged(t, Retried)
  /\ UNCHANGED <<posture, interactive, open, proc, faults>>

\* The scheduler has released the task.
Release(t) ==
  /\ EnqueueTask(t, "READY")
  /\ UNCHANGED harnessVars

Command ==
  \/ \E c \in CommandIds, t \in Tasks : Retry(c, t) \/ \E a \in Answers : Answer(c, t, a)
  \/ (\E c \in CommandIds : PauseCommand(c) \/ ResumeCommand(c) \/ CancelCommand(c))
     /\ UNCHANGED harnessVars

HarnessNext ==
  \/ \E t \in Tasks : Release(t) \/ Lapse(t) \/ Stall(t)
  \/ \E w \in Workers : Heartbeat(w) \/ \E t \in Tasks : Claim(w, t)
  \/ \E d \in Deliveries, t \in Tasks : Deliver(d, t)
  \/ \E p \in Procs :
       \/ Step(p) \/ Refuse(p) \/ Crash(p)
       \/ \E error \in {"retryable", "final"} : Raise(p, error)
  \/ Command

\* Workers ask for tasks and the substrate delivers its requests again as long
\* as they are not accepted; an execution that has begun goes on; a lease that
\* nobody extends expires.
HarnessFairness ==
  /\ \A t \in Tasks : WF_allVars(Lapse(t)) /\ WF_allVars(Release(t))
  /\ \A t \in Tasks : WF_allVars(\E w \in Workers : Claim(w, t))
  /\ \A t \in Tasks : WF_allVars(\E d \in Deliveries : Deliver(d, t))
  /\ \A p \in Procs : WF_allVars(Step(p))

HarnessSpec == HarnessInit /\ [][HarnessNext]_allVars /\ HarnessFairness

-----------------------------------------------------------------------------
(***************************************************************************)
(* Properties.                                                             *)
(***************************************************************************)

\* The processes' state, and the columns of the store.
HarnessTypeOK ==
  /\ TypeOK
  /\ \A p \in Procs : Busy(p) =>
       /\ proc[p].pc \in {"claimed", "started", "parking", "returned", "retryable", "final"}
       /\ proc[p].task \in Tasks /\ proc[p].attempt \in 1 .. lastAttempt[proc[p].task]
  /\ \A t \in Tasks : \A i \in DOMAIN log[t] : log[t][i] \in {Requested, Retried} \cup Answers
  /\ open \subseteq Tasks

\* An accepted interaction has an answer that some accepted command gave: it is
\* never executed or completed without one.
AcceptedWasAnswered ==
  \A t \in interactive : taskStatus[t] = "SUCCEEDED" =>
    \E i \in DOMAIN log[t] : log[t][i] = accepted[t].output

\* A worker that has read the log before the answer came does not ask again: in
\* the local posture a person answers a task once.
LocalAskedOnce ==
  posture = "local" =>
    \A t \in Tasks : Cardinality({i \in DOMAIN log[t] : log[t][i] = Requested}) <= 1

\* An external task that failed with its reservation: no delivery may start it.
Stranded(t) == external[t] # 0 /\ attemptStatus[t][external[t]] = "FAILED"

\* A task as Execution has it: a reservation that failed has ended the task for
\* its deliveries, and a cancelled task is one that all executions have left.
TaskView(t) ==
  IF taskStatus[t] = "SUCCEEDED" THEN "accepted"
  ELSE IF taskStatus[t] = "FAILED" \/ Stranded(t) THEN "failed"
  ELSE "open"

ExecutionOf(t) == INSTANCE Execution
  WITH Executions <- Attempts, None <- 0, Postures <- {"local", "external"},
       task <- TaskView(t), owner <- lease[t], leaseLive <- leaseLive[t]

\* Claims, takeovers, heartbeats, deliveries, parks, retries and cancels of the
\* store are what Execution allows: what EffectLedger and BudgetMeter say of
\* competing executions they say of the executions of every task of the store.
TasksRefineExecution == \A t \in Tasks : ExecutionOf(t)!ExecutionSpec

\* No task stays READY or claimed for ever: stalled, crashed and raising
\* executions all leave it to another one, until it ends, waits for a person,
\* or the run stops; only a retried task whose external reservation has failed
\* is left behind.
TaskSettles ==
  \A t \in Tasks :
    taskStatus[t] \in {"READY", "LEASED", "RUNNING"} ~>
      \/ taskStatus[t] \in {"SUCCEEDED", "FAILED", "CANCELLED"} \cup Awaiting
      \/ runStatus # "RUNNING"
      \/ Stranded(t)
=============================================================================
