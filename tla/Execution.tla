------------------------------ MODULE Execution ------------------------------
(***************************************************************************)
(* The executions of one task, as far as they compete: what TaskStore says *)
(* of claims, leases, deliveries and the end of a task, reduced to the     *)
(* fence that the effect and the budget ledgers take in every transaction. *)
(*                                                                         *)
(* An execution is one run of BoundaryHarness._execute_boundary.  In the   *)
(* local posture each execution is an attempt of its own, and the lease of *)
(* the latest claim fences it; in the external posture all executions are  *)
(* deliveries of the one reserved execution_id, and nothing tells them     *)
(* apart.  An execution may stop, or be delayed, anywhere: it then takes   *)
(* no step.                                                                *)
(***************************************************************************)
CONSTANTS
  Executions,  \* executions of the task
  None,        \* no execution, and no value of any other kind
  Postures     \* the postures a task may have

ASSUME ExecutionAssumption ==
  /\ None \notin Executions
  /\ Postures \subseteq {"local", "external"}

VARIABLES
  posture,    \* "local" or "external", for all executions of the task
  task,       \* "open", "accepted" or "failed"
  owner,      \* local: the execution that holds the lease token, or None
  leaseLive   \* local: the lease has not expired

executionVars == <<posture, task, owner, leaseLive>>

ExecutionTypeOK ==
  /\ posture \in Postures
  /\ task \in {"open", "accepted", "failed"}
  /\ owner \in Executions \cup {None}
  /\ leaseLive \in BOOLEAN

ExecutionInit ==
  /\ posture \in Postures
  /\ task = "open"
  /\ owner = None
  /\ leaseLive = FALSE

\* _lock_boundary_execution, as far as it tells executions of a task apart.
Fence(e) ==
  /\ task = "open"
  /\ posture = "local" => owner = e /\ leaseLive

\* claim_task and start_task take the lease over once it has expired or was
\* released; start_external_execution lets a delivery join the running ones.
Begin(e) ==
  /\ task = "open"
  /\ \/ /\ posture = "local"
        /\ owner = None \/ ~leaseLive
        /\ owner' = e
        /\ leaseLive' = TRUE
     \/ /\ posture = "external"
        /\ UNCHANGED <<owner, leaseLive>>
  /\ UNCHANGED <<posture, task>>

\* The clock passes lease_expires_at.
ExpireLease ==
  /\ leaseLive
  /\ leaseLive' = FALSE
  /\ UNCHANGED <<posture, task, owner>>

\* heartbeat_task revives an expired lease nobody has taken over.
HeartbeatLease ==
  /\ owner # None
  /\ ~leaseLive
  /\ leaseLive' = TRUE
  /\ UNCHANGED <<posture, task, owner>>

\* _complete_boundary: the execution ends the task with the given verdict.
Settle(e, verdict) ==
  /\ Fence(e)
  /\ task' = verdict
  /\ owner' = None
  /\ leaseLive' = FALSE
  /\ UNCHANGED posture

\* fail_task needs the lease token alone and may keep the task open;
\* record_external_failure leaves the task as it is.
Abandon(e, retry) ==
  /\ \/ /\ posture = "local"
        /\ owner = e
        /\ task' = IF retry THEN "open" ELSE "failed"
        /\ owner' = None
        /\ leaseLive' = FALSE
     \/ /\ posture = "external"
        /\ Fence(e)
        /\ UNCHANGED <<task, owner, leaseLive>>
  /\ UNCHANGED posture

\* The retry command.  An external reservation that failed with its task is
\* refused by start_external_execution, so only local executions follow.
Reopen ==
  /\ posture = "local"
  /\ task = "failed"
  /\ task' = "open"
  /\ UNCHANGED <<posture, owner, leaseLive>>

-----------------------------------------------------------------------------
(***************************************************************************)
(* What an environment of the executions may do to their task.             *)
(***************************************************************************)

ExecutionNext ==
  \/ \E e \in Executions :
       \/ Begin(e)
       \/ \E verdict \in {"accepted", "failed"} : Settle(e, verdict)
       \/ \E retry \in BOOLEAN : Abandon(e, retry)
  \/ ExpireLease \/ HeartbeatLease \/ Reopen

ExecutionSpec == ExecutionInit /\ [][ExecutionNext]_executionVars

=============================================================================
