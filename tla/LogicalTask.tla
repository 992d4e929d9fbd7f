----------------------------- MODULE LogicalTask -----------------------------
(***************************************************************************)
(* What the durable store promises of a run, with no attempt, lease,       *)
(* execution or command in sight: every task has one logical life, at most *)
(* one result, and the run decides until when results are accepted.        *)
(* TaskStore implements this specification (StoreRefinesLogicalTask).              *)
(***************************************************************************)

CONSTANTS Tasks, Outputs, NoOutput

VARIABLES
  run,      \* "active", "closed" (succeeded or failed) or "cancelled"
  outcome,  \* "absent", "pending", "accepted", "failed" or "cancelled"
  result    \* the accepted output of a task

lvars == <<run, outcome, result>>

LInit ==
  /\ run = "active"
  /\ outcome = [t \in Tasks |-> "absent"]
  /\ result = [t \in Tasks |-> NoOutput]

\* A task is created while the run is active.
Create(t) ==
  /\ run = "active"
  /\ outcome[t] = "absent"
  /\ outcome' = [outcome EXCEPT ![t] = "pending"]
  /\ UNCHANGED <<run, result>>

\* One result is accepted, while the run is active, for a pending task.
Accept(t, o) ==
  /\ run = "active"
  /\ outcome[t] = "pending"
  /\ outcome' = [outcome EXCEPT ![t] = "accepted"]
  /\ result' = [result EXCEPT ![t] = o]
  /\ UNCHANGED run

\* A pending task may fail, also after its run was closed.
Fail(t) ==
  /\ outcome[t] = "pending"
  /\ outcome' = [outcome EXCEPT ![t] = "failed"]
  /\ UNCHANGED <<run, result>>

\* Only an active run revives a failed task.
Retry(t) ==
  /\ run = "active"
  /\ outcome[t] = "failed"
  /\ outcome' = [outcome EXCEPT ![t] = "pending"]
  /\ UNCHANGED <<run, result>>

\* A cancel ends the run and every pending task together.
Cancel ==
  /\ run = "active"
  /\ run' = "cancelled"
  /\ outcome' = [t \in Tasks |-> IF outcome[t] = "pending" THEN "cancelled"
                                 ELSE outcome[t]]
  /\ UNCHANGED result

Close ==
  /\ run = "active"
  /\ run' = "closed"
  /\ UNCHANGED <<outcome, result>>

LNext ==
  \/ \E t \in Tasks : Create(t)
  \/ \E t \in Tasks, o \in Outputs : Accept(t, o)
  \/ \E t \in Tasks : Fail(t)
  \/ \E t \in Tasks : Retry(t)
  \/ Cancel
  \/ Close

LSpec == LInit /\ [][LNext]_lvars

=============================================================================
