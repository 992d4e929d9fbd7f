----------------------------- MODULE EffectLedger -----------------------------
(***************************************************************************)
(* One external effect of one task: AccessBroker.effect (access.py) and    *)
(* the durable operation row it goes through (persistence.py).             *)
(* Every store call of the broker takes the fence of Execution; the call   *)
(* of the adapter, between them, cannot.                                   *)
(***************************************************************************)
EXTENDS Execution, Naturals, FiniteSets

CONSTANTS
  Requests,    \* requests the module may propose for the effect
  Results      \* results the adapter may return

ASSUME LedgerAssumption == None \notin Requests \cup Results

VARIABLES
  idempotent,  \* registry.effect_is_idempotent: what the adapter declares
  row,         \* the workflow_effect_operations row
  pc,          \* where each execution is
  request,     \* the request each execution proposes
  answer,      \* the result each execution has in hand
  calls,       \* the executions that have called the adapter
  provider     \* the result an idempotent adapter keeps for the key

vars == <<executionVars, idempotent, row, pc, request, answer, calls, provider>>

PC == {"new", "running", "looked_up", "reserved", "attempted", "answered",
       "returned", "denied", "ended"}

RowStatus == {"NONE", "RESERVED", "ATTEMPTED", "COMMITTED"}

TypeOK ==
  /\ ExecutionTypeOK
  /\ idempotent \in BOOLEAN
  /\ row \in [status : RowStatus, request : Requests \cup {None},
              result : Results \cup {None}]
  /\ pc \in [Executions -> PC]
  /\ request \in [Executions -> Requests \cup {None}]
  /\ answer \in [Executions -> Results \cup {None}]
  /\ calls \in SUBSET Executions
  /\ provider \in Results \cup {None}

Init ==
  /\ ExecutionInit
  /\ idempotent \in BOOLEAN
  /\ row = [status |-> "NONE", request |-> None, result |-> None]
  /\ pc = [e \in Executions |-> "new"]
  /\ request = [e \in Executions |-> None]
  /\ answer = [e \in Executions |-> None]
  /\ calls = {}
  /\ provider = None

Goto(e, p) == pc' = [pc EXCEPT ![e] = p]

-----------------------------------------------------------------------------
\* An execution begins and its module proposes a request.
Start(e, r) ==
  /\ pc[e] = "new"
  /\ Begin(e)
  /\ Goto(e, "running")
  /\ request' = [request EXCEPT ![e] = r]
  /\ UNCHANGED <<idempotent, row, answer, calls, provider>>

Expire ==
  /\ ExpireLease
  /\ UNCHANGED <<idempotent, row, pc, request, answer, calls, provider>>

Heartbeat ==
  /\ HeartbeatLease
  /\ UNCHANGED <<idempotent, row, pc, request, answer, calls, provider>>

-----------------------------------------------------------------------------
\* AccessBroker.effect, one action per store or adapter call.

\* _lookup_effect: a committed operation answers at once, and an operation
\* recorded for another request is denied.
Lookup(e) ==
  /\ pc[e] = "running"
  /\ Fence(e)
  /\ \/ /\ row.status # "NONE"
        /\ row.request # request[e]
        /\ Goto(e, "denied")
        /\ UNCHANGED answer
     \/ /\ row.status = "COMMITTED"
        /\ row.request = request[e]
        /\ Goto(e, "returned")
        /\ answer' = [answer EXCEPT ![e] = row.result]
     \/ /\ row.status \in {"NONE", "RESERVED", "ATTEMPTED"}
        /\ row.status # "NONE" => row.request = request[e]
        /\ Goto(e, "looked_up")
        /\ UNCHANGED answer
  /\ UNCHANGED <<executionVars, idempotent, row, request, calls, provider>>

\* The policy, approval and adapter checks before the reservation, the budget
\* charge and the approval evidence after it, or the contract of the response
\* deny the effect; or one of the store calls finds the fence closed.
Deny(e) ==
  /\ pc[e] \in {"looked_up", "reserved", "answered"}
  /\ Goto(e, "denied")
  /\ UNCHANGED <<executionVars, idempotent, row, request, answer, calls,
                 provider>>

\* Mutant: an attempted operation may always be attempted again.
AfterReserve_AlwaysRetry(e, op) ==
  IF op.request # request[e] THEN "denied"
  ELSE IF op.status = "COMMITTED" THEN "returned"
  ELSE "reserved"

\* What effect() does with the operation _reserve_effect returned.
AfterReserve(e, op) ==
  IF op.request # request[e] THEN "denied"
  ELSE IF op.status = "COMMITTED" THEN "returned"
  ELSE IF op.status = "ATTEMPTED" /\ ~idempotent THEN "denied"
  ELSE "reserved"

\* Mutant: a reservation replaces the request of the one it finds.
Reserved_Overwrite(e) ==
  IF row.status \in {"NONE", "RESERVED", "ATTEMPTED"}
  THEN [row EXCEPT !.status = IF @ = "NONE" THEN "RESERVED" ELSE @,
                   !.request = request[e]]
  ELSE row

\* INSERT ... ON CONFLICT DO NOTHING.
Reserved(e) ==
  IF row.status = "NONE"
  THEN [status |-> "RESERVED", request |-> request[e], result |-> None]
  ELSE row

Reserve(e) ==
  /\ pc[e] = "looked_up"
  /\ Fence(e)
  /\ row' = Reserved(e)
  /\ Goto(e, AfterReserve(e, row'))
  /\ answer' = IF AfterReserve(e, row') = "returned"
               THEN [answer EXCEPT ![e] = row'.result] ELSE answer
  /\ UNCHANGED <<executionVars, idempotent, request, calls, provider>>

\* _mark_effect_attempted returns a COMMITTED operation as it is; effect() does
\* not look at the status it gets back.
MarkAttempted(e) ==
  /\ pc[e] = "reserved"
  /\ Fence(e)
  /\ row' = IF row.status = "COMMITTED" THEN row
            ELSE [row EXCEPT !.status = "ATTEMPTED"]
  /\ Goto(e, "attempted")
  /\ UNCHANGED <<executionVars, idempotent, request, answer, calls, provider>>

\* The adapter is called without any fence.  It may answer, or raise although
\* the effect took place.  An idempotent adapter answers every call that has
\* the idempotency key of the operation alike.
CallAdapter(e, o) ==
  /\ pc[e] = "attempted"
  /\ calls' = calls \cup {e}
  /\ idempotent /\ provider # None => o = provider
  /\ provider' = IF idempotent THEN o ELSE provider
  /\ \/ /\ Goto(e, "answered")
        /\ answer' = [answer EXCEPT ![e] = o]
     \/ /\ Goto(e, "denied")
        /\ UNCHANGED answer
  /\ UNCHANGED <<executionVars, idempotent, row, request>>

\* Mutant: a committed result may differ from the one in hand.
Commit_NoCompare(e) ==
  /\ pc[e] = "answered"
  /\ Fence(e)
  /\ row' = IF row.status = "COMMITTED" THEN row
            ELSE [row EXCEPT !.status = "COMMITTED", !.result = answer[e]]
  /\ Goto(e, "returned")
  /\ UNCHANGED <<executionVars, idempotent, request, answer, calls, provider>>

\* _commit_effect: a second commit must bring the same result.
Commit(e) ==
  /\ pc[e] = "answered"
  /\ Fence(e)
  /\ \/ /\ row.status = "ATTEMPTED"
        /\ row' = [row EXCEPT !.status = "COMMITTED", !.result = answer[e]]
        /\ Goto(e, "returned")
     \/ /\ row.status = "COMMITTED"
        /\ UNCHANGED row
        /\ Goto(e, IF row.result = answer[e] THEN "returned" ELSE "denied")
  /\ UNCHANGED <<executionVars, idempotent, request, answer, calls, provider>>

-----------------------------------------------------------------------------
\* The end of an execution.  The module may have caught the broker's errors.

\* Mutant: the operations of the task are not looked at.
Verdict_Ungated == "accepted"

\* Mutant: a task with an uncommitted operation is left in no known status.
Verdict_Unknown == IF row.status \in {"NONE", "COMMITTED"} THEN "accepted" ELSE "unknown"

\* _complete_boundary accepts a task only if its operation is COMMITTED.
Verdict ==
  IF row.status \in {"NONE", "COMMITTED"} THEN "accepted" ELSE "failed"

Complete(e) ==
  /\ pc[e] \in {"running", "returned", "denied"}
  /\ Settle(e, Verdict)
  /\ Goto(e, "ended")
  /\ UNCHANGED <<idempotent, row, request, answer, calls, provider>>

Fail(e, retry) ==
  /\ pc[e] \in {"running", "returned", "denied"}
  /\ Abandon(e, retry)
  /\ Goto(e, "ended")
  /\ UNCHANGED <<idempotent, row, request, answer, calls, provider>>

RetryCommand ==
  /\ Reopen
  /\ UNCHANGED <<idempotent, row, pc, request, answer, calls, provider>>

Next ==
  \/ \E e \in Executions, r \in Requests : Start(e, r)
  \/ Expire
  \/ Heartbeat
  \/ \E e \in Executions : Lookup(e)
  \/ \E e \in Executions : Deny(e)
  \/ \E e \in Executions : Reserve(e)
  \/ \E e \in Executions : MarkAttempted(e)
  \/ \E e \in Executions, o \in Results : CallAdapter(e, o)
  \/ \E e \in Executions : Commit(e)
  \/ \E e \in Executions : Complete(e)
  \/ \E e \in Executions, retry \in BOOLEAN : Fail(e, retry)
  \/ RetryCommand

Spec == Init /\ [][Next]_vars

-----------------------------------------------------------------------------
(***************************************************************************)
(* Properties.                                                             *)
(***************************************************************************)

\* The name of a test: test_non_idempotent_adapter_is_never_called_on_unsafe_retry.
\* An adapter that is not idempotent is called at most once for the operation.
NonIdempotentCalledOnce ==
  ~idempotent => Cardinality(calls) <= 1

\* In the local posture that holds, whatever leases expire while the call is
\* under way and however often the task is retried: the fence lets one lease
\* holder at a time mark the operation, and the row stops the next one.
LocalCalledOnce == posture = "local" => NonIdempotentCalledOnce

\* All calls of the adapter carry the one request recorded for the operation,
\* although retries may propose another one.
OneRequestPerOperation ==
  \A e \in calls : row.request = request[e]

\* A task is accepted only with its effect unused or committed, never with a
\* call whose outcome is unknown, and the row stays that way although executions
\* that lost their lease may still be calling the adapter.
AcceptedEffectSettled ==
  task = "accepted" => row.status \in {"NONE", "COMMITTED"}

\* Every execution to which the broker returned a result has the committed
\* one: no two executions of the task continue with different results.
ReturnedIsCommitted ==
  \A e \in Executions :
    pc[e] = "returned" => row.status = "COMMITTED" /\ answer[e] = row.result

\* A committed operation never changes again: neither its result nor its
\* request is replaced, and it is not reopened by a late attempt.
CommittedOperationFinal ==
  [][row.status = "COMMITTED" => row' = row]_vars

=============================================================================
