-------------------------- MODULE EffectLedgerProofs --------------------------
(***************************************************************************)
(* Proofs about EffectLedger, for any number of executions, requests and   *)
(* results.                                                                *)
(***************************************************************************)
EXTENDS EffectLedger, FiniteSetTheorems, TLAPS

\* An execution past its reservation found its own request recorded; what has
\* called the adapter has passed the reservation.
RequestInv ==
  \A e \in Executions :
    /\ pc[e] \in {"reserved", "attempted", "answered"} \/ e \in calls =>
         /\ row.status # "NONE"
         /\ row.request = request[e]
    /\ e \in calls => pc[e] # "new"

\* Only an execution that is past marking may be calling, or have called.
MarkedInv ==
  row.status \in {"NONE", "RESERVED"} =>
    \A e \in Executions : pc[e] \notin {"attempted", "answered"} /\ e \notin calls

\* The execution is about to call the adapter, or has called it.
Calling(e) == pc[e] = "attempted" \/ e \in calls

\* Without idempotency, the lease holder that is about to mark the operation is
\* the first to do so, and no second execution gets as far as the call.
FirstCallInv ==
  posture = "local" /\ ~idempotent =>
    /\ \A e \in Executions :
         owner = e /\ pc[e] = "reserved" => row.status = "RESERVED"
    /\ \A e, f \in Executions : Calling(e) /\ Calling(f) => e = f

LedgerInv ==
  /\ TypeOK
  /\ RequestInv
  /\ MarkedInv
  /\ FirstCallInv
  /\ AcceptedEffectSettled
  /\ ReturnedIsCommitted

-----------------------------------------------------------------------------
LEMMA InitLedgerInv == Init => LedgerInv
<1> SUFFICES ASSUME Init PROVE LedgerInv
    OBVIOUS
<1> USE ExecutionAssumption, LedgerAssumption DEF Init, ExecutionInit
<1>1. TypeOK
  BY DEF TypeOK, ExecutionTypeOK, RowStatus, PC
<1>2. RequestInv /\ MarkedInv
  BY DEF RequestInv, MarkedInv
<1>3. FirstCallInv
  BY DEF FirstCallInv, Calling
<1>4. AcceptedEffectSettled /\ ReturnedIsCommitted
  BY DEF AcceptedEffectSettled, ReturnedIsCommitted
<1> QED
  BY <1>1, <1>2, <1>3, <1>4 DEF LedgerInv

\* Every step keeps the invariant.  The row changes only under the fence, in
\* Reserve, MarkAttempted and Commit; only MarkAttempted makes an execution a
\* caller, and FirstCallInv with MarkedInv says that it is then the only one.
LEMMA LedgerStep == LedgerInv /\ [Next]_vars => LedgerInv'
<1> SUFFICES ASSUME LedgerInv, [Next]_vars PROVE LedgerInv'
    OBVIOUS
<1> USE ExecutionAssumption, LedgerAssumption DEF LedgerInv
<1>1. ASSUME NEW e \in Executions, NEW r \in Requests, Start(e, r)
      PROVE LedgerInv'
  <2>1. TypeOK'
    BY <1>1, Zenon DEF Start, Goto, Begin, TypeOK, ExecutionTypeOK, RowStatus, PC
  <2>2. RequestInv' /\ MarkedInv' /\ FirstCallInv'
    BY <1>1 DEF Start, Goto, Begin, TypeOK, ExecutionTypeOK, RowStatus,
       RequestInv, MarkedInv, FirstCallInv, Calling
  <2>3. AcceptedEffectSettled' /\ ReturnedIsCommitted'
    BY <1>1 DEF Start, Goto, Begin, TypeOK, RowStatus, AcceptedEffectSettled,
       ReturnedIsCommitted
  <2> QED
    BY <2>1, <2>2, <2>3
<1>2. CASE Expire
  BY <1>2, ZenonT(60) DEF Expire, ExpireLease, TypeOK, ExecutionTypeOK, RowStatus, PC,
     RequestInv, MarkedInv, FirstCallInv, Calling, AcceptedEffectSettled,
     ReturnedIsCommitted
<1>3. CASE Heartbeat
  BY <1>3 DEF Heartbeat, HeartbeatLease, TypeOK, ExecutionTypeOK, RowStatus,
     PC, RequestInv, MarkedInv, FirstCallInv, Calling, AcceptedEffectSettled,
     ReturnedIsCommitted
<1>4. ASSUME NEW e \in Executions, Lookup(e)
      PROVE LedgerInv'
  <2>1. TypeOK'
    BY <1>4 DEF Lookup, Goto, executionVars, TypeOK, ExecutionTypeOK,
       RowStatus, PC
  <2>2. RequestInv' /\ MarkedInv' /\ FirstCallInv'
    BY <1>4 DEF Lookup, Goto, executionVars, TypeOK, ExecutionTypeOK,
       RowStatus, RequestInv, MarkedInv, FirstCallInv, Calling
  <2>3. AcceptedEffectSettled' /\ ReturnedIsCommitted'
    BY <1>4 DEF Lookup, Goto, executionVars, TypeOK, RowStatus,
       AcceptedEffectSettled, ReturnedIsCommitted
  <2> QED
    BY <2>1, <2>2, <2>3
<1>5. ASSUME NEW e \in Executions, Deny(e)
      PROVE LedgerInv'
  <2>1. TypeOK'
    BY <1>5 DEF Deny, Goto, executionVars, TypeOK, ExecutionTypeOK, RowStatus,
       PC
  <2>2. RequestInv' /\ MarkedInv' /\ FirstCallInv'
    BY <1>5 DEF Deny, Goto, executionVars, TypeOK, ExecutionTypeOK, RowStatus,
       RequestInv, MarkedInv, FirstCallInv, Calling
  <2>3. AcceptedEffectSettled' /\ ReturnedIsCommitted'
    BY <1>5 DEF Deny, Goto, executionVars, TypeOK, RowStatus,
       AcceptedEffectSettled, ReturnedIsCommitted
  <2> QED
    BY <2>1, <2>2, <2>3
<1>6. ASSUME NEW e \in Executions, Reserve(e)
      PROVE LedgerInv'
  <2>1. TypeOK'
    BY <1>6 DEF Reserve, Goto, Fence, Reserved, AfterReserve, executionVars,
       TypeOK, ExecutionTypeOK, RowStatus, PC
  <2>2. RequestInv' /\ MarkedInv'
    BY <1>6 DEF Reserve, Goto, Fence, Reserved, AfterReserve, executionVars,
       TypeOK, RequestInv, MarkedInv
  <2>3. FirstCallInv'
    BY <1>6 DEF Reserve, Goto, Fence, Reserved, AfterReserve, executionVars,
       TypeOK, ExecutionTypeOK, RowStatus, RequestInv, MarkedInv,
       FirstCallInv, Calling
  <2>4. AcceptedEffectSettled' /\ ReturnedIsCommitted'
    BY <1>6 DEF Reserve, Goto, Fence, Reserved, AfterReserve, executionVars,
       TypeOK, RowStatus, AcceptedEffectSettled, ReturnedIsCommitted
  <2> QED
    BY <2>1, <2>2, <2>3, <2>4
<1>7. ASSUME NEW e \in Executions, MarkAttempted(e)
      PROVE LedgerInv'
  <2>1. TypeOK'
    BY <1>7 DEF MarkAttempted, Goto, Fence, executionVars, TypeOK,
       ExecutionTypeOK, RowStatus, PC
  <2>2. RequestInv' /\ MarkedInv'
    BY <1>7 DEF MarkAttempted, Goto, Fence, executionVars, TypeOK, RequestInv,
       MarkedInv
  <2>3. FirstCallInv'
    BY <1>7 DEF MarkAttempted, Goto, Fence, executionVars, TypeOK,
       ExecutionTypeOK, RowStatus, RequestInv, MarkedInv, FirstCallInv,
       Calling
  <2>4. AcceptedEffectSettled' /\ ReturnedIsCommitted'
    BY <1>7 DEF MarkAttempted, Goto, Fence, executionVars, TypeOK, RowStatus,
       AcceptedEffectSettled, ReturnedIsCommitted
  <2> QED
    BY <2>1, <2>2, <2>3, <2>4
<1>8. ASSUME NEW e \in Executions, NEW o \in Results, CallAdapter(e, o)
      PROVE LedgerInv'
  <2>1. TypeOK'
    BY <1>8 DEF CallAdapter, Goto, executionVars, TypeOK, ExecutionTypeOK,
       RowStatus, PC
  <2>2. RequestInv' /\ MarkedInv' /\ FirstCallInv'
    BY <1>8 DEF CallAdapter, Goto, executionVars, TypeOK, ExecutionTypeOK,
       RowStatus, RequestInv, MarkedInv, FirstCallInv, Calling
  <2>3. AcceptedEffectSettled' /\ ReturnedIsCommitted'
    BY <1>8 DEF CallAdapter, Goto, executionVars, TypeOK, RowStatus,
       AcceptedEffectSettled, ReturnedIsCommitted
  <2> QED
    BY <2>1, <2>2, <2>3
<1>9. ASSUME NEW e \in Executions, Commit(e)
      PROVE LedgerInv'
  <2>1. TypeOK'
    BY <1>9, ZenonT(60) DEF Commit, Goto, Fence, executionVars, TypeOK, ExecutionTypeOK,
       RowStatus, PC
  <2>2. RequestInv' /\ MarkedInv'
    BY <1>9, ZenonT(60) DEF Commit, Goto, Fence, executionVars, TypeOK, RequestInv,
       MarkedInv
  <2>3. FirstCallInv'
    BY <1>9 DEF Commit, Goto, Fence, executionVars, TypeOK, ExecutionTypeOK,
       RowStatus, RequestInv, MarkedInv, FirstCallInv, Calling
  <2>4. AcceptedEffectSettled' /\ ReturnedIsCommitted'
    BY <1>9, ZenonT(60) DEF Commit, Goto, Fence, executionVars, TypeOK, RowStatus,
       AcceptedEffectSettled, ReturnedIsCommitted
  <2> QED
    BY <2>1, <2>2, <2>3, <2>4
<1>10. ASSUME NEW e \in Executions, Complete(e)
      PROVE LedgerInv'
  <2>1. TypeOK'
    BY <1>10 DEF Complete, Goto, Settle, Verdict, TypeOK, ExecutionTypeOK,
       RowStatus, PC
  <2>2. RequestInv' /\ MarkedInv' /\ FirstCallInv'
    BY <1>10 DEF Complete, Goto, Settle, Verdict, TypeOK, ExecutionTypeOK,
       RowStatus, RequestInv, MarkedInv, FirstCallInv, Calling
  <2>3. AcceptedEffectSettled' /\ ReturnedIsCommitted'
    BY <1>10 DEF Complete, Goto, Settle, Verdict, TypeOK, RowStatus,
       AcceptedEffectSettled, ReturnedIsCommitted
  <2> QED
    BY <2>1, <2>2, <2>3
<1>11. ASSUME NEW e \in Executions, NEW retry \in BOOLEAN, Fail(e, retry)
      PROVE LedgerInv'
  <2>1. TypeOK'
    BY <1>11, Zenon DEF Fail, Goto, Abandon, Fence, TypeOK, ExecutionTypeOK,
       RowStatus, PC
  <2>2. RequestInv' /\ MarkedInv' /\ FirstCallInv'
    BY <1>11 DEF Fail, Goto, Abandon, Fence, TypeOK, ExecutionTypeOK,
       RowStatus, RequestInv, MarkedInv, FirstCallInv, Calling
  <2>3. AcceptedEffectSettled' /\ ReturnedIsCommitted'
    BY <1>11 DEF Fail, Goto, Abandon, Fence, TypeOK, RowStatus,
       AcceptedEffectSettled, ReturnedIsCommitted
  <2> QED
    BY <2>1, <2>2, <2>3
<1>12. CASE RetryCommand
  BY <1>12 DEF RetryCommand, Reopen, TypeOK, ExecutionTypeOK, RowStatus, PC,
     RequestInv, MarkedInv, FirstCallInv, Calling, AcceptedEffectSettled,
     ReturnedIsCommitted
<1>13. CASE UNCHANGED vars
  BY <1>13 DEF vars, executionVars, TypeOK, ExecutionTypeOK, RowStatus, PC,
     RequestInv, MarkedInv, FirstCallInv, Calling, AcceptedEffectSettled,
     ReturnedIsCommitted
<1> QED
  BY <1>1, <1>2, <1>3, <1>4, <1>5, <1>6, <1>7, <1>8, <1>9, <1>10, <1>11,
     <1>12, <1>13 DEF Next

\* The inductive invariant holds in every reachable state, in both postures.
THEOREM LedgerInvariant == Spec => []LedgerInv
  BY InitLedgerInv, LedgerStep, PTL DEF Spec

-----------------------------------------------------------------------------
\* Every variable of the ledger keeps its type: the type invariant of
\* the run effect, for all constants.
THEOREM LedgerTyped == Spec => []TypeOK
  BY LedgerInvariant, PTL DEF LedgerInv

\* Under the local posture an adapter that is not idempotent is called at most
\* once, for any number of attempts that lose their lease at any point.  (In the
\* external posture it is not: two deliveries may both call.)
THEOREM LedgerCalledOnce == Spec => []LocalCalledOnce
<1>1. LedgerInv => LocalCalledOnce
  <2> SUFFICES ASSUME LedgerInv, posture = "local", ~idempotent
               PROVE Cardinality(calls) <= 1
      BY DEF LocalCalledOnce, NonIdempotentCalledOnce
  <2>1. CASE calls = {}
    BY <2>1, FS_EmptySet
  <2>2. CASE calls # {}
    <3>1. PICK e \in calls : TRUE
      BY <2>2
    <3>2. calls = {e}
      BY <3>1 DEF LedgerInv, TypeOK, FirstCallInv, Calling
    <3> QED
      BY <3>2, FS_Singleton, SMTT(30)
  <2> QED
    BY <2>1, <2>2
<1> QED
  BY <1>1, LedgerInvariant, PTL

\* Every call of the adapter, by whatever attempt or delivery, carries the
\* request that _reserve_effect recorded first.
THEOREM LedgerOneRequest == Spec => []OneRequestPerOperation
<1>1. LedgerInv => OneRequestPerOperation
  BY DEF LedgerInv, TypeOK, RequestInv, OneRequestPerOperation
<1> QED
  BY <1>1, LedgerInvariant, PTL

\* _complete_boundary never accepts a task whose effect has an unknown outcome,
\* and nothing reopens the effect afterwards.
THEOREM LedgerAcceptedSettled == Spec => []AcceptedEffectSettled
  BY LedgerInvariant, PTL DEF LedgerInv

\* Whatever the broker returned to an execution is the committed result.
THEOREM LedgerReturnedCommitted == Spec => []ReturnedIsCommitted
  BY LedgerInvariant, PTL DEF LedgerInv

\* _reserve_effect, _mark_effect_attempted and _commit_effect leave a committed
\* operation as it is, whoever calls them and however late.
THEOREM LedgerCommittedFinal == Spec => CommittedOperationFinal
<1>1. [Next]_vars => [row.status = "COMMITTED" => row' = row]_vars
  BY DEF Next, vars, Start, Expire, Heartbeat, Lookup, Deny, Reserve, Reserved,
         MarkAttempted, CallAdapter, Commit, Complete, Fail, RetryCommand
<1> QED
  BY <1>1, PTL DEF Spec, CommittedOperationFinal

\* The attempts and deliveries that the ledger meets are executions as Execution has
\* them, and so are those of every task of the harness (HarnessImplementsExecution).
THEOREM LedgerExecutions == Spec => ExecutionSpec
<1>1. Init => ExecutionInit BY DEF Init
<1>2. LedgerInv /\ [Next]_vars => [ExecutionNext]_executionVars
  <2> SUFFICES ASSUME LedgerInv, [Next]_vars PROVE [ExecutionNext]_executionVars OBVIOUS
  <2> USE DEF ExecutionNext
  <2>1. CASE UNCHANGED vars BY <2>1 DEF vars
  <2>2. CASE Expire \/ Heartbeat \/ RetryCommand BY <2>2 DEF Expire, Heartbeat, RetryCommand
  <2>3. ASSUME NEW e \in Executions, NEW r \in Requests, Start(e, r) PROVE ExecutionNext
    BY <2>3 DEF Start
  <2>4. ASSUME NEW e \in Executions, Complete(e) PROVE ExecutionNext
    BY <2>4 DEF Complete, Verdict
  <2>5. ASSUME NEW e \in Executions, NEW retry \in BOOLEAN, Fail(e, retry) PROVE ExecutionNext
    BY <2>5 DEF Fail
  <2>6. ASSUME NEW e \in Executions,
               \/ Lookup(e) \/ Deny(e) \/ Reserve(e) \/ MarkAttempted(e) \/ Commit(e)
               \/ \E o \in Results : CallAdapter(e, o)
        PROVE  UNCHANGED executionVars
    BY <2>6 DEF Lookup, Deny, Reserve, Reserved, MarkAttempted, Commit, CallAdapter
  <2> QED BY <2>1, <2>2, <2>3, <2>4, <2>5, <2>6 DEF Next
<1> QED BY <1>1, <1>2, LedgerInvariant, PTL DEF Spec, ExecutionSpec

=============================================================================
