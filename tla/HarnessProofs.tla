---------------------------- MODULE HarnessProofs ----------------------------
(***************************************************************************)
(* Proofs about TaskStore, for every set of tasks, commands and outputs    *)
(* and every bound on attempts, and then about the processes that execute  *)
(* tasks, for any number of workers, deliveries, answers and faults.       *)
(***************************************************************************)
EXTENDS Harness, SetLemmas, FiniteSetTheorems, TLAPS

\* Attempt rows are numbered without gaps and the lease and the external
\* reservation refer to existing rows: the row a claim or a reservation inserts
\* was free, so it is not the lease, the reservation or an accepted attempt of
\* the task.
NumberingInv ==
  \A t \in Tasks :
    /\ \A n \in Attempts : attemptStatus[t][n] = "NONE" <=> n > lastAttempt[t]
    /\ external[t] <= lastAttempt[t]
    /\ lease[t] <= lastAttempt[t]

\* Only the cancellation of its run cancels a task.
CancelledWithRun ==
  \A t \in Tasks : taskStatus[t] = "CANCELLED" => runStatus = "CANCELLED"

\* How the task row, the attempt rows and the run row agree with one another.
RowsInv ==
  /\ NumberingInv
  /\ LeaseExclusive
  /\ AcceptedEvidence
  /\ CancelledRunIsQuiet
  /\ CancelledWithRun

\* The inductive invariant of the store.
StoreInv == TypeOK /\ RowsInv

-----------------------------------------------------------------------------
\* The initial state of a run, as create_run commits it, satisfies StoreInv.
LEMMA InitStoreInv == Init => StoreInv
<1> SUFFICES ASSUME Init PROVE StoreInv
  OBVIOUS
<1> USE StoreAssumption DEF Init, Attempts
<1>1. TypeOK
  <2>1. /\ runStatus \in RunStatus
        /\ taskStatus \in [Tasks -> TaskStatus]
        /\ attemptStatus \in [Tasks -> [Attempts -> AttemptStatus]]
    BY DEF RunStatus, TaskStatus, AttemptStatus
  <2>2. /\ lease \in [Tasks -> 0 .. AttemptBound]
        /\ lastAttempt \in [Tasks -> 0 .. AttemptBound]
        /\ external \in [Tasks -> 0 .. AttemptBound]
    OBVIOUS
  <2>3. accepted \in [Tasks -> [attempt : 0 .. AttemptBound,
                               output : Outputs \cup {NoOutput}]]
    BY DEF NotAccepted
  <2>4. /\ leaseLive \in [Tasks -> BOOLEAN]
        /\ counted \in BOOLEAN
    OBVIOUS
  <2>5. /\ checkpoints \in [Tasks -> SUBSET Attempts]
        /\ usedCommands \in SUBSET CommandIds
    OBVIOUS
  <2> QED BY <2>1, <2>2, <2>3, <2>4, <2>5 DEF TypeOK
<1>a. \A t \in Tasks :
        /\ lease[t] = 0 /\ lastAttempt[t] = 0 /\ external[t] = 0
        /\ taskStatus[t] = "ABSENT"
        /\ accepted[t].attempt = 0
        /\ \A n \in Attempts : attemptStatus[t][n] = "NONE"
  BY DEF NotAccepted
<1>b. \A n \in Attempts : n \in Nat /\ n > 0 /\ n # 0
  OBVIOUS
<1>2. NumberingInv
  <2> SUFFICES ASSUME NEW t \in Tasks
               PROVE  /\ \A n \in Attempts :
                           attemptStatus[t][n] = "NONE" <=> n > lastAttempt[t]
                      /\ external[t] <= lastAttempt[t]
                      /\ lease[t] <= lastAttempt[t]
    BY DEF NumberingInv
  <2>1. lastAttempt[t] = 0 /\ external[t] = 0 /\ lease[t] = 0
    BY ONLY <1>a
  <2>2. external[t] <= lastAttempt[t] /\ lease[t] <= lastAttempt[t]
    BY ONLY <2>1
  <2>3. ASSUME NEW n \in Attempts
        PROVE  attemptStatus[t][n] = "NONE" /\ n > lastAttempt[t]
    BY ONLY <1>a, <1>b, <2>1, <2>3
  <2> QED BY ONLY <2>2, <2>3
<1>3. LeaseExclusive
  BY ONLY <1>a DEF LeaseExclusive, LiveAttempt
<1>4. AcceptedEvidence
  BY ONLY <1>a, <1>b DEF AcceptedEvidence
<1>5. CancelledRunIsQuiet
  BY DEF CancelledRunIsQuiet
<1>6. CancelledWithRun
  BY DEF CancelledWithRun
<1> QED BY <1>1, <1>2, <1>3, <1>4, <1>5, <1>6 DEF StoreInv, RowsInv

-----------------------------------------------------------------------------
\* Every transaction of the store keeps the types of its rows.
LEMMA TypeStep == TypeOK /\ [Next]_vars => TypeOK'
<1> SUFFICES ASSUME TypeOK, [Next]_vars PROVE TypeOK'
  OBVIOUS
<1> USE StoreAssumption DEF TypeOK, Attempts, RunStatus, TaskStatus, Awaiting,
        AttemptStatus, SetTask, SetAttempt, GrantLease, ReleaseLease
<1>1. CASE SchedulerStep
  BY <1>1, ZenonT(60) DEF SchedulerStep, EnqueueTask, ReadyTask, CompleteRunCount,
     CompleteRun, FailRun
<1>2. CASE WorkerStep
  <2>1. ASSUME NEW t \in Tasks, ClaimTask(t) PROVE TypeOK'
    <3>1. lastAttempt[t] + 1 \in Attempts
      BY <2>1 DEF ClaimTask
    <3>2. ClaimedRows(t, lastAttempt[t] + 1) \in [Attempts -> AttemptStatus]
      BY DEF ClaimedRows
    <3> QED BY <2>1, <3>1, <3>2 DEF ClaimTask
  <2>2. ASSUME NEW t \in Tasks, LeaseExpires(t) PROVE TypeOK'
    BY <2>2 DEF LeaseExpires
  <2>3. ASSUME NEW t \in Tasks, StartExternalExecution(t) PROVE TypeOK'
    <3>1. CASE ReserveExternal(t)
      <4>1. lastAttempt[t] + 1 \in Attempts
        BY <3>1 DEF ReserveExternal
      <4> QED BY <2>3, <3>1, <4>1 DEF StartExternalExecution, ReserveExternal
    <3>2. CASE ResumeExternal(t)
      <4>1. external[t] \in Attempts
        BY <3>2 DEF ResumeExternal
      <4> QED BY <2>3, <3>2, <4>1 DEF StartExternalExecution, ResumeExternal
    <3> QED BY <2>3, <3>1, <3>2 DEF StartExternalExecution
  <2>4. ASSUME NEW t \in Tasks, NEW n \in Attempts, StartTask(t, n) PROVE TypeOK'
    BY <2>4 DEF StartTask
  <2>5. ASSUME NEW t \in Tasks, NEW n \in Attempts, HeartbeatTask(t, n) PROVE TypeOK'
    BY <2>5 DEF HeartbeatTask
  <2>6. ASSUME NEW t \in Tasks, NEW n \in Attempts, CheckpointTask(t, n) PROVE TypeOK'
    BY <2>6 DEF CheckpointTask
  <2>7. ASSUME NEW t \in Tasks, NEW n \in Attempts, NEW o \in Outputs,
               CompleteBoundary(t, n, o)
        PROVE TypeOK'
    BY <2>7 DEF CompleteBoundary
  <2>8. ASSUME NEW t \in Tasks, NEW n \in Attempts, RejectBoundary(t, n) PROVE TypeOK'
    BY <2>8 DEF RejectBoundary
  <2>9. ASSUME NEW t \in Tasks, NEW n \in Attempts, NEW r \in BOOLEAN,
               FailTask(t, n, r)
        PROVE TypeOK'
    BY <2>9 DEF FailTask
  <2>10. ASSUME NEW t \in Tasks, NEW n \in Attempts, NEW s \in Awaiting,
                ParkBoundary(t, n, s)
         PROVE TypeOK'
    <3>1. s \in TaskStatus
      OBVIOUS
    <3> QED BY <2>10, <3>1 DEF ParkBoundary
  <2> HIDE DEF TypeOK, Awaiting
  <2> QED
    BY <1>2, <2>1, <2>2, <2>3, <2>4, <2>5, <2>6, <2>7, <2>8, <2>9, <2>10
       DEF WorkerStep
<1>3. CASE CommandStep
  <2>1. ASSUME NEW c \in CommandIds, CancelCommand(c) PROVE TypeOK'
    <3>1. /\ runStatus' \in RunStatus
          /\ usedCommands' \in SUBSET CommandIds
          /\ taskStatus' \in [Tasks -> TaskStatus]
      BY <2>1 DEF CancelCommand, Fresh
    <3>2. lease' \in [Tasks -> 0 .. AttemptBound]
      BY <2>1 DEF CancelCommand
    <3>4. leaseLive' \in [Tasks -> BOOLEAN]
      BY <2>1 DEF CancelCommand
    <3>3. attemptStatus' \in [Tasks -> [Attempts -> AttemptStatus]]
      BY <2>1 DEF CancelCommand
    <3> QED BY <2>1, <3>1, <3>2, <3>3, <3>4 DEF CancelCommand
  <2> QED
    BY <1>3, <2>1, ZenonT(60) DEF CommandStep, Fresh, PauseCommand, ResumeCommand,
       SignalCommand, RetryCommand, ResolveCommand
<1>4. CASE UNCHANGED vars
  BY <1>4 DEF vars
<1> QED BY <1>1, <1>2, <1>3, <1>4 DEF Next

\* The rows of the store always have the types the schema gives them, whatever
\* the interleaving of schedulers, workers, deliveries and commands.
THEOREM StoreTyped == Spec => []TypeOK
<1>1. Init => TypeOK
  BY InitStoreInv DEF StoreInv
<1> QED BY <1>1, TypeStep, PTL DEF Spec

-----------------------------------------------------------------------------
\* Every transaction keeps the task row, the attempt rows and the run row in
\* agreement.  One step per transaction; the first one takes together those
\* that touch none of the rows RowsInv speaks of.
LEMMA RowsStep == StoreInv /\ [Next]_vars => RowsInv'
<1> SUFFICES ASSUME StoreInv, [Next]_vars PROVE RowsInv'
  OBVIOUS
<1> USE StoreAssumption
    DEF StoreInv, RowsInv, TypeOK, Attempts, RunStatus, TaskStatus, Awaiting,
        AttemptStatus, LiveAttempt, Unfinished, ActiveRun, SetTask, SetAttempt
<1>1. ASSUME UNCHANGED <<taskStatus, lease, attemptStatus, lastAttempt,
                         external, accepted>>,
             runStatus' = "CANCELLED" <=> runStatus = "CANCELLED"
      PROVE  RowsInv'
  <2>1. NumberingInv' /\ LeaseExclusive' /\ AcceptedEvidence'
    BY <1>1 DEF NumberingInv, LeaseExclusive, AcceptedEvidence
  <2>2. CancelledRunIsQuiet' /\ CancelledWithRun'
    BY <1>1 DEF CancelledRunIsQuiet, CancelledWithRun
  <2> QED BY <2>1, <2>2
<1>2. ASSUME NEW t \in Tasks, NEW s \in {"READY", "BLOCKED"},
             EnqueueTask(t, s)
      PROVE  RowsInv'
  <2>1. NumberingInv'
    BY <1>2 DEF EnqueueTask, NumberingInv
  <2>2. LeaseExclusive'
    BY <1>2 DEF EnqueueTask, LeaseExclusive
  <2>3. AcceptedEvidence'
    BY <1>2 DEF EnqueueTask, AcceptedEvidence
  <2>4. CancelledRunIsQuiet' /\ CancelledWithRun'
    BY <1>2 DEF EnqueueTask, CancelledRunIsQuiet, CancelledWithRun
  <2> QED BY <2>1, <2>2, <2>3, <2>4
<1>3. ASSUME NEW t \in Tasks, ReadyTask(t)
      PROVE  RowsInv'
  <2>1. NumberingInv'
    BY <1>3 DEF ReadyTask, NumberingInv
  <2>2. LeaseExclusive'
    BY <1>3 DEF ReadyTask, LeaseExclusive
  <2>3. AcceptedEvidence'
    BY <1>3 DEF ReadyTask, AcceptedEvidence
  <2>4. CancelledRunIsQuiet' /\ CancelledWithRun'
    BY <1>3 DEF ReadyTask, CancelledRunIsQuiet, CancelledWithRun
  <2> QED BY <2>1, <2>2, <2>3, <2>4
<1>4. ASSUME NEW c \in CommandIds, NEW t \in Tasks, RetryCommand(c, t)
      PROVE  RowsInv'
  <2>1. NumberingInv'
    BY <1>4 DEF RetryCommand, Fresh, NumberingInv
  <2>2. LeaseExclusive'
    BY <1>4 DEF RetryCommand, Fresh, LeaseExclusive
  <2>3. AcceptedEvidence'
    BY <1>4 DEF RetryCommand, Fresh, AcceptedEvidence
  <2>4. CancelledRunIsQuiet' /\ CancelledWithRun'
    BY <1>4 DEF RetryCommand, Fresh, CancelledRunIsQuiet, CancelledWithRun
  <2> QED BY <2>1, <2>2, <2>3, <2>4
<1>5. ASSUME NEW c \in CommandIds, NEW t \in Tasks, ResolveCommand(c, t)
      PROVE  RowsInv'
  <2>1. NumberingInv'
    BY <1>5 DEF ResolveCommand, Fresh, NumberingInv
  <2>2. LeaseExclusive'
    BY <1>5 DEF ResolveCommand, Fresh, LeaseExclusive
  <2>3. AcceptedEvidence'
    BY <1>5 DEF ResolveCommand, Fresh, AcceptedEvidence
  <2>4. CancelledRunIsQuiet' /\ CancelledWithRun'
    BY <1>5 DEF ResolveCommand, Fresh, CancelledRunIsQuiet, CancelledWithRun
  <2> QED BY <2>1, <2>2, <2>3, <2>4
<1>6. ASSUME NEW t \in Tasks, ClaimTask(t)
      PROVE  RowsInv'
  <2>1. NumberingInv'
    BY <1>6, SMTT(30)
       DEF ClaimTask, Claimable, ClaimedRows, GrantLease, NumberingInv
  <2>2. LeaseExclusive'
    BY <1>6, SMTT(30)
       DEF ClaimTask, Claimable, ClaimedRows, GrantLease, LeaseExclusive,
           NumberingInv
  <2>3. AcceptedEvidence'
    BY <1>6
       DEF ClaimTask, Claimable, ClaimedRows, GrantLease, AcceptedEvidence,
           NumberingInv, LeaseExclusive
  <2>4. CancelledRunIsQuiet' /\ CancelledWithRun'
    BY <1>6
       DEF ClaimTask, Claimable, ClaimedRows, GrantLease, CancelledRunIsQuiet,
           CancelledWithRun, LeaseExclusive
  <2> QED BY <2>1, <2>2, <2>3, <2>4
<1>7. ASSUME NEW t \in Tasks, NEW n \in Attempts, StartTask(t, n)
      PROVE  RowsInv'
  <2>1. NumberingInv'
    BY <1>7 DEF StartTask, Startable, NumberingInv
  <2>2. LeaseExclusive'
    BY <1>7 DEF StartTask, Startable, LeaseExclusive, NumberingInv
  <2>3. AcceptedEvidence'
    BY <1>7 DEF StartTask, Startable, AcceptedEvidence, NumberingInv, LeaseExclusive
  <2>4. CancelledRunIsQuiet' /\ CancelledWithRun'
    BY <1>7 DEF StartTask, Startable, CancelledRunIsQuiet, CancelledWithRun, LeaseExclusive
  <2> QED BY <2>1, <2>2, <2>3, <2>4
<1>8. ASSUME NEW t \in Tasks, StartExternalExecution(t)
      PROVE  RowsInv'
  <2>1. CASE ReserveExternal(t)
    <3> DEFINE new == lastAttempt[t] + 1
    <3>1. new \in Attempts /\ attemptStatus[t][new] = "NONE"
      BY <2>1 DEF ReserveExternal, NumberingInv
    <3>2. /\ external' = [external EXCEPT ![t] = new]
          /\ lastAttempt' = [lastAttempt EXCEPT ![t] = new]
          /\ attemptStatus' = [attemptStatus EXCEPT ![t][new] = "RUNNING"]
          /\ UNCHANGED <<runStatus, taskStatus, lease, accepted>>
          /\ external[t] = 0 /\ runStatus = "RUNNING"
          /\ taskStatus[t] = "READY" /\ lease[t] = 0
      BY <1>8, <2>1 DEF StartExternalExecution, ExternalStartable,
         ReserveExternal
    <3>3. NumberingInv'
      BY <3>1, <3>2 DEF NumberingInv
    <3> HIDE DEF new
    <3>4. LeaseExclusive'
      BY <3>1, <3>2 DEF LeaseExclusive
    <3>5. AcceptedEvidence'
      BY <3>1, <3>2 DEF AcceptedEvidence
    <3>6. CancelledRunIsQuiet' /\ CancelledWithRun'
      BY <3>2 DEF CancelledRunIsQuiet, CancelledWithRun
    <3> QED BY <3>3, <3>4, <3>5, <3>6
  <2>2. CASE ResumeExternal(t)
    <3> DEFINE old == external[t]
    <3>1. old \in Attempts /\ attemptStatus[t][old] = "PARKED"
      BY <2>2 DEF ResumeExternal
    <3>2. /\ attemptStatus' = [attemptStatus EXCEPT ![t][old] = "RUNNING"]
          /\ UNCHANGED <<runStatus, taskStatus, lease, accepted, external,
                         lastAttempt>>
          /\ runStatus = "RUNNING"
          /\ taskStatus[t] = "READY" /\ lease[t] = 0
      BY <1>8, <2>2 DEF StartExternalExecution, ExternalStartable,
         ResumeExternal
    <3>3. LeaseExclusive'
      BY <3>1, <3>2 DEF LeaseExclusive
    <3> HIDE DEF old
    <3>4. NumberingInv'
      BY <3>1, <3>2 DEF NumberingInv
    <3>5. AcceptedEvidence'
      BY <3>1, <3>2 DEF AcceptedEvidence
    <3>6. CancelledRunIsQuiet' /\ CancelledWithRun'
      BY <3>2 DEF CancelledRunIsQuiet, CancelledWithRun
    <3> QED BY <3>3, <3>4, <3>5, <3>6
  <2> QED BY <1>8, <2>1, <2>2 DEF StartExternalExecution
<1>9. ASSUME NEW t \in Tasks, NEW n \in Attempts, NEW o \in Outputs,
             CompleteBoundary(t, n, o)
      PROVE  RowsInv'
  <2>1. NumberingInv'
    BY <1>9
       DEF CompleteBoundary, BoundaryFence, LocalFence, ExternalFence,
           ReleaseLease, NumberingInv
  <2>2. LeaseExclusive'
    BY <1>9, SMTT(30)
       DEF CompleteBoundary, BoundaryFence, LocalFence, ExternalFence,
           ReleaseLease, LeaseExclusive, NumberingInv
  <2>3. AcceptedEvidence'
    BY <1>9
       DEF CompleteBoundary, BoundaryFence, LocalFence, ExternalFence,
           ReleaseLease, AcceptedEvidence, NumberingInv, LeaseExclusive
  <2>4. CancelledRunIsQuiet' /\ CancelledWithRun'
    BY <1>9
       DEF CompleteBoundary, BoundaryFence, LocalFence, ExternalFence,
           ReleaseLease, CancelledRunIsQuiet, CancelledWithRun, LeaseExclusive
  <2> QED BY <2>1, <2>2, <2>3, <2>4
<1>10. ASSUME NEW t \in Tasks, NEW n \in Attempts, RejectBoundary(t, n)
      PROVE  RowsInv'
  <2>1. NumberingInv'
    BY <1>10
       DEF RejectBoundary, BoundaryFence, LocalFence, ExternalFence,
           ReleaseLease, NumberingInv
  <2>2. LeaseExclusive'
    BY <1>10
       DEF RejectBoundary, BoundaryFence, LocalFence, ExternalFence,
           ReleaseLease, LeaseExclusive, NumberingInv
  <2>3. AcceptedEvidence'
    BY <1>10, SMTT(30)
       DEF RejectBoundary, BoundaryFence, LocalFence, ExternalFence,
           ReleaseLease, AcceptedEvidence, NumberingInv, LeaseExclusive
  <2>4. CancelledRunIsQuiet' /\ CancelledWithRun'
    BY <1>10
       DEF RejectBoundary, BoundaryFence, LocalFence, ExternalFence,
           ReleaseLease, CancelledRunIsQuiet, CancelledWithRun, LeaseExclusive
  <2> QED BY <2>1, <2>2, <2>3, <2>4
<1>11. ASSUME NEW t \in Tasks, NEW n \in Attempts, NEW r \in BOOLEAN,
             FailTask(t, n, r)
      PROVE  RowsInv'
  <2>1. NumberingInv'
    BY <1>11 DEF FailTask, OwnsLease, ReleaseLease, NumberingInv
  <2>2. LeaseExclusive'
    BY <1>11, SMTT(30) DEF FailTask, OwnsLease, ReleaseLease, LeaseExclusive, NumberingInv
  <2>3. AcceptedEvidence'
    BY <1>11, SMTT(30)
       DEF FailTask, OwnsLease, ReleaseLease, AcceptedEvidence, NumberingInv,
           LeaseExclusive
  <2>4. CancelledRunIsQuiet' /\ CancelledWithRun'
    BY <1>11
       DEF FailTask, OwnsLease, ReleaseLease, CancelledRunIsQuiet, CancelledWithRun,
           LeaseExclusive
  <2> QED BY <2>1, <2>2, <2>3, <2>4
<1>12. ASSUME NEW t \in Tasks, NEW n \in Attempts, NEW s \in Awaiting,
             ParkBoundary(t, n, s)
      PROVE  RowsInv'
  <2>1. NumberingInv'
    BY <1>12, SMTT(30)
       DEF ParkBoundary, BoundaryFence, LocalFence, ExternalFence,
           ReleaseLease, NumberingInv
  <2>2. LeaseExclusive'
    BY <1>12, SMTT(30)
       DEF ParkBoundary, BoundaryFence, LocalFence, ExternalFence,
           ReleaseLease, LeaseExclusive, NumberingInv
  <2>3. AcceptedEvidence'
    BY <1>12, SMTT(30)
       DEF ParkBoundary, BoundaryFence, LocalFence, ExternalFence,
           ReleaseLease, AcceptedEvidence, NumberingInv, LeaseExclusive
  <2>4. CancelledRunIsQuiet' /\ CancelledWithRun'
    BY <1>12
       DEF ParkBoundary, BoundaryFence, LocalFence, ExternalFence,
           ReleaseLease, CancelledRunIsQuiet, CancelledWithRun, LeaseExclusive
  <2> QED BY <2>1, <2>2, <2>3, <2>4
<1>13. ASSUME NEW c \in CommandIds, CancelCommand(c)
      PROVE  RowsInv'
  <2>1. NumberingInv'
    BY <1>13 DEF CancelCommand, NumberingInv
  <2>2. LeaseExclusive'
    BY <1>13 DEF CancelCommand, LeaseExclusive
  <2>3. AcceptedEvidence'
    BY <1>13 DEF CancelCommand, AcceptedEvidence
  <2>4. CancelledRunIsQuiet'
    <3> SUFFICES ASSUME NEW t \in Tasks
                 PROVE  /\ taskStatus'[t] \notin Unfinished
                        /\ lease'[t] = 0
                        /\ taskStatus'[t] = "CANCELLED" =>
                             \A m \in Attempts :
                               attemptStatus'[t][m] \notin LiveAttempt
      BY DEF CancelledRunIsQuiet
    <3>1. taskStatus[t] # "CANCELLED"
      BY <1>13 DEF CancelCommand, CancelledWithRun
    <3>2. CASE taskStatus[t] \in Unfinished
      BY <1>13, <3>2 DEF CancelCommand
    <3>3. CASE taskStatus[t] \notin Unfinished
      BY <1>13, <3>1, <3>3 DEF CancelCommand, LeaseExclusive
    <3> QED BY <3>2, <3>3
  <2>5. CancelledWithRun'
    BY <1>13 DEF CancelCommand, CancelledWithRun
  <2> QED BY <2>1, <2>2, <2>3, <2>4, <2>5
<1>14. CASE SchedulerStep
  <2>1. CASE CompleteRunCount \/ CompleteRun \/ FailRun
    <3>1. /\ UNCHANGED <<taskStatus, lease, attemptStatus, lastAttempt,
                         external, accepted>>
          /\ runStatus' = "CANCELLED" <=> runStatus = "CANCELLED"
      BY <2>1 DEF CompleteRunCount, CompleteRun, FailRun
    <3> QED BY ONLY <3>1, <1>1
  <2> HIDE DEF RowsInv
  <2> QED BY <1>14, <1>2, <1>3, <2>1 DEF SchedulerStep
<1>15. CASE WorkerStep
  <2>1. CASE \/ \E t \in Tasks : LeaseExpires(t)
             \/ \E t \in Tasks, n \in Attempts : HeartbeatTask(t, n)
             \/ \E t \in Tasks, n \in Attempts : CheckpointTask(t, n)
    <3>1. UNCHANGED <<runStatus, taskStatus, lease, attemptStatus, lastAttempt,
                      external, accepted>>
      BY <2>1 DEF LeaseExpires, HeartbeatTask, CheckpointTask
    <3> QED BY ONLY <3>1, <1>1
  <2> HIDE DEF RowsInv, Awaiting
  <2> QED BY <1>15, <1>6, <1>7, <1>8, <1>9, <1>10, <1>11, <1>12, <2>1
             DEF WorkerStep
<1>16. CASE CommandStep
  <2>1. CASE \E c \in CommandIds :
               PauseCommand(c) \/ ResumeCommand(c) \/ SignalCommand(c)
    <3>1. /\ UNCHANGED <<taskStatus, lease, attemptStatus, lastAttempt,
                         external, accepted>>
          /\ runStatus' = "CANCELLED" <=> runStatus = "CANCELLED"
      BY <2>1 DEF PauseCommand, ResumeCommand, SignalCommand
    <3> QED BY ONLY <3>1, <1>1
  <2> HIDE DEF RowsInv
  <2> QED BY <1>16, <1>4, <1>5, <1>13, <2>1 DEF CommandStep
<1>17. CASE UNCHANGED vars
  <2>1. UNCHANGED <<runStatus, taskStatus, lease, attemptStatus, lastAttempt,
                    external, accepted>>
    BY <1>17 DEF vars
  <2> QED BY ONLY <2>1, <1>1
<1> QED BY <1>14, <1>15, <1>16, <1>17 DEF Next

\* StoreInv holds throughout every behaviour of the store.
THEOREM StoreInvariant == Spec => []StoreInv
<1>1. StoreInv /\ [Next]_vars => StoreInv'
  BY TypeStep, RowsStep DEF StoreInv
<1> QED BY <1>1, InitStoreInv, PTL DEF Spec

\* Leases, attempts and external reservations of every task exclude each other
\* as LeaseExclusive says, in every reachable state.
THEOREM StoreLeaseExclusive == Spec => []LeaseExclusive
<1>1. StoreInv => LeaseExclusive
  BY DEF StoreInv, RowsInv
<1> QED BY <1>1, StoreInvariant, PTL

\* A SUCCEEDED task always has exactly one SUCCEEDED attempt, the accepted one.
THEOREM StoreAcceptedEvidence == Spec => []AcceptedEvidence
<1>1. StoreInv => AcceptedEvidence
  BY DEF StoreInv, RowsInv
<1> QED BY <1>1, StoreInvariant, PTL

\* A cancelled run never has an unfinished task, a lease, or a live attempt of
\* a cancelled task.
THEOREM StoreCancelledQuiet == Spec => []CancelledRunIsQuiet
<1>1. StoreInv => CancelledRunIsQuiet
  BY DEF StoreInv, RowsInv
<1> QED BY <1>1, StoreInvariant, PTL

-----------------------------------------------------------------------------
\* Acceptance is the only transaction that writes an accepted boundary, and it
\* finds none: the fence of _lock_boundary_execution admits RUNNING and READY
\* tasks only, and by AcceptedEvidence these have accepted nothing.
LEMMA AcceptedByCompletion ==
  ASSUME StoreInv, [Next]_vars
  PROVE  \/ accepted' = accepted
         \/ \E t \in Tasks, n \in Attempts, o \in Outputs :
              CompleteBoundary(t, n, o)
<1>1. CASE SchedulerStep
  BY <1>1 DEF SchedulerStep, EnqueueTask, ReadyTask, CompleteRunCount,
     CompleteRun, FailRun
<1>2. CASE WorkerStep
  BY <1>2 DEF WorkerStep, ClaimTask, LeaseExpires, StartExternalExecution,
     StartTask, HeartbeatTask, CheckpointTask, RejectBoundary, FailTask,
     ParkBoundary
<1>3. CASE CommandStep
  BY <1>3 DEF CommandStep, PauseCommand, ResumeCommand, CancelCommand,
     SignalCommand, RetryCommand, ResolveCommand
<1>4. CASE UNCHANGED vars
  BY <1>4 DEF vars
<1> QED BY <1>1, <1>2, <1>3, <1>4 DEF Next

\* No later call of any worker, delivery or command replaces or withdraws an
\* accepted boundary.
THEOREM StoreAcceptedFinal == Spec => AcceptedBoundaryFinal
<1>1. ASSUME StoreInv, [Next]_vars
      PROVE  \A t \in Tasks : accepted[t].attempt # 0 => accepted'[t] = accepted[t]
  <2>1. CASE accepted' = accepted
    BY <2>1
  <2>2. ASSUME NEW u \in Tasks, NEW n \in Attempts, NEW o \in Outputs,
               CompleteBoundary(u, n, o)
        PROVE  \A t \in Tasks : accepted[t].attempt # 0 => accepted'[t] = accepted[t]
    <3>1. accepted[u].attempt = 0
      BY <1>1, <2>2 DEF CompleteBoundary, BoundaryFence, LocalFence,
         ExternalFence, StoreInv, RowsInv, AcceptedEvidence
    <3>2. accepted' = [accepted EXCEPT ![u] = [attempt |-> n, output |-> o]]
      BY <2>2 DEF CompleteBoundary
    <3> QED BY <1>1, <3>1, <3>2 DEF StoreInv, TypeOK
  <2> QED BY <1>1, <2>1, <2>2, AcceptedByCompletion
<1> QED BY <1>1, StoreInvariant, PTL DEF Spec, AcceptedBoundaryFinal

\* A terminal run stays as it ended, also when complete_run, whose count took
\* no lock, is overtaken by another end of the run.
THEOREM StoreTerminalFinal == Spec => TerminalRunIsFinal
<1> DEFINE Final ==
      runStatus \notin ActiveRun =>
        /\ runStatus' = runStatus
        /\ accepted' = accepted
        /\ lastAttempt' = lastAttempt
        /\ \A t \in Tasks : taskStatus[t] = "ABSENT" => taskStatus'[t] = "ABSENT"
<1>1. ASSUME TypeOK, [Next]_vars
      PROVE  Final
  <2> USE <1>1 DEF ActiveRun, SetTask
  <2>1. CASE SchedulerStep
    BY <2>1 DEF SchedulerStep, EnqueueTask, ReadyTask, CompleteRunCount,
       CompleteRun, FailRun
  <2>2. CASE WorkerStep
    BY <2>2 DEF WorkerStep, ClaimTask, LeaseExpires, StartExternalExecution,
       ExternalStartable, StartTask, Startable, HeartbeatTask, CheckpointTask,
       CompleteBoundary, RejectBoundary, FailTask, OwnsLease, ParkBoundary, BoundaryFence,
       TypeOK
  <2>3. CASE CommandStep
    BY <2>3 DEF CommandStep, PauseCommand, ResumeCommand, CancelCommand,
       SignalCommand, RetryCommand, ResolveCommand
  <2>4. CASE UNCHANGED vars
    BY <2>4 DEF vars
  <2> QED BY <2>1, <2>2, <2>3, <2>4 DEF Next
<1> QED BY <1>1, StoreTyped, PTL DEF Spec, TerminalRunIsFinal

\* Only the attempt that holds the lease of a task writes its checkpoint.
THEOREM StoreCheckpointByHolder == Spec => CheckpointByLeaseHolder
<1> DEFINE ByHolder ==
      \A t \in Tasks, n \in Attempts :
        n \in checkpoints'[t] \ checkpoints[t] => lease[t] = n
<1>1. ASSUME StoreInv, [Next]_vars
      PROVE  ByHolder
  <2>1. ASSUME NEW u \in Tasks, NEW m \in Attempts, CheckpointTask(u, m)
        PROVE  ByHolder
    <3>1. lease[u] = m
      BY <1>1, <2>1 DEF CheckpointTask, StoreInv, RowsInv, LeaseExclusive,
         LiveAttempt
    <3> QED BY <1>1, <2>1, <3>1 DEF CheckpointTask, StoreInv, TypeOK
  <2>2. CASE checkpoints' = checkpoints
    BY <2>2
  <2>3. CASE SchedulerStep
    BY <2>2, <2>3 DEF SchedulerStep, EnqueueTask, ReadyTask, CompleteRunCount,
       CompleteRun, FailRun
  <2>4. CASE WorkerStep
    BY <2>1, <2>2, <2>4 DEF WorkerStep, ClaimTask, LeaseExpires,
       StartExternalExecution, StartTask, HeartbeatTask, CompleteBoundary,
       RejectBoundary, FailTask, ParkBoundary
  <2>5. CASE CommandStep
    BY <2>2, <2>5 DEF CommandStep, PauseCommand, ResumeCommand, CancelCommand,
       SignalCommand, RetryCommand, ResolveCommand
  <2>6. CASE UNCHANGED vars
    BY <2>2, <2>6 DEF vars
  <2> QED BY <1>1, <2>3, <2>4, <2>5, <2>6 DEF Next
<1> QED BY <1>1, StoreInvariant, PTL DEF Spec, CheckpointByLeaseHolder

\* A command that is delivered twice is applied once: whatever only a command
\* may do consumes a command_id that was never received before.
THEOREM StoreCommandOnce == Spec => CommandAppliedOnce
<1> DEFINE Commanded ==
      \/ runStatus' \in {"PAUSED", "CANCELLED"} /\ runStatus' # runStatus
      \/ runStatus = "PAUSED" /\ runStatus' = "RUNNING"
      \/ \E t \in Tasks : /\ taskStatus[t] \in Awaiting \cup {"FAILED"}
                          /\ taskStatus'[t] = "READY"
    Consumed == \E c \in CommandIds : c \notin usedCommands /\ c \in usedCommands'
<1>1. ASSUME TypeOK, [Next]_vars
      PROVE  Commanded => Consumed
  <2> USE <1>1 DEF SetTask, Awaiting
  <2>1. CASE SchedulerStep
    BY <2>1 DEF SchedulerStep, EnqueueTask, ReadyTask, CompleteRunCount,
       CompleteRun, FailRun, TypeOK
  <2>2. CASE WorkerStep
    BY <2>2 DEF WorkerStep, ClaimTask, LeaseExpires, StartExternalExecution,
       StartTask, Startable, HeartbeatTask, CheckpointTask, CompleteBoundary,
       RejectBoundary, FailTask, OwnsLease, ParkBoundary, TypeOK
  <2>3. CASE CommandStep
    BY <2>3 DEF CommandStep, PauseCommand, ResumeCommand, CancelCommand,
       SignalCommand, RetryCommand, ResolveCommand, Fresh
  <2>4. CASE UNCHANGED vars
    BY <2>4 DEF vars
  <2> QED BY <2>1, <2>2, <2>3, <2>4 DEF Next
<1> QED BY <1>1, StoreTyped, PTL DEF Spec, CommandAppliedOnce

-----------------------------------------------------------------------------
\* The store implements LogicalTask: every transaction is one step of a
\* logical task or of the run, or is not visible at all.
THEOREM StoreImplementsLogicalTask == Spec => StoreRefinesLogicalTask
<1> DEFINE run == RunOf(runStatus)
           outcome == [t \in Tasks |-> OutcomeOf(taskStatus[t])]
           result == [t \in Tasks |-> accepted[t].output]
<1>1. Init => Logical!LInit
  BY DEF Init, Logical!LInit, RunOf, OutcomeOf, ActiveRun, NotAccepted
<1>2. ASSUME StoreInv, [Next]_vars
      PROVE  [Logical!LNext]_(Logical!lvars)
  <2> SUFFICES Logical!LNext \/ UNCHANGED <<run, outcome, result>>
    BY DEF Logical!lvars
  <2> USE <1>2 DEF StoreInv, TypeOK, RunOf, OutcomeOf, ActiveRun, Awaiting,
          TaskStatus, SetTask
  <2>1. ASSUME UNCHANGED <<runStatus, taskStatus, accepted>>
        PROVE  UNCHANGED <<run, outcome, result>>
    BY <2>1
  <2>2. ASSUME NEW t \in Tasks, NEW s \in {"READY", "BLOCKED"}, EnqueueTask(t, s)
        PROVE  Logical!Create(t)
    BY <2>2 DEF EnqueueTask, Logical!Create
  <2>3. ASSUME NEW t \in Tasks,
               ReadyTask(t) \/ ClaimTask(t) \/ \E n \in Attempts : StartTask(t, n)
        PROVE  UNCHANGED <<run, outcome, result>>
    BY <2>3 DEF ReadyTask, ClaimTask, Claimable, StartTask, Startable
  <2>4. ASSUME NEW t \in Tasks, NEW n \in Attempts, NEW o \in Outputs,
               CompleteBoundary(t, n, o)
        PROVE  Logical!Accept(t, o)
    BY <2>4 DEF CompleteBoundary, BoundaryFence, LocalFence, ExternalFence,
       Logical!Accept
  <2>5. ASSUME NEW t \in Tasks, NEW n \in Attempts, RejectBoundary(t, n)
        PROVE  Logical!Fail(t)
    BY <2>5 DEF RejectBoundary, BoundaryFence, LocalFence, ExternalFence,
       Logical!Fail
  <2>6. ASSUME NEW t \in Tasks, NEW n \in Attempts, NEW r \in BOOLEAN,
               FailTask(t, n, r)
        PROVE  Logical!Fail(t) \/ UNCHANGED <<run, outcome, result>>
    BY <2>6, Zenon DEF FailTask, OwnsLease, Logical!Fail
  <2>7. ASSUME NEW t \in Tasks, NEW n \in Attempts, NEW s \in Awaiting,
               ParkBoundary(t, n, s)
        PROVE  UNCHANGED <<run, outcome, result>>
    BY <2>7 DEF ParkBoundary, BoundaryFence, LocalFence, ExternalFence
  <2>8. ASSUME NEW c \in CommandIds, PauseCommand(c) \/ ResumeCommand(c)
        PROVE  UNCHANGED <<run, outcome, result>>
    BY <2>8 DEF PauseCommand, ResumeCommand
  <2>9. ASSUME NEW c \in CommandIds, CancelCommand(c)
        PROVE  Logical!Cancel
    BY <2>9 DEF CancelCommand, Unfinished, Logical!Cancel
  <2>10. ASSUME NEW c \in CommandIds, NEW t \in Tasks, RetryCommand(c, t)
         PROVE  Logical!Retry(t)
    BY <2>10 DEF RetryCommand, Logical!Retry
  <2>11. ASSUME NEW c \in CommandIds, NEW t \in Tasks, ResolveCommand(c, t)
         PROVE  UNCHANGED <<run, outcome, result>>
    BY <2>11 DEF ResolveCommand
  <2>12. ASSUME CompleteRun \/ FailRun
         PROVE  Logical!Close \/ UNCHANGED <<run, outcome, result>>
    BY <2>12 DEF CompleteRun, FailRun, Logical!Close
  <2> HIDE DEF StoreInv, TypeOK, Awaiting, run, outcome, result
  <2>13. CASE SchedulerStep
    BY <2>13, <2>1, <2>2, <2>3, <2>12 DEF SchedulerStep, CompleteRunCount,
       Logical!LNext
  <2>14. CASE WorkerStep
    BY <2>14, <2>1, <2>3, <2>4, <2>5, <2>6, <2>7 DEF WorkerStep, LeaseExpires,
       StartExternalExecution, HeartbeatTask, CheckpointTask, Logical!LNext
  <2>15. CASE CommandStep
    BY <2>15, <2>1, <2>8, <2>9, <2>10, <2>11 DEF CommandStep, SignalCommand,
       Logical!LNext
  <2>16. CASE UNCHANGED vars
    BY <2>16, <2>1 DEF vars
  <2> QED BY <1>2, <2>13, <2>14, <2>15, <2>16 DEF Next
<1> QED BY <1>1, <1>2, StoreInvariant, PTL
           DEF Spec, StoreRefinesLogicalTask, Logical!LSpec

-----------------------------------------------------------------------------
(***************************************************************************)
(* Workers, deliveries and faults.                                         *)
(***************************************************************************)

\* What a process that executes a task holds.
Executions ==
  [pc : {"claimed", "started", "parking", "returned", "retryable", "final"},
   task : Tasks, attempt : Attempts, output : Outputs \cup {NoOutput}]

\* The types of the harness; a process holds an attempt that exists, and it
\* completes with an output.
ProcInv ==
  /\ posture \in {"local", "external"}
  /\ interactive \in SUBSET Tasks
  /\ log \in [Tasks -> Seq({Requested, Retried} \cup Answers)]
  /\ open \in SUBSET Tasks
  /\ faults \in 0 .. FaultBound
  /\ proc \in [Procs -> {Free} \cup Executions]
  /\ \A p \in Procs : Busy(p) => proc[p].attempt <= lastAttempt[proc[p].task]
  /\ \A p \in Procs : At(p, "returned") => proc[p].output \in Outputs

\* An interaction that has returned has an answer of the log in its hands.
ReturnedInv ==
  \A p \in Procs : At(p, "returned") /\ proc[p].task \in interactive =>
    \E i \in DOMAIN log[proc[p].task] : log[proc[p].task][i] = proc[p].output

\* The local posture reserves no external execution.
PostureInv == posture = "local" => \A t \in Tasks : external[t] = 0

Asks(t) == {i \in DOMAIN log[t] : log[t][i] = Requested}

\* The latest request of t has an answer.
Answered(t) ==
  \E i \in DOMAIN log[t] : log[t][i] \in Answers /\ \A j \in Asks(t) : j < i

\* In the local posture a task was asked at most once, and it leaves the state
\* in which it waits for the answer with the answer only.
AskedInv ==
  posture = "local" =>
    \A t \in Tasks :
      /\ \A i, j \in Asks(t) : i = j
      /\ taskStatus[t] \notin {"NEEDS_APPROVAL", "CANCELLED"} =>
           Asks(t) = {} \/ Answered(t)

\* A process about to ask that still holds the lease is the first to ask.
ParkingInv ==
  posture = "local" =>
    \A p \in Procs :
      At(p, "parking") /\ lease[proc[p].task] = proc[p].attempt => Asks(proc[p].task) = {}

HarnessInv ==
  /\ StoreInv
  /\ ProcInv
  /\ ReturnedInv
  /\ AcceptedWasAnswered
  /\ PostureInv
  /\ AskedInv
  /\ ParkingInv

-----------------------------------------------------------------------------
(***************************************************************************)
(* The store under the harness.                                            *)
(***************************************************************************)

\* What a process is doing names a task and an attempt of the store.
LEMMA ProcTypes ==
  ASSUME ProcInv, NEW p \in Procs
  PROVE  /\ proc[p] = Free \/ proc[p] \in Executions
         /\ ~Busy(p) <=> proc[p] = Free
         /\ Busy(p) => /\ proc[p] \in Executions
                       /\ proc[p].task \in Tasks /\ proc[p].attempt \in Attempts
         /\ \A pc : At(p, pc) /\ pc # "free" => Busy(p)
BY DEF ProcInv, Busy, Free, Executions, At

\* Every step of a process, of the substrate, of the clock and of a command is
\* one transaction of the store, or none.
LEMMA HarnessStoreStep ==
  ASSUME TypeOK, ProcInv, HarnessNext PROVE Next \/ UNCHANGED vars
<1> USE DEF Next, SchedulerStep, WorkerStep, CommandStep
<1>1. ASSUME NEW t \in Tasks, Release(t) \/ Lapse(t) \/ Stall(t) PROVE Next
  BY <1>1 DEF Release, Lapse, Stall
<1>2. ASSUME NEW w \in Workers, Heartbeat(w) PROVE Next
  <2>1. w \in Procs BY DEF Procs
  <2> QED BY <1>2, <2>1, ProcTypes DEF Heartbeat
<1>3. ASSUME NEW w \in Workers, NEW t \in Tasks, Claim(w, t) PROVE Next
  BY <1>3 DEF Claim
<1>4. ASSUME NEW d \in Deliveries, NEW t \in Tasks, Deliver(d, t)
      PROVE  Next \/ UNCHANGED vars
  BY <1>4 DEF Deliver, RunRequest
<1>5. ASSUME NEW p \in Procs, Step(p) PROVE Next \/ UNCHANGED vars
  <2> DEFINE t == proc[p].task
             n == proc[p].attempt
  <2>1. CASE Start(p)
    <3>1. t \in Tasks /\ n \in Attempts BY <2>1, ProcTypes DEF Start
    <3> QED BY <2>1, <3>1 DEF Start
  <2>2. CASE Park(p)
    <3>1. t \in Tasks /\ n \in Attempts BY <2>2, ProcTypes DEF Park
    <3> QED BY <2>2, <3>1 DEF Park, Awaiting
  <2>3. CASE Complete(p)
    <3>1. t \in Tasks /\ n \in Attempts BY <2>3, ProcTypes DEF Complete
    <3>2. proc[p].output \in Outputs BY <2>3 DEF Complete, ProcInv
    <3> QED BY <2>3, <3>1, <3>2 DEF Complete
  <2>4. CASE FailRaised(p)
    <3>1. t \in Tasks /\ n \in Attempts BY <2>4, ProcTypes DEF FailRaised
    <3>2. MayRetry(p) \in BOOLEAN BY DEF MayRetry
    <3> QED BY <2>4, <3>1, <3>2 DEF FailRaised, Fail
  <2>5. CASE LoadResolution(p) \/ \E o \in Outputs : Return(p, o)
    BY <2>5 DEF LoadResolution, Return
  <2> QED BY <1>5, <2>1, <2>2, <2>3, <2>4, <2>5 DEF Step
<1>6. ASSUME NEW p \in Procs, Refuse(p) PROVE Next \/ UNCHANGED vars
  <2>1. proc[p].task \in Tasks /\ proc[p].attempt \in Attempts
    BY <1>6, ProcTypes DEF Refuse
  <2> QED BY <1>6, <2>1 DEF Refuse, Fail
<1>7. ASSUME NEW p \in Procs, Crash(p) \/ \E e \in {"retryable", "final"} : Raise(p, e)
      PROVE  UNCHANGED vars
  BY <1>7 DEF Crash, Raise
<1>8. ASSUME Command PROVE Next
  BY <1>8 DEF Command, Retry, Answer
<1> QED BY <1>1, <1>2, <1>3, <1>4, <1>5, <1>6, <1>7, <1>8 DEF HarnessNext

\* Attempt numbers only grow: neither a claim nor a reservation reuses one.
LEMMA AttemptsGrow ==
  ASSUME TypeOK, [Next]_vars
  PROVE  \A t \in Tasks : lastAttempt[t] <= lastAttempt'[t]
<1> USE DEF TypeOK
<1>1. CASE SchedulerStep \/ CommandStep
  <2>1. UNCHANGED lastAttempt
    BY <1>1 DEF SchedulerStep, EnqueueTask, ReadyTask, CompleteRunCount, CompleteRun,
       FailRun, CommandStep, PauseCommand, ResumeCommand, CancelCommand, SignalCommand,
       RetryCommand, ResolveCommand
  <2> QED BY <2>1
<1>2. CASE WorkerStep
  <2>1. ASSUME NEW t \in Tasks, ClaimTask(t) \/ StartExternalExecution(t)
        PROVE  \A u \in Tasks : lastAttempt[u] <= lastAttempt'[u]
    BY <2>1 DEF ClaimTask, StartExternalExecution, ReserveExternal, ResumeExternal
  <2>2. CASE UNCHANGED lastAttempt BY <2>2
  <2> QED BY <1>2, <2>1, <2>2 DEF WorkerStep, LeaseExpires, StartTask, HeartbeatTask,
     CheckpointTask, CompleteBoundary, RejectBoundary, FailTask, ParkBoundary
<1>3. CASE UNCHANGED vars BY <1>3 DEF vars
<1> QED BY <1>1, <1>2, <1>3 DEF Next

-----------------------------------------------------------------------------
(***************************************************************************)
(* The processes.                                                          *)
(***************************************************************************)

\* When one process changes what it is doing, the others keep what they hold.
LEMMA BecomeProcInv ==
  ASSUME TypeOK, TypeOK', ProcInv,
         \A t \in Tasks : lastAttempt[t] <= lastAttempt'[t],
         NEW p \in Procs, NEW e \in {Free} \cup Executions,
         e # Free => e.attempt <= lastAttempt'[e.task],
         e # Free /\ e.pc = "returned" => e.output \in Outputs,
         Become(p, e), UNCHANGED <<posture, interactive>>,
         log' \in [Tasks -> Seq({Requested, Retried} \cup Answers)],
         open' \in SUBSET Tasks, faults' \in 0 .. FaultBound
  PROVE  ProcInv'
<1>1. proc' \in [Procs -> {Free} \cup Executions] BY DEF Become, ProcInv
<1>2. \A q \in Procs : proc'[q] = IF q = p THEN e ELSE proc[q]
  BY DEF Become, ProcInv
<1>3. \A q \in Procs : proc'[q].pc # "free" => proc'[q].attempt <= lastAttempt'[proc'[q].task]
  <2> SUFFICES ASSUME NEW q \in Procs, proc'[q].pc # "free"
               PROVE  proc'[q].attempt <= lastAttempt'[proc'[q].task]
    OBVIOUS
  <2>1. CASE q = p BY <1>2, <2>1 DEF Free
  <2>2. CASE q # p
    <3>1. proc'[q] = proc[q] /\ Busy(q) BY <1>2, <2>2 DEF Busy
    <3>2. proc[q].task \in Tasks /\ proc[q].attempt \in Attempts BY <3>1, ProcTypes
    <3>3. proc[q].attempt <= lastAttempt[proc[q].task] BY <3>1 DEF ProcInv
    <3> QED BY <3>1, <3>2, <3>3, SMTT(30) DEF TypeOK, Attempts
  <2> QED BY <2>1, <2>2
<1>4. \A q \in Procs : proc'[q].pc = "returned" => proc'[q].output \in Outputs
  BY <1>2 DEF ProcInv, At, Free
<1> QED BY <1>1, <1>3, <1>4 DEF ProcInv, Busy, At

\* An entry appended to a task's log keeps the others.
LEMMA LoggedType ==
  ASSUME ProcInv, NEW t \in Tasks, NEW a \in {Requested, Retried} \cup Answers, Logged(t, a)
  PROVE  /\ log' \in [Tasks -> Seq({Requested, Retried} \cup Answers)]
         /\ \A u \in Tasks : u # t => log'[u] = log[u]
         /\ log'[t] = Append(log[t], a)
         /\ Len(log[t]) \in Nat
         /\ DOMAIN log[t] = 1 .. Len(log[t]) /\ DOMAIN log'[t] = 1 .. Len(log[t]) + 1
         /\ \A i \in DOMAIN log[t] : log'[t][i] = log[t][i]
         /\ log'[t][Len(log[t]) + 1] = a
BY DEF ProcInv, Logged

\* load_interaction_resolution returns an answer of the log, and it finds one
\* if the latest request has one.
LEMMA ResolutionFound ==
  ASSUME ProcInv, NEW t \in Tasks
  PROVE  /\ Resolution(t) # NoAnswer =>
              /\ Resolution(t) \in Answers
              /\ \E i \in DOMAIN log[t] : log[t][i] = Resolution(t)
         /\ Asks(t) # {} /\ Answered(t) => Resolution(t) # NoAnswer
<1> DEFINE asked == {i \in DOMAIN log[t] : log[t][i] = Requested}
           given == {i \in DOMAIN log[t] : log[t][i] \in Answers /\ \A j \in asked : j < i}
           latest == CHOOSE i \in given : \A j \in given : j <= i
<1>1. Len(log[t]) \in Nat /\ DOMAIN log[t] = 1 .. Len(log[t]) BY DEF ProcInv
<1>2. given \in SUBSET (1 .. Len(log[t])) BY <1>1
<1>3. given # {} => latest \in given
  <2> HIDE DEF given
  <2> SUFFICES ASSUME given # {} PROVE latest \in given OBVIOUS
  <2>1. \E i \in given : \A j \in given : j <= i BY <1>1, <1>2, IntervalMax
  <2> QED BY <2>1
<1>4. Resolution(t) = IF asked = {} \/ given = {} THEN NoAnswer ELSE log[t][latest]
  BY DEF Resolution
<1>5. asked = Asks(t) /\ (Answered(t) <=> given # {}) BY DEF Asks, Answered
<1> HIDE DEF latest
<1>6. ASSUME asked # {}, given # {}
      PROVE  Resolution(t) \in Answers /\ \E i \in DOMAIN log[t] : log[t][i] = Resolution(t)
  BY <1>3, <1>4, <1>6
<1>7. NoAnswer \notin Answers BY StoreAssumption, HarnessAssumption DEF NoAnswer
<1> HIDE DEF asked, given
<1> QED BY <1>4, <1>5, <1>6, <1>7

\* Every process keeps holding an attempt that exists, whatever the others do.
LEMMA ProcStep ==
  ASSUME StoreInv, StoreInv', ProcInv, HarnessNext PROVE ProcInv'
<1>a. TypeOK /\ TypeOK' BY DEF StoreInv
<1>b. [Next]_vars BY <1>a, HarnessStoreStep
<1>c. \A t \in Tasks : lastAttempt[t] <= lastAttempt'[t] BY <1>a, <1>b, AttemptsGrow
<1>d. Free \in {Free} \cup Executions OBVIOUS
<1>e. Fault => faults' \in 0 .. FaultBound BY HarnessAssumption DEF Fault, ProcInv
<1>f. /\ log \in [Tasks -> Seq({Requested, Retried} \cup Answers)]
      /\ open \in SUBSET Tasks /\ faults \in 0 .. FaultBound
  BY DEF ProcInv
\* A process that leaves, one that goes on with the same attempt, and a step in
\* which no process moves.
<1>g. ASSUME NEW p \in Procs, Leave(p), UNCHANGED <<posture, interactive>>,
             log' \in [Tasks -> Seq({Requested, Retried} \cup Answers)],
             open' \in SUBSET Tasks, faults' \in 0 .. FaultBound
      PROVE  ProcInv'
  BY <1>a, <1>c, <1>d, <1>g, BecomeProcInv DEF Leave
<1>h. ASSUME NEW p \in Procs, Busy(p), NEW e \in Executions,
             e.task = proc[p].task, e.attempt = proc[p].attempt,
             e.pc = "returned" => e.output \in Outputs,
             Become(p, e), UNCHANGED <<posture, interactive, log>>,
             open' \in SUBSET Tasks, faults' \in 0 .. FaultBound
      PROVE  ProcInv'
  <2>1. proc[p].task \in Tasks /\ proc[p].attempt \in Attempts BY <1>h, ProcTypes
  <2>2. proc[p].attempt <= lastAttempt[proc[p].task] BY <1>h DEF ProcInv
  <2>3. e.attempt <= lastAttempt'[e.task]
    BY <1>a, <1>c, <1>h, <2>1, <2>2, SMTT(30) DEF TypeOK, Attempts
  <2>4. e \in {Free} \cup Executions BY <1>h
  <2> QED BY <1>a, <1>c, <1>f, <1>h, <2>3, <2>4, BecomeProcInv
<1>i. ASSUME UNCHANGED <<posture, interactive, open, proc>>, faults' \in 0 .. FaultBound,
             log' \in [Tasks -> Seq({Requested, Retried} \cup Answers)]
      PROVE  ProcInv'
  <2>1. \A p \in Procs : Busy(p) => proc[p].attempt <= lastAttempt'[proc[p].task]
    <3> SUFFICES ASSUME NEW p \in Procs, Busy(p)
                 PROVE  proc[p].attempt <= lastAttempt'[proc[p].task]
      OBVIOUS
    <3>1. proc[p].task \in Tasks /\ proc[p].attempt \in Attempts BY ProcTypes
    <3>2. proc[p].attempt <= lastAttempt[proc[p].task] BY DEF ProcInv
    <3> QED BY <1>a, <1>c, <3>1, <3>2, SMTT(30) DEF TypeOK, Attempts
  <2> QED BY <1>i, <2>1 DEF ProcInv, Busy, At
<1>1. ASSUME NEW t \in Tasks, Release(t) \/ Lapse(t) \/ Stall(t) PROVE ProcInv'
  BY <1>1, <1>e, <1>f, <1>i DEF Release, Lapse, Stall, harnessVars
<1>2. ASSUME NEW w \in Workers, Heartbeat(w) PROVE ProcInv'
  BY <1>2, <1>f, <1>i DEF Heartbeat, harnessVars
<1>3. ASSUME NEW w \in Workers, NEW t \in Tasks, Claim(w, t) PROVE ProcInv'
  <2> DEFINE e == Execution("claimed", t, lastAttempt[t] + 1)
  <2>1. w \in Procs BY DEF Procs
  <2>2. lastAttempt[t] + 1 \in Attempts /\ lastAttempt'[t] = lastAttempt[t] + 1
    BY <1>3, <1>a, StoreAssumption DEF Claim, ClaimTask, TypeOK, Attempts
  <2>3. e \in Executions /\ e.task = t /\ e.attempt = lastAttempt[t] + 1 /\ e.pc = "claimed"
    BY <2>2 DEF Execution, Executions
  <2>4. e.attempt <= lastAttempt'[e.task] BY <2>2, <2>3 DEF Attempts
  <2>5. Become(w, e) /\ UNCHANGED <<posture, interactive, log, open, faults>>
    BY <1>3 DEF Claim
  <2> HIDE DEF e
  <2> QED BY <1>a, <1>c, <1>f, <2>1, <2>3, <2>4, <2>5, BecomeProcInv
<1>4. ASSUME NEW d \in Deliveries, NEW t \in Tasks, Deliver(d, t) PROVE ProcInv'
  <2> DEFINE e == Execution("started", t, external'[t])
  <2>1. d \in Procs BY DEF Procs
  <2>2. external'[t] # 0
    BY <1>4, <1>a, StoreAssumption
       DEF Deliver, RunRequest, StartExternalExecution, ReserveExternal, ResumeExternal,
           TypeOK, vars
  <2>3. external'[t] \in Attempts /\ external'[t] <= lastAttempt'[t]
    BY <2>2, <1>a DEF StoreInv, RowsInv, NumberingInv, TypeOK, Attempts
  <2>4. e \in Executions /\ e.task = t /\ e.attempt = external'[t] /\ e.pc = "started"
    BY <2>3 DEF Execution, Executions
  <2>5. Become(d, e) /\ UNCHANGED <<posture, interactive, log, open, faults>>
    BY <1>4 DEF Deliver, RunRequest
  <2> HIDE DEF e
  <2>6. e.attempt <= lastAttempt'[e.task] BY <2>3, <2>4
  <2> QED BY <1>a, <1>c, <1>f, <2>1, <2>4, <2>5, <2>6, BecomeProcInv
<1>5. ASSUME NEW p \in Procs, Step(p) PROVE ProcInv'
  <2>0. ASSUME NEW pc \in {"started", "parking", "retryable", "final"}, Busy(p)
        PROVE  LET e == [proc[p] EXCEPT !.pc = pc] IN
               /\ e \in Executions /\ e.pc # "returned"
               /\ e.task = proc[p].task /\ e.attempt = proc[p].attempt
    BY <2>0, ProcTypes DEF Executions
  <2>1. CASE Start(p)
    <3>1. Busy(p) BY <2>1, ProcTypes DEF Start
    <3>2. CASE Goto(p, "started")
      <4>1. Become(p, [proc[p] EXCEPT !.pc = "started"])
        BY <3>2, <3>1, ProcTypes DEF Goto, Become, ProcInv
      <4> QED BY <1>f, <1>h, <2>0, <2>1, <3>1, <4>1 DEF Start
    <3>3. CASE Leave(p) BY <1>f, <1>g, <2>1, <3>3 DEF Start
    <3> QED BY <2>1, <3>2, <3>3 DEF Start
  <2>2. CASE Park(p)
    <3>1. proc[p].task \in Tasks BY <2>2, ProcTypes DEF Park
    <3>2. log' \in [Tasks -> Seq({Requested, Retried} \cup Answers)]
      BY <1>f, <2>2, <3>1, LoggedType DEF Park
    <3> QED BY <1>f, <1>g, <2>2, <3>2 DEF Park
  <2>3. CASE Complete(p) BY <1>f, <1>g, <2>3 DEF Complete
  <2>4. CASE FailRaised(p) BY <1>f, <1>g, <2>4 DEF FailRaised, Fail
  <2>5. CASE LoadResolution(p)
    <3> DEFINE a == Resolution(proc[p].task)
    <3>1. Busy(p) /\ proc[p].task \in Tasks BY <2>5, ProcTypes DEF LoadResolution
    <3>2. CASE a = NoAnswer
      <4>1. Become(p, [proc[p] EXCEPT !.pc = "parking"]) BY <2>5, <3>2 DEF LoadResolution
      <4> QED BY <1>f, <1>h, <2>0, <2>5, <3>1, <4>1 DEF LoadResolution
    <3>3. CASE a # NoAnswer
      <4> DEFINE e == [proc[p] EXCEPT !.pc = "returned", !.output = a]
      <4>1. Become(p, e) BY <2>5, <3>3 DEF LoadResolution
      <4>2. a \in Outputs BY <3>1, <3>3, ResolutionFound, HarnessAssumption
      <4> HIDE DEF a
      <4>3. /\ e \in Executions /\ e.output = a
            /\ e.task = proc[p].task /\ e.attempt = proc[p].attempt
        BY <3>1, <4>2, ProcTypes DEF Executions
      <4> QED BY <1>f, <1>h, <2>5, <3>1, <4>1, <4>2, <4>3 DEF LoadResolution
    <3> QED BY <3>2, <3>3
  <2>6. ASSUME NEW o \in Outputs, Return(p, o) PROVE ProcInv'
    <3> DEFINE e == [proc[p] EXCEPT !.pc = "returned", !.output = o]
    <3>1. Busy(p) BY <2>6, ProcTypes DEF Return
    <3>2. /\ e \in Executions /\ e.output = o
          /\ e.task = proc[p].task /\ e.attempt = proc[p].attempt
      BY <3>1, ProcTypes DEF Executions
    <3> QED BY <1>f, <1>h, <2>6, <3>1, <3>2 DEF Return
  <2> QED BY <1>5, <2>1, <2>2, <2>3, <2>4, <2>5, <2>6 DEF Step
<1>6. ASSUME NEW p \in Procs, Refuse(p) PROVE ProcInv'
  BY <1>6, <1>e, <1>f, <1>g DEF Refuse, Fail
<1>7. ASSUME NEW p \in Procs, Crash(p) PROVE ProcInv'
  <2>1. proc[p].task \in Tasks BY <1>7, ProcTypes DEF Crash
  <2>2. open' \in SUBSET Tasks BY <1>7, <1>f, <2>1 DEF Crash
  <2> QED BY <1>7, <1>e, <1>f, <1>g, <2>2 DEF Crash
<1>8. ASSUME NEW p \in Procs, NEW error \in {"retryable", "final"}, Raise(p, error)
      PROVE  ProcInv'
  <2> DEFINE e == [proc[p] EXCEPT !.pc = error]
  <2>1. Busy(p) /\ proc[p] \in Executions BY <1>8, ProcTypes DEF Raise
  <2>2. /\ e \in Executions /\ e.pc # "returned"
        /\ e.task = proc[p].task /\ e.attempt = proc[p].attempt
    BY <2>1 DEF Executions
  <2>3. Become(p, e) BY <1>8, <2>1 DEF Raise, Goto, Become, ProcInv
  <2>4. open' \in SUBSET Tasks
    <3>1. proc[p].task \in Tasks BY <2>1, ProcTypes
    <3> QED BY <1>8, <1>f, <3>1 DEF Raise
  <2> QED BY <1>8, <1>e, <1>f, <1>h, <2>1, <2>2, <2>3, <2>4 DEF Raise
<1>9. ASSUME Command PROVE ProcInv'
  <2>1. ASSUME NEW c \in CommandIds, NEW t \in Tasks,
               Retry(c, t) \/ \E a \in Answers : Answer(c, t, a)
        PROVE  ProcInv'
    <3>1. log' \in [Tasks -> Seq({Requested, Retried} \cup Answers)]
      BY <2>1, LoggedType DEF Retry, Answer
    <3> QED BY <2>1, <3>1, <1>f, <1>i DEF Retry, Answer
  <2>2. CASE UNCHANGED harnessVars BY <2>2, <1>f, <1>i DEF harnessVars
  <2> QED BY <1>9, <2>1, <2>2 DEF Command
<1> QED BY <1>1, <1>2, <1>3, <1>4, <1>5, <1>6, <1>7, <1>8, <1>9 DEF HarnessNext

-----------------------------------------------------------------------------
(***************************************************************************)
(* What a step does to the log, the accepted results and the processes.    *)
(***************************************************************************)

\* A transaction of the store other than a park, a retry and an answer.
OtherTransaction ==
  \/ \E t \in Tasks : \/ EnqueueTask(t, "READY") \/ LeaseExpires(t)
                      \/ posture = "local" /\ ClaimTask(t)
                      \/ posture = "external" /\ StartExternalExecution(t)
  \/ \E t \in Tasks, n \in Attempts :
       \/ StartTask(t, n) \/ HeartbeatTask(t, n) \/ RejectBoundary(t, n)
       \/ (\E r \in BOOLEAN : FailTask(t, n, r))
       \/ \E o \in Outputs : CompleteBoundary(t, n, o)
  \/ \E c \in CommandIds : PauseCommand(c) \/ ResumeCommand(c) \/ CancelCommand(c)
  \/ UNCHANGED vars

\* The log grows by an answer, a retry or a fenced request, and by nothing else.
LEMMA LogMoves ==
  ASSUME TypeOK, ProcInv, HarnessNext
  PROVE  /\ UNCHANGED <<posture, interactive>>
         /\ \/ UNCHANGED log /\ OtherTransaction
            \/ \E c \in CommandIds, t \in Tasks, a \in Answers : Answer(c, t, a)
            \/ \E c \in CommandIds, t \in Tasks : Retry(c, t)
            \/ \E p \in Procs :
                 /\ At(p, "parking") /\ Logged(proc[p].task, Requested)
                 /\ ParkBoundary(proc[p].task, proc[p].attempt, "NEEDS_APPROVAL")
<1> DEFINE Goal == /\ UNCHANGED <<posture, interactive>>
                   /\ \/ UNCHANGED log /\ OtherTransaction
                      \/ \E c \in CommandIds, t \in Tasks, a \in Answers : Answer(c, t, a)
                      \/ \E c \in CommandIds, t \in Tasks : Retry(c, t)
                      \/ \E p \in Procs :
                           /\ At(p, "parking") /\ Logged(proc[p].task, Requested)
                           /\ ParkBoundary(proc[p].task, proc[p].attempt, "NEEDS_APPROVAL")
<1>1. ASSUME NEW t \in Tasks, Release(t) \/ Lapse(t) \/ Stall(t) PROVE Goal
  BY <1>1 DEF Release, Lapse, Stall, harnessVars, OtherTransaction
<1>2. ASSUME NEW w \in Workers, Heartbeat(w) PROVE Goal
  <2>1. proc[w].task \in Tasks /\ proc[w].attempt \in Attempts
    BY <1>2, ProcTypes DEF Heartbeat, Procs
  <2> QED BY <1>2, <2>1 DEF Heartbeat, harnessVars, OtherTransaction
<1>3. ASSUME NEW w \in Workers, NEW t \in Tasks, Claim(w, t) PROVE Goal
  BY <1>3 DEF Claim, OtherTransaction
<1>4. ASSUME NEW d \in Deliveries, NEW t \in Tasks, Deliver(d, t) PROVE Goal
  BY <1>4 DEF Deliver, RunRequest, OtherTransaction
<1>5. ASSUME NEW p \in Procs, Step(p) PROVE Goal
  <2> DEFINE t == proc[p].task
             n == proc[p].attempt
  <2>1. CASE Start(p)
    <3>1. t \in Tasks /\ n \in Attempts BY <2>1, ProcTypes DEF Start
    <3> QED BY <2>1, <3>1 DEF Start, OtherTransaction
  <2>2. CASE Park(p)
    <3>1. CASE ParkBoundary(t, n, "NEEDS_APPROVAL") /\ Logged(t, Requested)
      BY <2>2, <3>1 DEF Park
    <3>2. CASE UNCHANGED <<vars, log>> BY <2>2, <3>2 DEF Park, OtherTransaction
    <3> QED BY <2>2, <3>1, <3>2 DEF Park
  <2>3. CASE Complete(p)
    <3>1. t \in Tasks /\ n \in Attempts BY <2>3, ProcTypes DEF Complete
    <3>2. proc[p].output \in Outputs BY <2>3 DEF Complete, ProcInv
    <3> QED BY <2>3, <3>1, <3>2 DEF Complete, OtherTransaction
  <2>4. CASE FailRaised(p)
    <3>1. t \in Tasks /\ n \in Attempts BY <2>4, ProcTypes DEF FailRaised
    <3>2. MayRetry(p) \in BOOLEAN BY DEF MayRetry
    <3> QED BY <2>4, <3>1, <3>2 DEF FailRaised, Fail, OtherTransaction
  <2>5. CASE LoadResolution(p) \/ \E o \in Outputs : Return(p, o)
    BY <2>5 DEF LoadResolution, Return, OtherTransaction
  <2> QED BY <1>5, <2>1, <2>2, <2>3, <2>4, <2>5 DEF Step
<1>6. ASSUME NEW p \in Procs, Refuse(p) PROVE Goal
  <2>1. proc[p].task \in Tasks /\ proc[p].attempt \in Attempts
    BY <1>6, ProcTypes DEF Refuse
  <2> QED BY <1>6, <2>1 DEF Refuse, Fail, OtherTransaction
<1>7. ASSUME NEW p \in Procs, Crash(p) \/ \E e \in {"retryable", "final"} : Raise(p, e)
      PROVE  Goal
  BY <1>7 DEF Crash, Raise, OtherTransaction
<1>8. ASSUME Command PROVE Goal
  <2>1. ASSUME NEW c \in CommandIds, NEW t \in Tasks,
               Retry(c, t) \/ \E a \in Answers : Answer(c, t, a)
        PROVE  Goal
    BY <2>1 DEF Retry, Answer
  <2>2. ASSUME NEW c \in CommandIds, PauseCommand(c) \/ ResumeCommand(c) \/ CancelCommand(c),
               UNCHANGED harnessVars
        PROVE  Goal
    BY <2>2 DEF harnessVars, OtherTransaction
  <2> QED BY <1>8, <2>1, <2>2 DEF Command
<1> QED BY <1>1, <1>2, <1>3, <1>4, <1>5, <1>6, <1>7, <1>8 DEF HarnessNext

\* No entry of the log is lost or changed.
LEMMA LogGrows ==
  ASSUME TypeOK, ProcInv, HarnessNext, NEW t \in Tasks, NEW i \in DOMAIN log[t]
  PROVE  i \in DOMAIN log'[t] /\ log'[t][i] = log[t][i]
<1>1. ASSUME NEW u \in Tasks, NEW a \in {Requested, Retried} \cup Answers, Logged(u, a)
      PROVE  i \in DOMAIN log'[t] /\ log'[t][i] = log[t][i]
  BY <1>1, LoggedType
<1>2. ASSUME NEW p \in Procs, At(p, "parking") PROVE proc[p].task \in Tasks
  BY <1>2, ProcTypes
<1> QED BY <1>1, <1>2, LogMoves DEF Answer, Retry

\* A process comes to return or to ask only by its own step, which reads the
\* log if its task is an interaction.
LEMMA ProcMoves ==
  ASSUME ProcInv, HarnessNext, NEW q \in Procs, proc'[q] # proc[q]
  PROVE  /\ proc'[q].pc = "returned" => LoadResolution(q) \/ \E o \in Outputs : Return(q, o)
         /\ proc'[q].pc = "parking" => LoadResolution(q)
<1> DEFINE Goal == /\ proc'[q].pc = "returned" =>
                        LoadResolution(q) \/ \E o \in Outputs : Return(q, o)
                   /\ proc'[q].pc = "parking" => LoadResolution(q)
<1>1. proc \in [Procs -> {Free} \cup Executions] BY DEF ProcInv
<1>2. ASSUME NEW p \in Procs, NEW e, Become(p, e) PROVE p = q /\ proc'[q] = e
  BY <1>1, <1>2 DEF Become
<1>3. ASSUME NEW p \in Procs, Leave(p) PROVE Goal
  BY <1>2, <1>3 DEF Leave, Free
<1>4. ASSUME NEW p \in Procs, NEW pc \in {"started", "retryable", "final"}, Goto(p, pc), Busy(p)
      PROVE  Goal
  <2>1. p = q BY <1>1, <1>4 DEF Goto
  <2>2. proc'[q].pc = pc BY <1>1, <1>4, <2>1, ProcTypes DEF Goto, Executions
  <2> QED BY <1>4, <2>2
<1>5. ASSUME NEW w \in Workers, NEW t \in Tasks, Claim(w, t) PROVE Goal
  <2>1. w \in Procs BY DEF Procs
  <2> QED BY <1>2, <1>5, <2>1 DEF Claim, Execution
<1>6. ASSUME NEW d \in Deliveries, NEW t \in Tasks, Deliver(d, t) PROVE Goal
  <2>1. d \in Procs BY DEF Procs
  <2> QED BY <1>2, <1>6, <2>1 DEF Deliver, RunRequest, Execution
<1>7. ASSUME NEW p \in Procs, Step(p) PROVE Goal
  <2>1. CASE Start(p) BY <1>3, <1>4, <2>1, ProcTypes DEF Start
  <2>2. CASE Park(p) \/ FailRaised(p) \/ Complete(p)
    BY <1>3, <2>2 DEF Park, FailRaised, Fail, Complete
  <2>3. CASE LoadResolution(p) BY <1>2, <2>3 DEF LoadResolution
  <2>4. ASSUME NEW o \in Outputs, Return(p, o) PROVE Goal
    <3>1. p = q /\ proc'[q] = [proc[p] EXCEPT !.pc = "returned", !.output = o]
      BY <1>2, <2>4 DEF Return
    <3>2. proc[p] \in Executions BY <2>4, ProcTypes DEF Return
    <3>3. proc'[q].pc = "returned" BY <3>1, <3>2 DEF Executions
    <3> QED BY <2>4, <3>1, <3>3
  <2> QED BY <1>7, <2>1, <2>2, <2>3, <2>4 DEF Step
<1>8. ASSUME NEW p \in Procs, Refuse(p) \/ Crash(p) PROVE Goal
  BY <1>3, <1>8 DEF Refuse, Fail, Crash
<1>9. ASSUME NEW p \in Procs, NEW error \in {"retryable", "final"}, Raise(p, error) PROVE Goal
  BY <1>4, <1>9, ProcTypes DEF Raise
<1>10. CASE UNCHANGED proc BY <1>10
<1> QED BY <1>5, <1>6, <1>7, <1>8, <1>9, <1>10
        DEF HarnessNext, Release, Lapse, Stall, Heartbeat, Command, Retry, Answer, harnessVars

\* A result is accepted only when a process completes with it.
LEMMA AcceptedByProcess ==
  ASSUME StoreInv, ProcInv, HarnessNext
  PROVE  \/ UNCHANGED accepted
         \/ \E p \in Procs : /\ At(p, "returned") /\ UNCHANGED log
                             /\ CompleteBoundary(proc[p].task, proc[p].attempt, proc[p].output)
<1>1. ASSUME NEW p \in Procs, Step(p)
      PROVE  \/ UNCHANGED accepted
             \/ /\ At(p, "returned") /\ UNCHANGED log
                /\ CompleteBoundary(proc[p].task, proc[p].attempt, proc[p].output)
  BY <1>1, Zenon DEF Step, Start, StartTask, LoadResolution, Park, ParkBoundary, FailRaised, Fail,
     FailTask, Complete, RejectBoundary, Return, vars
<1>2. CASE UNCHANGED accepted BY <1>2
<1> QED BY <1>1, <1>2, Zenon DEF HarnessNext, Release, EnqueueTask, Lapse, Stall, LeaseExpires,
     Heartbeat, HeartbeatTask, Claim, ClaimTask, Deliver, RunRequest, StartExternalExecution,
     Refuse, Fail, FailTask, Crash, Raise, Command, Retry, RetryCommand, Answer, ResolveCommand,
     PauseCommand, ResumeCommand, CancelCommand, vars

-----------------------------------------------------------------------------
(***************************************************************************)
(* Answers: what an interaction returns, and what is accepted of it.       *)
(***************************************************************************)

\* What an interaction has returned stays in the log until it is accepted.
LEMMA AnsweredStep ==
  ASSUME HarnessInv, StoreInv', ProcInv', HarnessNext
  PROVE  ReturnedInv' /\ AcceptedWasAnswered'
<1> USE DEF HarnessInv
<1>0. TypeOK /\ TypeOK' BY DEF StoreInv
<1>1. UNCHANGED interactive BY <1>0, LogMoves
<1>2. ReturnedInv'
  <2> SUFFICES ASSUME NEW q \in Procs, proc'[q].pc = "returned", proc'[q].task \in interactive
               PROVE  \E i \in DOMAIN log'[proc'[q].task] :
                        log'[proc'[q].task][i] = proc'[q].output
    BY <1>1 DEF ReturnedInv, At
  <2>1. CASE proc'[q] = proc[q]
    <3>1. At(q, "returned") BY <2>1 DEF At
    <3>2. proc[q].task \in Tasks BY <3>1, ProcTypes
    <3>3. PICK i \in DOMAIN log[proc[q].task] : log[proc[q].task][i] = proc[q].output
      BY <2>1, <3>1 DEF ReturnedInv
    <3> QED BY <1>0, <2>1, <3>2, <3>3, LogGrows
  <2>2. CASE proc'[q] # proc[q]
    <3>1. CASE LoadResolution(q)
      <4> DEFINE t == proc[q].task
      <4>1. proc[q] \in Executions /\ t \in Tasks BY <3>1, ProcTypes DEF LoadResolution
      <4>2. UNCHANGED log BY <3>1 DEF LoadResolution
      <4>3. proc'[q] = IF Resolution(t) = NoAnswer THEN [proc[q] EXCEPT !.pc = "parking"]
                       ELSE [proc[q] EXCEPT !.pc = "returned", !.output = Resolution(t)]
        BY <3>1 DEF LoadResolution, Become, ProcInv
      <4>4. /\ Resolution(t) # NoAnswer
            /\ proc'[q].task = t /\ proc'[q].output = Resolution(t)
        BY <4>1, <4>3 DEF Executions
      <4> QED BY <4>1, <4>2, <4>4, ResolutionFound
    <3>2. ASSUME NEW o \in Outputs, Return(q, o) PROVE FALSE
      <4>1. proc[q] \in Executions BY <3>2, ProcTypes DEF Return
      <4>2. proc'[q].task = proc[q].task BY <3>2, <4>1 DEF Return, Become, ProcInv, Executions
      <4> QED BY <3>2, <4>2 DEF Return
    <3> QED BY <2>2, <3>1, <3>2, ProcMoves
  <2> QED BY <2>1, <2>2
<1>3. AcceptedWasAnswered'
  <2> SUFFICES ASSUME NEW t \in interactive, taskStatus'[t] = "SUCCEEDED"
               PROVE  \E i \in DOMAIN log'[t] : log'[t][i] = accepted'[t].output
    BY <1>1 DEF AcceptedWasAnswered
  <2>1. t \in Tasks BY DEF ProcInv
  <2>2. CASE UNCHANGED accepted
    <3>1. taskStatus[t] = "SUCCEEDED"
      BY <2>1, <2>2 DEF StoreInv, RowsInv, AcceptedEvidence
    <3>2. PICK i \in DOMAIN log[t] : log[t][i] = accepted[t].output
      BY <3>1 DEF AcceptedWasAnswered
    <3> QED BY <1>0, <2>1, <2>2, <3>2, LogGrows
  <2>3. ASSUME NEW p \in Procs, At(p, "returned"), UNCHANGED log,
               CompleteBoundary(proc[p].task, proc[p].attempt, proc[p].output)
        PROVE  \E i \in DOMAIN log'[t] : log'[t][i] = accepted'[t].output
    <3>1. proc[p].task \in Tasks BY <2>3, ProcTypes
    <3>2. CASE proc[p].task = t
      <4>1. accepted'[t].output = proc[p].output
        BY <1>0, <2>1, <2>3, <3>2 DEF CompleteBoundary, TypeOK
      <4> QED BY <2>3, <3>2, <4>1 DEF ReturnedInv
    <3>3. CASE proc[p].task # t
      <4>1. taskStatus[t] = "SUCCEEDED" /\ accepted'[t] = accepted[t]
        BY <1>0, <2>1, <2>3, <3>1, <3>3 DEF CompleteBoundary, SetTask, TypeOK
      <4> QED BY <2>3, <4>1 DEF AcceptedWasAnswered
    <3> QED BY <3>2, <3>3
  <2> QED BY <2>2, <2>3, AcceptedByProcess
<1> QED BY <1>2, <1>3

-----------------------------------------------------------------------------
(***************************************************************************)
(* Requests: a person is asked once.                                       *)
(***************************************************************************)

\* The local posture stays free of external reservations.
LEMMA PostureStep ==
  ASSUME TypeOK, ProcInv, PostureInv, HarnessNext PROVE PostureInv'
<1> SUFFICES ASSUME posture = "local" PROVE UNCHANGED external
  BY LogMoves DEF PostureInv
<1>1. ASSUME NEW p \in Procs, Step(p) PROVE UNCHANGED external
  BY <1>1, Zenon DEF Step, Start, StartTask, LoadResolution, Park, ParkBoundary, FailRaised, Fail,
     FailTask, Complete, CompleteBoundary, RejectBoundary, Return, vars
<1>2. ASSUME NEW d \in Deliveries, NEW t \in Tasks, Deliver(d, t) PROVE FALSE
  BY <1>2 DEF Deliver
<1> QED BY <1>1, <1>2, Zenon DEF HarnessNext, Release, EnqueueTask, Lapse, Stall, LeaseExpires,
     Heartbeat, HeartbeatTask, Claim, ClaimTask, Refuse, Fail, FailTask, Crash, Raise, Command,
     Retry, RetryCommand, Answer, ResolveCommand, PauseCommand, ResumeCommand, CancelCommand, vars

\* A task that waits for an approval, or is cancelled, is moved by an answer only.
LEMMA WaitingStays ==
  ASSUME TypeOK, NEW t \in Tasks, taskStatus[t] \in {"NEEDS_APPROVAL", "CANCELLED"},
         OtherTransaction
  PROVE  taskStatus'[t] \in {"NEEDS_APPROVAL", "CANCELLED"}
<1> USE DEF TypeOK, SetTask
<1>1. ASSUME NEW u \in Tasks, \/ EnqueueTask(u, "READY") \/ ClaimTask(u)
                              \/ LeaseExpires(u) \/ StartExternalExecution(u)
      PROVE  taskStatus'[t] = taskStatus[t]
  BY <1>1 DEF EnqueueTask, ClaimTask, Claimable, LeaseExpires, StartExternalExecution
<1>2. ASSUME NEW u \in Tasks, NEW n \in Attempts,
             \/ StartTask(u, n) \/ HeartbeatTask(u, n) \/ RejectBoundary(u, n)
             \/ (\E r \in BOOLEAN : FailTask(u, n, r))
             \/ \E o \in Outputs : CompleteBoundary(u, n, o)
      PROVE  taskStatus'[t] = taskStatus[t]
  BY <1>2 DEF StartTask, Startable, HeartbeatTask, RejectBoundary, FailTask, OwnsLease,
     CompleteBoundary, BoundaryFence, LocalFence, ExternalFence
<1>3. ASSUME NEW c \in CommandIds, PauseCommand(c) \/ ResumeCommand(c) \/ CancelCommand(c)
      PROVE  taskStatus'[t] \in {"NEEDS_APPROVAL", "CANCELLED"}
  BY <1>3 DEF PauseCommand, ResumeCommand, CancelCommand
<1>4. CASE UNCHANGED vars BY <1>4 DEF vars
<1> QED BY <1>1, <1>2, <1>3, <1>4 DEF OtherTransaction

\* A lease that was lost is never granted to the same attempt again.
LEMMA LeaseNotRegranted ==
  ASSUME TypeOK, [Next]_vars, NEW t \in Tasks, NEW n \in Attempts,
         n <= lastAttempt[t], lease'[t] = n
  PROVE  lease[t] = n
<1> USE DEF TypeOK, Attempts, ReleaseLease, GrantLease
<1>1. ASSUME NEW u \in Tasks, ClaimTask(u) PROVE lease[t] = n
  BY <1>1 DEF ClaimTask
<1>2. ASSUME NEW u \in Tasks, NEW m \in Attempts,
             \/ RejectBoundary(u, m)
             \/ (\E s \in Awaiting : ParkBoundary(u, m, s))
             \/ (\E r \in BOOLEAN : FailTask(u, m, r))
             \/ \E o \in Outputs : CompleteBoundary(u, m, o)
      PROVE  lease[t] = n
  BY <1>2 DEF RejectBoundary, ParkBoundary, FailTask, CompleteBoundary
<1>3. ASSUME NEW c \in CommandIds, CancelCommand(c) PROVE lease[t] = n
  BY <1>3 DEF CancelCommand
<1>4. CASE UNCHANGED lease BY <1>4
<1> QED BY <1>1, <1>2, <1>3, <1>4
        DEF Next, SchedulerStep, EnqueueTask, ReadyTask, CompleteRunCount, CompleteRun, FailRun,
            WorkerStep, LeaseExpires, StartExternalExecution, StartTask, HeartbeatTask,
            CheckpointTask, CommandStep, PauseCommand, ResumeCommand, SignalCommand,
            RetryCommand, ResolveCommand, vars

\* A fenced request is the first of its task.
LEMMA FirstToAsk ==
  ASSUME HarnessInv, posture = "local", NEW p \in Procs, At(p, "parking"),
         BoundaryFence(proc[p].task, proc[p].attempt)
  PROVE  Asks(proc[p].task) = {}
<1>1. proc[p].task \in Tasks /\ proc[p].attempt \in Attempts BY ProcTypes DEF HarnessInv
<1>2. external[proc[p].task] = 0 BY <1>1 DEF HarnessInv, PostureInv
<1>3. lease[proc[p].task] = proc[p].attempt
  BY <1>1, <1>2 DEF BoundaryFence, LocalFence, ExternalFence, Attempts
<1> QED BY <1>3 DEF HarnessInv, ParkingInv

\* Whoever asks, answers or retries, a task is asked once and leaves the wait
\* for its answer with the answer only.
LEMMA AskedStep ==
  ASSUME HarnessInv, HarnessNext PROVE AskedInv'
<1> USE DEF HarnessInv
<1>0. TypeOK BY DEF StoreInv
<1>1. SUFFICES ASSUME posture = "local", NEW t \in Tasks
               PROVE  /\ \A i, j \in Asks(t)' : i = j
                      /\ taskStatus'[t] \notin {"NEEDS_APPROVAL", "CANCELLED"} =>
                           Asks(t)' = {} \/ Answered(t)'
  BY <1>0, LogMoves DEF AskedInv
<1> DEFINE Goal == /\ \A i, j \in Asks(t)' : i = j
                   /\ taskStatus'[t] \notin {"NEEDS_APPROVAL", "CANCELLED"} =>
                        Asks(t)' = {} \/ Answered(t)'
<1>a. /\ \A i, j \in Asks(t) : i = j
      /\ taskStatus[t] \notin {"NEEDS_APPROVAL", "CANCELLED"} => Asks(t) = {} \/ Answered(t)
  BY <1>1 DEF AskedInv
<1>b. ASSUME log'[t] = log[t] PROVE Asks(t)' = Asks(t) /\ (Answered(t)' <=> Answered(t))
  BY <1>b DEF Asks, Answered
<1>2. CASE UNCHANGED log /\ OtherTransaction
  <2>1. taskStatus[t] \in {"NEEDS_APPROVAL", "CANCELLED"} =>
          taskStatus'[t] \in {"NEEDS_APPROVAL", "CANCELLED"}
    BY <1>0, <1>2, WaitingStays
  <2> QED BY <1>2, <1>a, <1>b, <2>1
<1>3. ASSUME NEW c \in CommandIds, NEW u \in Tasks, NEW a \in Answers \cup {Retried},
             Logged(u, a), a = Retried => taskStatus[u] = "FAILED",
             taskStatus' = [taskStatus EXCEPT ![u] = "READY"]
      PROVE  Goal
  <2>1. CASE u # t
    <3>1. log'[t] = log[t] /\ taskStatus'[t] = taskStatus[t]
      BY <1>0, <1>3, <2>1, LoggedType DEF TypeOK
    <3> QED BY <1>a, <1>b, <3>1
  <2>2. CASE u = t
    <3>1. /\ DOMAIN log[t] = 1 .. Len(log[t]) /\ DOMAIN log'[t] = 1 .. Len(log[t]) + 1
          /\ Len(log[t]) \in Nat
          /\ \A i \in DOMAIN log[t] : log'[t][i] = log[t][i]
          /\ log'[t][Len(log[t]) + 1] = a
      BY <1>3, <2>2, LoggedType
    <3>2. a # Requested BY <1>3, HarnessAssumption DEF Requested, Retried
    <3>3. Asks(t)' = Asks(t) BY <3>1, <3>2 DEF Asks
    <3>4. CASE a \in Answers
      <4>1. \A j \in Asks(t) : j < Len(log[t]) + 1 BY <3>1 DEF Asks
      <4>2. Answered(t)' BY <3>1, <3>3, <3>4, <4>1 DEF Answered
      <4> QED BY <1>a, <3>3, <4>2
    <3>5. CASE a = Retried
      <4>1. Asks(t) = {} \/ Answered(t) BY <1>3, <1>a, <2>2, <3>5
      <4>2. Answered(t) => Answered(t)' BY <3>1, <3>3 DEF Answered
      <4> QED BY <1>a, <3>3, <4>1, <4>2
    <3> QED BY <1>3, <3>4, <3>5
  <2> QED BY <2>1, <2>2
<1>4. ASSUME NEW p \in Procs, At(p, "parking"), Logged(proc[p].task, Requested),
             ParkBoundary(proc[p].task, proc[p].attempt, "NEEDS_APPROVAL")
      PROVE  Goal
  <2> DEFINE u == proc[p].task
  <2>0. u \in Tasks BY <1>4, ProcTypes
  <2>1. Asks(u) = {} BY <1>1, <1>4, FirstToAsk DEF ParkBoundary
  <2>2. taskStatus' = [taskStatus EXCEPT ![u] = "NEEDS_APPROVAL"]
    BY <1>4 DEF ParkBoundary, SetTask
  <2> HIDE DEF u
  <2>3. CASE u # t
    <3>1. log'[t] = log[t] /\ taskStatus'[t] = taskStatus[t]
      BY <1>0, <1>4, <2>0, <2>2, <2>3, LoggedType DEF TypeOK, u
    <3> QED BY <1>a, <1>b, <3>1
  <2>4. CASE u = t
    <3>1. /\ DOMAIN log[t] = 1 .. Len(log[t]) /\ DOMAIN log'[t] = 1 .. Len(log[t]) + 1
          /\ Len(log[t]) \in Nat
          /\ \A i \in DOMAIN log[t] : log'[t][i] = log[t][i]
      BY <1>4, <2>0, <2>4, LoggedType DEF u
    <3>2. \A i \in Asks(t)' : i = Len(log[t]) + 1 BY <2>1, <2>4, <3>1 DEF Asks
    <3>3. taskStatus'[t] = "NEEDS_APPROVAL" BY <1>0, <2>2, <2>4 DEF TypeOK
    <3> QED BY <3>2, <3>3
  <2> QED BY <2>3, <2>4
<1>5. ASSUME NEW c \in CommandIds, NEW u \in Tasks, NEW a \in Answers, Answer(c, u, a)
      PROVE  Goal
  <2>1. a # Retried BY HarnessAssumption
  <2> QED BY <1>3, <1>5, <2>1 DEF Answer, ResolveCommand, SetTask
<1>6. ASSUME NEW c \in CommandIds, NEW u \in Tasks, Retry(c, u) PROVE Goal
  BY <1>3, <1>6 DEF Retry, RetryCommand, SetTask
<1> QED BY <1>0, <1>2, <1>4, <1>5, <1>6, LogMoves

\* A process that has read the log before an answer came, and is about to ask,
\* has lost its lease to whoever asked before it.
LEMMA ParkingStep ==
  ASSUME HarnessInv, ProcInv', HarnessNext PROVE ParkingInv'
<1> USE DEF HarnessInv
<1>0. TypeOK /\ [Next]_vars BY HarnessStoreStep DEF StoreInv
<1>a. ASSUME NEW q \in Procs, proc'[q].pc = "parking"
      PROVE  proc'[q].task \in Tasks /\ proc'[q].attempt \in Attempts
  BY <1>a DEF ProcInv, Executions, Free
<1>1. SUFFICES ASSUME posture = "local", NEW q \in Procs, proc'[q].pc = "parking",
                      NEW t \in Tasks, NEW n \in Attempts,
                      proc'[q].task = t, proc'[q].attempt = n, lease'[t] = n
               PROVE  \A i \in DOMAIN log'[t] : log'[t][i] # Requested
  BY <1>0, <1>a, LogMoves DEF ParkingInv, At, Asks
<1>2. CASE proc'[q] # proc[q]
  <2>1. LoadResolution(q) BY <1>1, <1>2, ProcMoves
  <2>2. proc[q] \in Executions BY <2>1, ProcTypes DEF LoadResolution
  <2>3. UNCHANGED <<log, lease>> BY <2>1 DEF LoadResolution, vars
  <2>4. proc'[q] = IF Resolution(proc[q].task) = NoAnswer
                   THEN [proc[q] EXCEPT !.pc = "parking"]
                   ELSE [proc[q] EXCEPT !.pc = "returned",
                                        !.output = Resolution(proc[q].task)]
    BY <2>1 DEF LoadResolution, Become, ProcInv
  <2>5. Resolution(t) = NoAnswer BY <1>1, <2>2, <2>4 DEF Executions
  <2>6. lease[t] # 0 BY <1>1, <2>3 DEF Attempts
  <2>7. taskStatus[t] \in {"LEASED", "RUNNING"}
    BY <2>6 DEF StoreInv, RowsInv, LeaseExclusive
  <2>8. Asks(t) = {} \/ Answered(t) BY <1>1, <2>7 DEF AskedInv
  <2>9. Asks(t) = {} BY <2>5, <2>8, ResolutionFound
  <2> QED BY <2>3, <2>9 DEF Asks
<1>3. CASE proc'[q] = proc[q]
  <2>1. At(q, "parking") /\ Busy(q) BY <1>1, <1>3, ProcTypes DEF At
  <2>2. n <= lastAttempt[t] BY <1>1, <1>3, <2>1 DEF ProcInv
  <2>3. lease[t] = n BY <1>0, <1>1, <2>2, LeaseNotRegranted
  <2>4. Asks(t) = {} BY <1>1, <1>3, <2>1, <2>3 DEF ParkingInv
  <2>5. \A i \in DOMAIN log[t] : log[t][i] # Requested BY <2>4 DEF Asks
  <2>6. ASSUME NEW u \in Tasks, NEW a \in {Requested, Retried} \cup Answers, Logged(u, a),
               a = Requested => u # t
        PROVE  \A i \in DOMAIN log'[t] : log'[t][i] # Requested
    <3>1. CASE u # t BY <2>5, <2>6, <3>1, LoggedType
    <3>2. CASE u = t
      <4>1. /\ DOMAIN log[t] = 1 .. Len(log[t]) /\ DOMAIN log'[t] = 1 .. Len(log[t]) + 1
            /\ Len(log[t]) \in Nat
            /\ \A i \in DOMAIN log[t] : log'[t][i] = log[t][i]
            /\ log'[t][Len(log[t]) + 1] = a
        BY <2>6, <3>2, LoggedType
      <4> QED BY <2>5, <2>6, <3>2, <4>1
    <3> QED BY <3>1, <3>2
  <2>7. CASE UNCHANGED log BY <2>5, <2>7
  <2>8. ASSUME NEW p \in Procs, At(p, "parking"), Logged(proc[p].task, Requested),
               ParkBoundary(proc[p].task, proc[p].attempt, "NEEDS_APPROVAL")
        PROVE  \A i \in DOMAIN log'[t] : log'[t][i] # Requested
    <3>1. proc[p].task \in Tasks BY <2>8, ProcTypes
    <3>2. lease'[proc[p].task] = 0
      BY <1>0, <2>8, <3>1 DEF ParkBoundary, ReleaseLease, TypeOK
    <3>3. proc[p].task # t BY <1>1, <3>2 DEF Attempts
    <3> QED BY <2>6, <2>8, <3>1, <3>3
  <2>9. ASSUME NEW u \in Tasks, Logged(u, Retried) \/ \E a \in Answers : Logged(u, a)
        PROVE  \A i \in DOMAIN log'[t] : log'[t][i] # Requested
    BY <2>6, <2>9, HarnessAssumption DEF Requested, Retried
  <2> QED BY <1>0, <2>7, <2>8, <2>9, LogMoves DEF Answer, Retry
<1> QED BY <1>2, <1>3

-----------------------------------------------------------------------------
(***************************************************************************)
(* The theorems.                                                           *)
(***************************************************************************)

\* The initial state: no process is busy and nothing is in the log.
LEMMA InitHarnessInv == HarnessInit => HarnessInv
<1> SUFFICES ASSUME HarnessInit PROVE HarnessInv OBVIOUS
<1>1. StoreInv BY InitStoreInv DEF HarnessInit
<1>2. ProcInv
  <2>1. /\ proc \in [Procs -> {Free} \cup Executions]
        /\ \A p \in Procs : proc[p] = Free
    BY DEF HarnessInit
  <2>2. log \in [Tasks -> Seq({Requested, Retried} \cup Answers)] BY DEF HarnessInit
  <2>3. faults \in 0 .. FaultBound BY HarnessAssumption DEF HarnessInit
  <2> QED BY <2>1, <2>2, <2>3 DEF HarnessInit, ProcInv, Busy, At, Free
<1>3. ReturnedInv BY DEF HarnessInit, ReturnedInv, At, Free
<1>4. AcceptedWasAnswered BY DEF HarnessInit, Init, AcceptedWasAnswered
<1>5. PostureInv BY DEF HarnessInit, Init, PostureInv
<1>6. \A t \in Tasks : Asks(t) = {}
  <2>1. \A t \in Tasks : log[t] = <<>> BY DEF HarnessInit
  <2>2. DOMAIN <<>> = {} /\ Len(<<>>) = 0
    <3>1. <<>> \in Seq({}) /\ Len(<<>>) = 0 OBVIOUS
    <3>2. DOMAIN <<>> = 1 .. 0 BY <3>1
    <3> QED BY <3>1, <3>2
  <2> QED BY <2>1, <2>2 DEF Asks
<1>7. AskedInv BY <1>6 DEF AskedInv
<1>8. ParkingInv BY DEF HarnessInit, ParkingInv, At, Free
<1> QED BY <1>1, <1>2, <1>3, <1>4, <1>5, <1>7, <1>8 DEF HarnessInv

\* No step of any process breaks the invariant.
LEMMA HarnessInvStep == HarnessInv /\ [HarnessNext]_allVars => HarnessInv'
<1> SUFFICES ASSUME HarnessInv, [HarnessNext]_allVars PROVE HarnessInv' OBVIOUS
<1>1. CASE HarnessNext
  <2>1. StoreInv /\ TypeOK /\ ProcInv /\ PostureInv BY DEF HarnessInv, StoreInv
  <2>2. [Next]_vars BY <1>1, <2>1, HarnessStoreStep
  <2>3. StoreInv' BY <2>1, <2>2, TypeStep, RowsStep DEF StoreInv
  <2>4. ProcInv' BY <1>1, <2>1, <2>3, ProcStep
  <2>5. ReturnedInv' /\ AcceptedWasAnswered' BY <1>1, <2>3, <2>4, AnsweredStep
  <2>6. PostureInv' BY <1>1, <2>1, PostureStep
  <2>7. AskedInv' BY <1>1, AskedStep
  <2>8. ParkingInv' BY <1>1, <2>4, ParkingStep
  <2> QED BY <2>3, <2>4, <2>5, <2>6, <2>7, <2>8 DEF HarnessInv
<1>2. CASE UNCHANGED allVars
  <2>1. UNCHANGED vars /\ UNCHANGED harnessVars BY <1>2 DEF allVars
  <2>2. StoreInv' BY <2>1, TypeStep, RowsStep DEF HarnessInv, StoreInv
  <2>3. UNCHANGED <<posture, interactive, log, open, proc, faults>> BY <2>1 DEF harnessVars
  <2>4. UNCHANGED <<lastAttempt, taskStatus, accepted, external, lease>> BY <2>1 DEF vars
  <2>5. ProcInv' /\ ReturnedInv' BY <2>3, <2>4 DEF HarnessInv, ProcInv, ReturnedInv, Busy, At
  <2>6. AcceptedWasAnswered' /\ PostureInv'
    BY <2>3, <2>4 DEF HarnessInv, AcceptedWasAnswered, PostureInv
  <2>7. AskedInv' BY <2>3, <2>4 DEF HarnessInv, AskedInv, Asks, Answered
  <2>8. ParkingInv' BY <2>3, <2>4 DEF HarnessInv, ParkingInv, Asks, At
  <2> QED BY <2>2, <2>5, <2>6, <2>7, <2>8 DEF HarnessInv
<1> QED BY <1>1, <1>2

\* The inductive invariant holds of every state of the harness.
THEOREM HarnessInvariant == HarnessSpec => []HarnessInv
BY InitHarnessInv, HarnessInvStep, PTL DEF HarnessSpec

\* The workers, the deliveries and the commands drive the store through its
\* transactions only: what is proved of every behaviour of the store holds
\* under them.
THEOREM HarnessImplementsStore == HarnessSpec => Spec
<1>1. HarnessInit => Init BY DEF HarnessInit
<1>2. HarnessInv /\ [HarnessNext]_allVars => [Next]_vars
  <2> SUFFICES ASSUME HarnessInv, [HarnessNext]_allVars PROVE [Next]_vars OBVIOUS
  <2>1. CASE HarnessNext BY <2>1, HarnessStoreStep DEF HarnessInv, StoreInv
  <2>2. CASE UNCHANGED allVars BY <2>2 DEF allVars
  <2> QED BY <2>1, <2>2
<1> QED BY <1>1, <1>2, HarnessInvariant, PTL DEF HarnessSpec, Spec

\* A busy process holds a task and an attempt row that exists, whatever claims,
\* reservations and faults came in between.
THEOREM HarnessTyped == HarnessSpec => []HarnessTypeOK
<1>1. HarnessInv => HarnessTypeOK
  <2> SUFFICES ASSUME HarnessInv PROVE HarnessTypeOK OBVIOUS
  <2>1. TypeOK /\ ProcInv BY DEF HarnessInv, StoreInv
  <2>2. ASSUME NEW p \in Procs, Busy(p)
        PROVE  /\ proc[p].pc \in {"claimed", "started", "parking", "returned", "retryable", "final"}
               /\ proc[p].task \in Tasks /\ proc[p].attempt \in 1 .. lastAttempt[proc[p].task]
    <3>1. proc[p] \in Executions /\ proc[p].task \in Tasks /\ proc[p].attempt \in Attempts
      BY <2>1, <2>2, ProcTypes
    <3>2. proc[p].attempt <= lastAttempt[proc[p].task] BY <2>1, <2>2 DEF ProcInv
    <3> QED BY <2>1, <3>1, <3>2 DEF Executions, Attempts, TypeOK
  <2>3. \A t \in Tasks : \A i \in DOMAIN log[t] : log[t][i] \in {Requested, Retried} \cup Answers
    BY <2>1 DEF ProcInv
  <2> QED BY <2>1, <2>2, <2>3 DEF HarnessTypeOK, ProcInv
<1> QED BY <1>1, HarnessInvariant, PTL

\* An accepted interaction has an answer that some accepted command gave.
THEOREM HarnessAnswered == HarnessSpec => []AcceptedWasAnswered
<1>1. HarnessInv => AcceptedWasAnswered BY DEF HarnessInv
<1> QED BY <1>1, HarnessInvariant, PTL

\* In the local posture a person is asked at most once for a task, although a
\* worker decides to ask on what it has read before.
THEOREM HarnessAskedOnce == HarnessSpec => []LocalAskedOnce
<1>1. HarnessInv => LocalAskedOnce
  <2> SUFFICES ASSUME HarnessInv, posture = "local", NEW t \in Tasks
               PROVE  Cardinality(Asks(t)) <= 1
    BY DEF LocalAskedOnce, Asks
  <2>1. \A i, j \in Asks(t) : i = j BY DEF HarnessInv, AskedInv
  <2>2. CASE Asks(t) = {} BY <2>2, FS_EmptySet
  <2>3. CASE Asks(t) # {}
    <3>1. PICK i \in Asks(t) : TRUE BY <2>3
    <3>2. Asks(t) = {i} BY <2>1, <3>1
    <3> QED BY <3>2, FS_Singleton
  <2> QED BY <2>2, <2>3
<1> QED BY <1>1, HarnessInvariant, PTL

-----------------------------------------------------------------------------
(***************************************************************************)
(* The executions of a task compete as Execution says.                     *)
(***************************************************************************)

\* No transaction leaves a lease alive that nobody owns; under deliveries there
\* are no leases, and a task fails with its reservation only.
CompetitionInv ==
  \A t \in Tasks :
    /\ lease[t] = 0 => ~leaseLive[t]
    /\ posture = "external" => lease[t] = 0
    /\ posture = "external" /\ taskStatus[t] = "FAILED" => Stranded(t)

\* The rows that Execution sees of a task.
Unmoved(t) ==
  /\ taskStatus'[t] = taskStatus[t] /\ lease'[t] = lease[t] /\ leaseLive'[t] = leaseLive[t]
  /\ external'[t] = external[t] /\ attemptStatus'[t] = attemptStatus[t]

\* What becomes of one task in a step of the harness.
TaskMove(t) ==
  \/ Unmoved(t)
  \/ EnqueueTask(t, "READY") \/ LeaseExpires(t)
  \/ posture = "local" /\ ClaimTask(t)
  \/ posture = "external" /\ StartExternalExecution(t)
  \/ \E n \in Attempts : StartTask(t, n) \/ HeartbeatTask(t, n) \/ RejectBoundary(t, n)
  \/ \E n \in Attempts, r \in BOOLEAN : FailTask(t, n, r)
  \/ \E n \in Attempts, o \in Outputs : CompleteBoundary(t, n, o)
  \/ \E n \in Attempts : ParkBoundary(t, n, "NEEDS_APPROVAL")
  \/ \E c \in CommandIds : CancelCommand(c) \/ RetryCommand(c, t) \/ ResolveCommand(c, t)

\* A transaction on another task does not touch the rows of this one.
LEMMA OthersUnmoved ==
  ASSUME TypeOK, NEW t \in Tasks, NEW u \in Tasks, t # u,
         \/ EnqueueTask(u, "READY") \/ LeaseExpires(u) \/ ClaimTask(u)
         \/ StartExternalExecution(u)
         \/ \E n \in Attempts : StartTask(u, n) \/ HeartbeatTask(u, n) \/ RejectBoundary(u, n)
         \/ \E n \in Attempts, r \in BOOLEAN : FailTask(u, n, r)
         \/ \E n \in Attempts, o \in Outputs : CompleteBoundary(u, n, o)
         \/ \E n \in Attempts : ParkBoundary(u, n, "NEEDS_APPROVAL")
         \/ \E c \in CommandIds : RetryCommand(c, u) \/ ResolveCommand(c, u)
  PROVE  Unmoved(t)
<1> USE DEF TypeOK, Unmoved, SetTask, SetAttempt, ReleaseLease, GrantLease
<1>1. CASE EnqueueTask(u, "READY") \/ LeaseExpires(u) \/ ClaimTask(u)
  BY <1>1 DEF EnqueueTask, LeaseExpires, ClaimTask
<1>2. CASE StartExternalExecution(u)
  BY <1>2 DEF StartExternalExecution, ReserveExternal, ResumeExternal
<1>3. CASE \E n \in Attempts : StartTask(u, n) \/ HeartbeatTask(u, n) \/ RejectBoundary(u, n)
  BY <1>3 DEF StartTask, HeartbeatTask, RejectBoundary
<1>4. CASE \E n \in Attempts, r \in BOOLEAN : FailTask(u, n, r) BY <1>4 DEF FailTask
<1>5. CASE \E n \in Attempts, o \in Outputs : CompleteBoundary(u, n, o)
  BY <1>5 DEF CompleteBoundary
<1>6. CASE \E n \in Attempts : ParkBoundary(u, n, "NEEDS_APPROVAL") BY <1>6 DEF ParkBoundary
<1>7. CASE \E c \in CommandIds : RetryCommand(c, u) \/ ResolveCommand(c, u)
  BY <1>7 DEF RetryCommand, ResolveCommand
<1> QED BY <1>1, <1>2, <1>3, <1>4, <1>5, <1>6, <1>7

\* Every step of the harness is one of these moves for each task.
LEMMA StepMovesTask ==
  ASSUME HarnessInv, [HarnessNext]_allVars, NEW t \in Tasks
  PROVE  posture' = posture /\ TaskMove(t)
<1>1. TypeOK /\ ProcInv BY DEF HarnessInv, StoreInv
<1>2. CASE UNCHANGED allVars
  BY <1>2 DEF allVars, vars, harnessVars, TaskMove, Unmoved
<1>3. CASE HarnessNext
  <2>1. UNCHANGED posture BY <1>1, <1>3, LogMoves
  <2>2. ASSUME OtherTransaction PROVE TaskMove(t)
    <3>1. ASSUME NEW u \in Tasks,
                 \/ EnqueueTask(u, "READY") \/ LeaseExpires(u)
                 \/ posture = "local" /\ ClaimTask(u)
                 \/ posture = "external" /\ StartExternalExecution(u)
          PROVE  TaskMove(t)
      BY <1>1, <3>1, OthersUnmoved DEF TaskMove
    <3>2. ASSUME NEW u \in Tasks, NEW n \in Attempts,
                 \/ StartTask(u, n) \/ HeartbeatTask(u, n) \/ RejectBoundary(u, n)
                 \/ (\E r \in BOOLEAN : FailTask(u, n, r))
                 \/ \E o \in Outputs : CompleteBoundary(u, n, o)
          PROVE  TaskMove(t)
      BY <1>1, <3>2, OthersUnmoved DEF TaskMove
    <3>3. ASSUME NEW c \in CommandIds, PauseCommand(c) \/ ResumeCommand(c)
          PROVE  TaskMove(t)
      BY <3>3 DEF PauseCommand, ResumeCommand, TaskMove, Unmoved
    <3>4. ASSUME NEW c \in CommandIds, CancelCommand(c) PROVE TaskMove(t)
      BY <3>4 DEF TaskMove
    <3>5. CASE UNCHANGED vars BY <3>5 DEF vars, TaskMove, Unmoved
    <3> QED BY <2>2, <3>1, <3>2, <3>3, <3>4, <3>5 DEF OtherTransaction
  <2>3. ASSUME NEW c \in CommandIds, NEW u \in Tasks, Retry(c, u) PROVE TaskMove(t)
    BY <1>1, <2>3, OthersUnmoved DEF Retry, TaskMove
  <2>4. ASSUME NEW c \in CommandIds, NEW u \in Tasks, NEW a \in Answers, Answer(c, u, a)
        PROVE  TaskMove(t)
    BY <1>1, <2>4, OthersUnmoved DEF Answer, TaskMove
  <2>5. ASSUME NEW p \in Procs, At(p, "parking"),
               ParkBoundary(proc[p].task, proc[p].attempt, "NEEDS_APPROVAL")
        PROVE  TaskMove(t)
    <3>1. proc[p].task \in Tasks /\ proc[p].attempt \in Attempts BY <1>1, <2>5, ProcTypes
    <3> QED BY <1>1, <2>5, <3>1, OthersUnmoved DEF TaskMove
  <2> QED BY <1>1, <1>3, <2>1, <2>2, <2>3, <2>4, <2>5, LogMoves
<1> QED BY <1>2, <1>3

\* No step of the harness revives a lease that nobody owns, leases a task under
\* deliveries, or fails one without its reservation.
LEMMA CompetitionKept ==
  ASSUME HarnessInv, CompetitionInv, [HarnessNext]_allVars PROVE CompetitionInv'
<1> SUFFICES ASSUME NEW t \in Tasks
             PROVE  /\ lease'[t] = 0 => ~leaseLive'[t]
                    /\ posture' = "external" => lease'[t] = 0
                    /\ posture' = "external" /\ taskStatus'[t] = "FAILED" =>
                         external'[t] # 0 /\ attemptStatus'[t][external'[t]] = "FAILED"
  BY DEF CompetitionInv, Stranded
<1> DEFINE Goal == /\ lease'[t] = 0 => ~leaseLive'[t]
                   /\ posture = "external" => lease'[t] = 0
                   /\ posture = "external" /\ taskStatus'[t] = "FAILED" =>
                         external'[t] # 0 /\ attemptStatus'[t][external'[t]] = "FAILED"
<1>1. posture' = posture /\ TaskMove(t) BY StepMovesTask
<1>2. /\ lease[t] = 0 => ~leaseLive[t]
      /\ posture = "external" => lease[t] = 0
      /\ posture = "external" /\ taskStatus[t] = "FAILED" =>
           external[t] # 0 /\ attemptStatus[t][external[t]] = "FAILED"
  BY DEF CompetitionInv, Stranded
<1>3. /\ TypeOK
      /\ lease[t] # 0 <=> taskStatus[t] \in {"LEASED", "RUNNING"}
      /\ posture \in {"local", "external"}
  BY DEF HarnessInv, StoreInv, RowsInv, LeaseExclusive, ProcInv
<1>4. external[t] = 0 \/ external[t] \in Attempts BY <1>3 DEF TypeOK, Attempts
<1>5. \A n \in Attempts : n # 0 BY DEF Attempts
<1> USE DEF TypeOK, SetTask, SetAttempt, GrantLease, ReleaseLease
<1>6. ASSUME Unmoved(t) PROVE Goal BY <1>1, <1>2, <1>6 DEF Unmoved
<1>7. ASSUME EnqueueTask(t, "READY") PROVE Goal BY <1>1, <1>2, <1>3, <1>7 DEF EnqueueTask
<1>8. ASSUME LeaseExpires(t) PROVE Goal BY <1>1, <1>2, <1>3, <1>8 DEF LeaseExpires
<1>9. ASSUME posture = "local" /\ ClaimTask(t) PROVE Goal
  <2>1. lease'[t] = lastAttempt[t] + 1 /\ lastAttempt[t] \in Nat
    BY <1>3, <1>9, StoreAssumption DEF ClaimTask
  <2> QED BY <1>1, <1>9, <2>1
<1>10. ASSUME posture = "external" /\ StartExternalExecution(t) PROVE Goal
  BY <1>1, <1>2, <1>3, <1>10 DEF StartExternalExecution, ExternalStartable
<1>11. ASSUME NEW n \in Attempts, StartTask(t, n) \/ HeartbeatTask(t, n)
       PROVE  Goal
  BY <1>1, <1>2, <1>3, <1>5, <1>11 DEF StartTask, Startable, HeartbeatTask, OwnsLease
<1>12. ASSUME NEW n \in Attempts, RejectBoundary(t, n) PROVE Goal
  <2>1. posture = "external" => n = external[t]
    BY <1>2, <1>5, <1>12 DEF RejectBoundary, BoundaryFence, LocalFence, ExternalFence
  <2> QED BY <1>1, <1>3, <1>5, <1>12, <2>1 DEF RejectBoundary
<1>13. ASSUME NEW n \in Attempts, NEW r \in BOOLEAN, FailTask(t, n, r) PROVE Goal
  BY <1>1, <1>2, <1>3, <1>5, <1>13 DEF FailTask, OwnsLease
<1>14. ASSUME NEW n \in Attempts, NEW o \in Outputs, CompleteBoundary(t, n, o) PROVE Goal
  BY <1>1, <1>3, <1>14 DEF CompleteBoundary
<1>15. ASSUME NEW n \in Attempts, ParkBoundary(t, n, "NEEDS_APPROVAL") PROVE Goal
  BY <1>1, <1>3, <1>15 DEF ParkBoundary
<1>16. ASSUME NEW c \in CommandIds, CancelCommand(c) PROVE Goal
  BY <1>1, <1>2, <1>3, <1>4, <1>16 DEF CancelCommand, Unfinished, LiveAttempt
<1>17. ASSUME NEW c \in CommandIds, RetryCommand(c, t) \/ ResolveCommand(c, t) PROVE Goal
  BY <1>1, <1>2, <1>3, <1>17 DEF RetryCommand, ResolveCommand
<1>18. Goal
  <2> HIDE DEF Goal
  <2> QED BY <1>1, <1>6, <1>7, <1>8, <1>9, <1>10, <1>11, <1>12, <1>13, <1>14, <1>15,
             <1>16, <1>17 DEF TaskMove
<1> QED BY <1>1, <1>18

\* Locally every transaction that moves a task is one step of its executions: the
\* claim takes the lease over, and only its holder settles or abandons the task.
LEMMA LocalCompetition ==
  ASSUME HarnessInv, HarnessInv', CompetitionInv, posture = "local", posture' = posture,
         NEW t \in Tasks, TaskMove(t)
  PROVE  \/ ExecutionOf(t)!ExecutionNext
         \/ UNCHANGED <<posture, TaskView(t), lease[t], leaseLive[t]>>
<1> DEFINE Goal == \/ ExecutionOf(t)!ExecutionNext
                   \/ UNCHANGED <<posture, TaskView(t), lease[t], leaseLive[t]>>
<1>1. lease[t] = 0 => ~leaseLive[t] BY DEF CompetitionInv
<1>2. /\ TypeOK
      /\ lease[t] # 0 <=> taskStatus[t] \in {"LEASED", "RUNNING"}
  BY DEF HarnessInv, StoreInv, RowsInv, LeaseExclusive
<1>3. external[t] = 0 /\ external'[t] = 0 BY DEF HarnessInv, PostureInv
<1>4. /\ TaskView(t) = IF taskStatus[t] = "SUCCEEDED" THEN "accepted"
                       ELSE IF taskStatus[t] = "FAILED" THEN "failed" ELSE "open"
      /\ TaskView(t)' = IF taskStatus'[t] = "SUCCEEDED" THEN "accepted"
                        ELSE IF taskStatus'[t] = "FAILED" THEN "failed" ELSE "open"
  BY <1>3 DEF TaskView, Stranded
<1>5. \A n \in Attempts : n # 0 BY DEF Attempts
<1>6. /\ lease[t] \in 0 .. AttemptBound /\ leaseLive[t] \in BOOLEAN
      /\ lease[t] # 0 => lease[t] \in Attempts
  BY <1>2 DEF TypeOK, Attempts
<1> USE DEF TypeOK, SetTask, SetAttempt, GrantLease, ReleaseLease
<1>7. ASSUME Unmoved(t) PROVE Goal BY <1>3, <1>4, <1>7 DEF Unmoved
<1>8. ASSUME EnqueueTask(t, "READY") PROVE Goal BY <1>2, <1>4, <1>8 DEF EnqueueTask
<1>9. ASSUME LeaseExpires(t) PROVE Goal
  <2>1. ExecutionOf(t)!ExpireLease
    BY <1>2, <1>4, <1>9 DEF LeaseExpires, ExecutionOf!ExpireLease
  <2> QED BY <2>1 DEF ExecutionOf!ExecutionNext
<1>10. ASSUME ClaimTask(t) PROVE Goal
  <2> DEFINE n == lastAttempt[t] + 1
  <2>1. n \in Attempts BY <1>2, <1>10, StoreAssumption DEF ClaimTask, Attempts
  <2>2. /\ lease'[t] = n /\ leaseLive'[t] = TRUE /\ taskStatus'[t] = "LEASED"
        /\ taskStatus[t] = "READY" \/ (taskStatus[t] \in {"LEASED", "RUNNING"} /\ ~leaseLive[t])
    BY <1>2, <1>10 DEF ClaimTask, Claimable
  <2> HIDE DEF n
  <2>3. ExecutionOf(t)!Begin(n) BY <1>2, <1>4, <2>2 DEF ExecutionOf!Begin
  <2> QED BY <2>1, <2>3 DEF ExecutionOf!ExecutionNext
<1>11. ASSUME NEW n \in Attempts, StartTask(t, n) PROVE Goal
  BY <1>2, <1>4, <1>11 DEF StartTask, Startable
<1>12. ASSUME NEW n \in Attempts, HeartbeatTask(t, n) PROVE Goal
  <2>1. /\ lease[t] # 0 /\ leaseLive'[t] = TRUE
        /\ UNCHANGED <<posture, TaskView(t), lease[t]>>
    BY <1>2, <1>4, <1>5, <1>12 DEF HeartbeatTask, OwnsLease
  <2>2. CASE leaseLive[t] BY <2>1, <2>2
  <2>3. CASE ~leaseLive[t]
    <3>1. ExecutionOf(t)!HeartbeatLease BY <2>1, <2>3 DEF ExecutionOf!HeartbeatLease
    <3> QED BY <3>1 DEF ExecutionOf!ExecutionNext
  <2> QED BY <2>2, <2>3
<1>13. ASSUME NEW n \in Attempts, BoundaryFence(t, n)
       PROVE  /\ ExecutionOf(t)!Fence(n)
              /\ lease[t] = n /\ taskStatus[t] = "RUNNING"
  BY <1>3, <1>4, <1>5, <1>13 DEF BoundaryFence, LocalFence, ExternalFence, ExecutionOf!Fence
<1>14. ASSUME NEW n \in Attempts, RejectBoundary(t, n) PROVE Goal
  <2>1. ExecutionOf(t)!Settle(n, "failed")
    BY <1>2, <1>4, <1>13, <1>14 DEF RejectBoundary, ExecutionOf!Settle
  <2> QED BY <2>1 DEF ExecutionOf!ExecutionNext
<1>15. ASSUME NEW n \in Attempts, NEW o \in Outputs, CompleteBoundary(t, n, o) PROVE Goal
  <2>1. ExecutionOf(t)!Settle(n, "accepted")
    BY <1>2, <1>4, <1>13, <1>15 DEF CompleteBoundary, ExecutionOf!Settle
  <2> QED BY <2>1 DEF ExecutionOf!ExecutionNext
<1>16. ASSUME NEW n \in Attempts, ParkBoundary(t, n, "NEEDS_APPROVAL") PROVE Goal
  <2>1. ExecutionOf(t)!Abandon(n, TRUE)
    BY <1>2, <1>4, <1>13, <1>16 DEF ParkBoundary, ExecutionOf!Abandon
  <2> QED BY <2>1 DEF ExecutionOf!ExecutionNext
<1>17. ASSUME NEW n \in Attempts, NEW r \in BOOLEAN, FailTask(t, n, r) PROVE Goal
  <2>1. ExecutionOf(t)!Abandon(n, r)
    BY <1>2, <1>4, <1>17 DEF FailTask, OwnsLease, ExecutionOf!Abandon
  <2> QED BY <2>1 DEF ExecutionOf!ExecutionNext
<1>18. ASSUME NEW c \in CommandIds, CancelCommand(c) PROVE Goal
  <2>1. CASE lease[t] = 0
    <3>1. taskStatus'[t] = IF taskStatus[t] \in Unfinished THEN "CANCELLED" ELSE taskStatus[t]
      BY <1>18 DEF CancelCommand
    <3>2. TaskView(t)' = TaskView(t) BY <1>4, <3>1 DEF Unfinished, Awaiting
    <3>3. lease'[t] = lease[t] BY <1>18, <2>1 DEF CancelCommand
    <3>4. leaseLive[t] = FALSE BY <1>1, <1>6, <2>1
    <3>5. leaseLive'[t] = leaseLive[t] BY <1>18, <3>4 DEF CancelCommand
    <3> QED BY <3>2, <3>3, <3>5
  <2>2. CASE lease[t] # 0
    <3>1. /\ taskStatus'[t] = "CANCELLED" /\ lease'[t] = 0 /\ leaseLive'[t] = FALSE
      BY <1>2, <1>18, <2>2 DEF CancelCommand, Unfinished
    <3>2. ExecutionOf(t)!Abandon(lease[t], TRUE)
      BY <1>2, <1>4, <2>2, <3>1 DEF ExecutionOf!Abandon
    <3> QED BY <1>6, <2>2, <3>2 DEF ExecutionOf!ExecutionNext
  <2> QED BY <2>1, <2>2
<1>19. ASSUME NEW c \in CommandIds, RetryCommand(c, t) PROVE Goal
  <2>1. ExecutionOf(t)!Reopen BY <1>2, <1>4, <1>19 DEF RetryCommand, ExecutionOf!Reopen
  <2> QED BY <2>1 DEF ExecutionOf!ExecutionNext
<1>20. ASSUME NEW c \in CommandIds, ResolveCommand(c, t) PROVE Goal
  BY <1>2, <1>4, <1>20 DEF ResolveCommand, Awaiting
<1>21. Goal
  <2> HIDE DEF Goal
  <2> QED BY <1>7, <1>8, <1>9, <1>10, <1>11, <1>12, <1>14, <1>15, <1>16, <1>17, <1>18,
             <1>19, <1>20 DEF TaskMove
<1> QED BY <1>21

\* Under deliveries only the reservation settles a task, and nothing reopens one
\* whose reservation has failed.
LEMMA ExternalCompetition ==
  ASSUME HarnessInv, HarnessInv', CompetitionInv, CompetitionInv', posture = "external",
         posture' = posture, NEW t \in Tasks, TaskMove(t)
  PROVE  \/ ExecutionOf(t)!ExecutionNext
         \/ UNCHANGED <<posture, TaskView(t), lease[t], leaseLive[t]>>
<1> DEFINE Goal == \/ ExecutionOf(t)!ExecutionNext
                   \/ UNCHANGED <<posture, TaskView(t), lease[t], leaseLive[t]>>
           Lost == external[t] # 0 /\ attemptStatus[t][external[t]] = "FAILED"
           LostNext == external'[t] # 0 /\ attemptStatus'[t][external'[t]] = "FAILED"
<1>1. /\ lease[t] = 0 /\ lease'[t] = 0 /\ ~leaseLive[t] /\ ~leaseLive'[t]
      /\ taskStatus[t] = "FAILED" => Lost
  BY DEF CompetitionInv, Stranded
<1>2. /\ TypeOK
      /\ lease[t] # 0 <=> taskStatus[t] \in {"LEASED", "RUNNING"}
      /\ taskStatus[t] = "SUCCEEDED" <=> accepted[t].attempt # 0
      /\ \A n \in Attempts : attemptStatus[t][n] = "SUCCEEDED" <=> accepted[t].attempt = n
  BY DEF HarnessInv, StoreInv, RowsInv, LeaseExclusive, AcceptedEvidence
<1>3. external[t] = 0 \/ external[t] \in Attempts BY <1>2 DEF TypeOK, Attempts
<1>4. /\ TaskView(t) = IF taskStatus[t] = "SUCCEEDED" THEN "accepted"
                       ELSE IF Lost THEN "failed" ELSE "open"
      /\ TaskView(t)' = IF taskStatus'[t] = "SUCCEEDED" THEN "accepted"
                        ELSE IF LostNext THEN "failed" ELSE "open"
  BY DEF TaskView, Stranded, CompetitionInv
<1>5. \A n \in Attempts : n # 0 BY DEF Attempts
\* What leaves the verdict on the task alone is no step of its executions.
<1>6. ASSUME taskStatus[t] = "SUCCEEDED" <=> taskStatus'[t] = "SUCCEEDED", Lost <=> LostNext
      PROVE  Goal
  <2>1. leaseLive[t] = FALSE /\ leaseLive'[t] = FALSE
    <3>1. leaseLive[t] \in BOOLEAN BY <1>2 DEF TypeOK
    <3>2. leaseLive'[t] \in BOOLEAN BY DEF HarnessInv, StoreInv, TypeOK
    <3> QED BY <1>1, <3>1, <3>2
  <2>2. TaskView(t)' = TaskView(t) BY <1>4, <1>6
  <2> QED BY <1>1, <2>1, <2>2
<1>7. ASSUME NEW n \in Attempts, BoundaryFence(t, n)
      PROVE  /\ ExecutionOf(t)!Fence(n)
             /\ external[t] = n /\ taskStatus[t] = "READY" /\ attemptStatus[t][n] = "RUNNING"
  BY <1>1, <1>4, <1>5, <1>7 DEF BoundaryFence, LocalFence, ExternalFence, ExecutionOf!Fence
<1> USE DEF TypeOK, SetTask, SetAttempt, GrantLease, ReleaseLease
<1> HIDE DEF Goal
<1>8. ASSUME Unmoved(t) PROVE Goal BY <1>6, <1>8 DEF Unmoved
<1>9. ASSUME EnqueueTask(t, "READY") PROVE Goal BY <1>2, <1>6, <1>9 DEF EnqueueTask
<1>10. ASSUME LeaseExpires(t) PROVE Goal BY <1>1, <1>10 DEF LeaseExpires
<1>11. ASSUME StartExternalExecution(t) PROVE Goal
  <2>1. UNCHANGED taskStatus BY <1>11 DEF StartExternalExecution
  <2>2. CASE ReserveExternal(t)
    <3>1. /\ external'[t] = lastAttempt[t] + 1 /\ lastAttempt[t] + 1 \in Attempts
          /\ attemptStatus'[t][lastAttempt[t] + 1] = "RUNNING" /\ external[t] = 0
      BY <1>2, <2>2, StoreAssumption DEF ReserveExternal, Attempts
    <3> QED BY <1>6, <2>1, <3>1
  <2>3. CASE ResumeExternal(t)
    BY <1>2, <1>3, <1>6, <2>1, <2>3 DEF ResumeExternal
  <2> QED BY <1>11, <2>2, <2>3 DEF StartExternalExecution
<1>12. ASSUME NEW n \in Attempts,
              StartTask(t, n) \/ HeartbeatTask(t, n) \/ \E r \in BOOLEAN : FailTask(t, n, r)
       PROVE  Goal
  BY <1>1, <1>2, <1>12 DEF StartTask, Startable, HeartbeatTask, FailTask, OwnsLease
<1>13. ASSUME NEW n \in Attempts, RejectBoundary(t, n) PROVE Goal
  <2>1. BoundaryFence(t, n) BY <1>13 DEF RejectBoundary
  <2>2. /\ taskStatus'[t] = "FAILED" /\ external' = external
        /\ attemptStatus'[t][n] = "FAILED"
    BY <1>2, <1>13 DEF RejectBoundary
  <2>3. TaskView(t)' = "failed" BY <1>4, <1>5, <1>7, <2>1, <2>2
  <2>4. ExecutionOf(t)!Fence(n) BY <1>7, <2>1
  <2>5. ExecutionOf(t)!Settle(n, "failed")
    BY <1>1, <2>3, <2>4 DEF ExecutionOf!Settle
  <2> QED BY <2>5 DEF Goal, ExecutionOf!ExecutionNext
<1>14. ASSUME NEW n \in Attempts, NEW o \in Outputs, CompleteBoundary(t, n, o) PROVE Goal
  <2>1. BoundaryFence(t, n) /\ taskStatus'[t] = "SUCCEEDED"
    BY <1>2, <1>14 DEF CompleteBoundary
  <2>2. TaskView(t)' = "accepted" BY <1>4, <2>1
  <2>3. ExecutionOf(t)!Fence(n) BY <1>7, <2>1
  <2>4. ExecutionOf(t)!Settle(n, "accepted")
    BY <1>1, <2>2, <2>3 DEF ExecutionOf!Settle
  <2> QED BY <2>4 DEF Goal, ExecutionOf!ExecutionNext
<1>15. ASSUME NEW n \in Attempts, ParkBoundary(t, n, "NEEDS_APPROVAL") PROVE Goal
  <2>1. BoundaryFence(t, n) BY <1>15 DEF ParkBoundary
  <2>2. external[t] = n /\ taskStatus[t] = "READY" /\ attemptStatus[t][n] = "RUNNING"
    BY <1>7, <2>1
  <2>3. /\ taskStatus'[t] = "NEEDS_APPROVAL" /\ external' = external
        /\ attemptStatus'[t][n] = "PARKED"
    BY <1>2, <1>15 DEF ParkBoundary
  <2> QED BY <1>6, <2>2, <2>3
<1>16. ASSUME NEW c \in CommandIds, CancelCommand(c) PROVE Goal
  <2>1. taskStatus'[t] = IF taskStatus[t] \in Unfinished THEN "CANCELLED" ELSE taskStatus[t]
    BY <1>16 DEF CancelCommand
  <2>2. \A n \in Attempts : attemptStatus[t][n] = "FAILED" <=> attemptStatus'[t][n] = "FAILED"
    BY <1>2, <1>16 DEF CancelCommand, LiveAttempt
  <2>3. external' = external BY <1>16 DEF CancelCommand
  <2>4. taskStatus[t] = "SUCCEEDED" <=> taskStatus'[t] = "SUCCEEDED" BY <2>1 DEF Unfinished, Awaiting
  <2> QED BY <1>3, <1>6, <2>2, <2>3, <2>4
<1>17. ASSUME NEW c \in CommandIds, RetryCommand(c, t) \/ ResolveCommand(c, t) PROVE Goal
  BY <1>2, <1>6, <1>17 DEF RetryCommand, ResolveCommand, Awaiting
<1>18. Goal
  BY <1>8, <1>9, <1>10, <1>11, <1>12, <1>13, <1>14, <1>15, <1>16, <1>17 DEF TaskMove
<1> QED BY <1>18 DEF Goal

-----------------------------------------------------------------------------
LEMMA CompetitionInvariant == HarnessSpec => [](HarnessInv /\ CompetitionInv)
<1>1. HarnessInit => CompetitionInv BY ZenonT(60) DEF HarnessInit, Init, CompetitionInv
<1>2. HarnessInv /\ CompetitionInv /\ [HarnessNext]_allVars => CompetitionInv'
  BY CompetitionKept
<1> QED BY <1>1, <1>2, HarnessInvariant, PTL DEF HarnessSpec

\* For every task, what claims, takeovers, heartbeats, deliveries, parks, retries
\* and cancels of the store do is what Execution lets the executions of a task do:
\* what EffectLedger and BudgetMeter say of competing executions they say of the
\* executions of every task under the harness, in both postures.
THEOREM HarnessImplementsExecution == HarnessSpec => TasksRefineExecution
<1> SUFFICES ASSUME NEW t \in Tasks PROVE HarnessSpec => ExecutionOf(t)!ExecutionSpec
  BY DEF TasksRefineExecution
<1>1. HarnessInit => ExecutionOf(t)!ExecutionInit
  BY DEF HarnessInit, Init, ExecutionOf!ExecutionInit, TaskView, Stranded
<1>2. /\ HarnessInv /\ CompetitionInv /\ HarnessInv' /\ CompetitionInv'
      /\ [HarnessNext]_allVars
      => [ExecutionOf(t)!ExecutionNext]_(ExecutionOf(t)!executionVars)
  <2> SUFFICES ASSUME HarnessInv, CompetitionInv, HarnessInv', CompetitionInv',
                      [HarnessNext]_allVars
               PROVE  \/ ExecutionOf(t)!ExecutionNext
                      \/ UNCHANGED <<posture, TaskView(t), lease[t], leaseLive[t]>>
    BY DEF ExecutionOf!executionVars
  <2>1. posture' = posture /\ TaskMove(t) BY StepMovesTask
  <2>2. posture \in {"local", "external"} BY DEF HarnessInv, ProcInv
  <2> QED BY <2>1, <2>2, LocalCompetition, ExternalCompetition
<1> QED BY <1>1, <1>2, CompetitionInvariant, PTL DEF HarnessSpec, ExecutionOf!ExecutionSpec

\* An execution that the store admits passes the fence of Execution.
FenceIsExecutions ==
  \A t \in Tasks, n \in Attempts : BoundaryFence(t, n) => ExecutionOf(t)!Fence(n)

\* The store never admits two attempts of a task at once.
FenceExclusive ==
  \A t \in Tasks : \A m, n \in Attempts : BoundaryFence(t, m) /\ BoundaryFence(t, n) => m = n

\* An execution that _lock_boundary_execution admits passes the fence that the
\* ledgers of effects and charges take, and while one is admitted no other attempt
\* of the task is: with a takeover, a redelivery or a retry under way there is at
\* most one attempt that can still commit, park or charge.
THEOREM HarnessFence == HarnessSpec => [](FenceIsExecutions /\ FenceExclusive)
<1>1. HarnessInv /\ CompetitionInv => FenceIsExecutions /\ FenceExclusive
  <2> SUFFICES ASSUME HarnessInv, CompetitionInv, NEW t \in Tasks
               PROVE  /\ \A n \in Attempts : BoundaryFence(t, n) => ExecutionOf(t)!Fence(n)
                      /\ \A m, n \in Attempts :
                           BoundaryFence(t, m) /\ BoundaryFence(t, n) => m = n
    BY DEF FenceIsExecutions, FenceExclusive
  <2>1. /\ posture \in {"local", "external"}
        /\ posture = "local" => external[t] = 0
        /\ posture = "external" => lease[t] = 0
    BY DEF HarnessInv, ProcInv, PostureInv, CompetitionInv
  <2>2. \A m \in Attempts : m # 0 BY DEF Attempts
  <2>3. \A m \in Attempts : BoundaryFence(t, m) =>
          IF posture = "local"
          THEN m = lease[t] /\ leaseLive[t] /\ taskStatus[t] = "RUNNING"
          ELSE /\ m = external[t] /\ taskStatus[t] = "READY"
               /\ attemptStatus[t][external[t]] = "RUNNING"
    BY <2>1, <2>2 DEF BoundaryFence, LocalFence, ExternalFence
  <2>4. \A m, n \in Attempts : BoundaryFence(t, m) /\ BoundaryFence(t, n) => m = n
    BY <2>3
  <2>5. (\E m \in Attempts : BoundaryFence(t, m)) => TaskView(t) = "open"
    BY <2>1, <2>3 DEF TaskView, Stranded
  <2> QED BY <2>3, <2>4, <2>5 DEF ExecutionOf!Fence
<1> QED BY <1>1, CompetitionInvariant, PTL

=============================================================================
