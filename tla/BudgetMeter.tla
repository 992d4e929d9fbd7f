----------------------------- MODULE BudgetMeter -----------------------------
(***************************************************************************)
(* The live budget of one task: _LiveBudgetMeter (budget.py), the model    *)
(* calls and tool calls that charge it (model.py, access.py), and the rows *)
(* it reserves and commits (persistence.py).  The dimensions of a Budget   *)
(* are independent and checked alike; one of them is modelled.             *)
(*                                                                         *)
(* A charge key holds the attempt, the kind of the charge, its ordinal     *)
(* within the execution, and its name: one model and one tool are enough   *)
(* for keys to meet and to differ.                                         *)
(***************************************************************************)
EXTENDS Execution, Naturals, FiniteSets

CONSTANTS
  Budget,     \* what the task may use
  Estimates,  \* what adapters estimate a model call to use
  MaxUsage,   \* bound on what one model call really uses
  MaxCharges  \* bound on the charges of one execution

ASSUME MeterAssumption ==
  /\ Budget \in Nat
  /\ Estimates \subseteq Nat
  /\ MaxUsage \in Nat
  /\ MaxCharges \in Nat

VARIABLES
  rows,      \* workflow_budget_usage of the task, by charge key
  pc,        \* where each execution is
  ordinal,   \* _LiveBudgetMeter.ordinal of each execution
  charge,    \* the kind and the estimate of the charge under way
  measured,  \* what the provider reported for the charge under way
  spent,     \* what the providers have really used for the task
  overran,   \* a provider has used more than its adapter estimated
  usage      \* the metered usage of the accepted boundary

meterVars == <<rows, pc, ordinal, charge, measured, spent, overran, usage>>

vars == <<executionVars, meterVars>>

\* The deliveries of an external execution share its attempt.
AttemptOf(e) == IF posture = "local" THEN e ELSE None

Kinds == {"model", "tool"}

Keys == (Executions \cup {None}) \X Kinds \X (0 .. MaxCharges - 1)

NoRow == [status |-> "NONE", reservation |-> 0, actual |-> 0]

PC == {"new", "running", "reserved", "answered", "charged", "ended"}

TypeOK ==
  /\ ExecutionTypeOK
  /\ rows \in [Keys -> [status : {"NONE", "RESERVED", "COMMITTED"},
                        reservation : Nat, actual : Nat]]
  /\ pc \in [Executions -> PC]
  /\ ordinal \in [Executions -> 0 .. MaxCharges]
  /\ charge \in [Executions -> [kind : Kinds, usage : Nat]]
  /\ measured \in [Executions -> Nat]
  /\ spent \in Nat
  /\ overran \in BOOLEAN
  /\ usage \in Nat

Init ==
  /\ ExecutionInit
  /\ rows = [k \in Keys |-> NoRow]
  /\ pc = [e \in Executions |-> "new"]
  /\ ordinal = [e \in Executions |-> 0]
  /\ charge = [e \in Executions |-> [kind |-> "model", usage |-> 0]]
  /\ measured = [e \in Executions |-> 0]
  /\ spent = 0
  /\ overran = FALSE
  /\ usage = 0

Goto(e, p) == pc' = [pc EXCEPT ![e] = p]

\* The key of the charge under way: _key has already advanced the ordinal.
CurrentKey(e) == <<AttemptOf(e), charge[e].kind, ordinal[e] - 1>>

\* What a row counts for: a reservation in full until its usage is measured.
Counted(r) ==
  IF r.status = "COMMITTED" THEN r.actual
  ELSE IF r.status = "RESERVED" THEN r.reservation
  ELSE 0

CountedUsage == [k \in Keys |-> Counted(rows[k])]

ActualUsage == [k \in Keys |-> rows[k].actual]

\* The units of usage in f: of each key, as many as f gives it.
Units(f) == UNION {{k} \X (1 .. f[k]) : k \in DOMAIN f}

\* The sum of f is the number of its units.
SumOf(f) == Cardinality(Units(f))

Total == SumOf(CountedUsage)

\* Mutant: only committed charges count.
Affordable_CommittedOnly(e, u) == SumOf(ActualUsage) + u <= Budget

\* _budget_exceeded_dimension of all the charges of the task and the new one.
Affordable(e, u) == Total + u <= Budget

-----------------------------------------------------------------------------
Start(e) ==
  /\ pc[e] = "new"
  /\ Begin(e)
  /\ Goto(e, "running")
  /\ UNCHANGED <<rows, ordinal, charge, measured, spent, overran, usage>>

Expire == ExpireLease /\ UNCHANGED meterVars

Heartbeat == HeartbeatLease /\ UNCHANGED meterVars

-----------------------------------------------------------------------------
\* Charges.  The module of an execution may catch what a refused charge or a
\* failed call raises and go on.

\* What the next charge may be: a model call with its estimate, or a tool call,
\* which counts one.
NextCharge ==
  [kind : {"model"}, usage : Estimates] \cup [kind : {"tool"}, usage : {1}]

\* _reserve_budget_usage under a fresh key of the execution.  A reservation that
\* is already there is taken for this one if it is equal, and refused otherwise.
Reserve(e, c) ==
  LET key == <<AttemptOf(e), c.kind, ordinal[e]>>
      old == rows[key]
  IN
  /\ pc[e] = "running"
  /\ ordinal[e] < MaxCharges
  /\ Fence(e)
  /\ ordinal' = [ordinal EXCEPT ![e] = @ + 1]
  /\ charge' = [charge EXCEPT ![e] = c]
  /\ \/ /\ old.status = "NONE"
        /\ Affordable(e, c.usage)
        /\ rows' = [rows EXCEPT ![key] = [status |-> "RESERVED",
                                          reservation |-> c.usage, actual |-> 0]]
        /\ Goto(e, "reserved")
     \/ /\ old.status = "NONE"
        /\ ~Affordable(e, c.usage)
        /\ UNCHANGED <<rows, pc>>
     \/ /\ old.status # "NONE"
        /\ UNCHANGED rows
        /\ Goto(e, IF old.reservation = c.usage THEN "reserved"
                   ELSE "running")
  /\ UNCHANGED <<executionVars, measured, spent, overran, usage>>

\* ModelBroker.call: the provider is called once its estimate is reserved.  It
\* may raise, or answer outside its contract, after using resources.
CallModel(e, m) ==
  /\ pc[e] = "reserved"
  /\ charge[e].kind = "model"
  /\ spent' = spent + m
  /\ overran' = (overran \/ m > charge[e].usage)
  /\ \/ /\ Goto(e, "answered")
        /\ measured' = [measured EXCEPT ![e] = m]
     \/ /\ Goto(e, "running")
        /\ UNCHANGED measured
  /\ UNCHANGED <<executionVars, rows, ordinal, charge, usage>>

\* The tool is called once its charge is committed.
CallTool(e) ==
  /\ pc[e] = "charged"
  /\ spent' = spent + 1
  /\ Goto(e, "running")
  /\ UNCHANGED <<executionVars, rows, ordinal, charge, measured, overran, usage>>

\* _commit_budget_usage: of the measured usage after a model call, of the charge
\* itself before a tool call.  Usage above the reservation is refused and leaves
\* the reservation open.
Commit(e) ==
  LET key == CurrentKey(e)
      used == IF charge[e].kind = "model" THEN measured[e] ELSE charge[e].usage
      done == IF charge[e].kind = "model" THEN "running" ELSE "charged"
  IN
  /\ pc[e] = (IF charge[e].kind = "model" THEN "answered" ELSE "reserved")
  /\ Fence(e)
  /\ \/ /\ rows[key].status = "RESERVED"
        /\ used <= rows[key].reservation
        /\ rows' = [rows EXCEPT ![key].status = "COMMITTED", ![key].actual = used]
        /\ Goto(e, done)
     \/ /\ rows[key].status = "RESERVED"
        /\ used > rows[key].reservation
        /\ UNCHANGED rows
        /\ Goto(e, "running")
     \/ /\ rows[key].status = "COMMITTED"
        /\ UNCHANGED rows
        /\ Goto(e, IF rows[key].actual = used THEN done ELSE "running")
  /\ UNCHANGED <<executionVars, ordinal, charge, measured, spent, overran, usage>>

\* Something between the charge and the call raises: the fence is closed when
\* the usage is committed, or the adapter denies the tool call.
Drop(e) ==
  /\ pc[e] \in {"reserved", "answered", "charged"}
  /\ Goto(e, "running")
  /\ UNCHANGED <<executionVars, rows, ordinal, charge, measured, spent, overran,
                 usage>>

-----------------------------------------------------------------------------
\* Mutant: open reservations do not stand in the way of acceptance.
Verdict_Ungated == "accepted"

\* Mutant: a task with an open reservation is left in no known status.
Verdict_Unknown ==
  IF \A k \in Keys : rows[k].status # "RESERVED" THEN "accepted" ELSE "unknown"

\* _complete_boundary accepts a task only if all its charges are committed.
Verdict ==
  IF \A k \in Keys : rows[k].status # "RESERVED" THEN "accepted" ELSE "failed"

\* The accepted boundary records the metered usage of all attempts.
Complete(e) ==
  /\ pc[e] = "running"
  /\ Settle(e, Verdict)
  /\ usage' = IF task' = "accepted" THEN SumOf(ActualUsage) ELSE usage
  /\ Goto(e, "ended")
  /\ UNCHANGED <<rows, ordinal, charge, measured, spent, overran>>

Fail(e, retry) ==
  /\ pc[e] = "running"
  /\ Abandon(e, retry)
  /\ Goto(e, "ended")
  /\ UNCHANGED <<rows, ordinal, charge, measured, spent, overran, usage>>

RetryCommand == Reopen /\ UNCHANGED meterVars

Next ==
  \/ \E e \in Executions : Start(e)
  \/ Expire
  \/ Heartbeat
  \/ \E e \in Executions, c \in NextCharge : Reserve(e, c)
  \/ \E e \in Executions, m \in 0 .. MaxUsage : CallModel(e, m)
  \/ \E e \in Executions : CallTool(e)
  \/ \E e \in Executions : Commit(e)
  \/ \E e \in Executions : Drop(e)
  \/ \E e \in Executions : Complete(e)
  \/ \E e \in Executions, retry \in BOOLEAN : Fail(e, retry)
  \/ RetryCommand

Spec == Init /\ [][Next]_vars

-----------------------------------------------------------------------------
(***************************************************************************)
(* Properties.                                                             *)
(***************************************************************************)

\* README.md: brokers "durably reserve and commit model, tool, token, and cost
\* usage across retries".  As long as no provider uses more than its adapter
\* estimated, the task never really uses more than its budget.
SpendWithinBudget == ~overran => spent <= Budget

\* In the local posture real spending does stay within the budget: not exceeded
\* by several attempts together, nor by executions that lost their lease between
\* reserving and calling.
LocalSpendWithinBudget == posture = "local" => SpendWithinBudget

\* In the local posture the usage recorded with an accepted result covers all
\* that was really used for the task, by failed and abandoned attempts too, at
\* acceptance and ever after.
LocalUsageComplete == posture = "local" /\ task = "accepted" => usage >= spent
=============================================================================
