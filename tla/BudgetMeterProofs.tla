-------------------------- MODULE BudgetMeterProofs --------------------------
(***************************************************************************)
(* Proofs about the live budget, for any number of executions and charges, *)
(* any budget, any estimates and any usage.                                *)
(***************************************************************************)
EXTENDS BudgetMeter, SetLemmas, FiniteSetTheorems, TLAPS

\* The execution e has a charge under way, with the key k.
IsCurrent(e, k) == pc[e] \in {"reserved", "answered"} /\ k = CurrentKey(e)

\* The charges of all executions are finitely many, and within the budget.
BudgetInv ==
  /\ IsFiniteSet(Units(CountedUsage))
  /\ IsFiniteSet(Units(ActualUsage))
  /\ \A k \in Keys : rows[k].status # "COMMITTED" => rows[k].actual = 0
  /\ Total <= Budget

\* An accepted task has no owner, no open reservation, and a usage that is the
\* total of its charges.
AcceptedInv ==
  task = "accepted" =>
    /\ owner = None
    /\ \A k \in Keys : rows[k].status # "RESERVED"
    /\ usage = Total

\* In the local posture an execution draws fresh keys, and the charge that is
\* under way has its row.
ChargeInv ==
  posture = "local" =>
    \A e \in Executions :
      /\ \A kind \in Kinds, i \in 0 .. MaxCharges - 1 :
           i >= ordinal[e] => rows[<<e, kind, i>>].status = "NONE"
      /\ charge[e].kind = "tool" => charge[e].usage = 1
      /\ pc[e] \in {"reserved", "answered"} =>
           /\ ordinal[e] > 0
           /\ rows[CurrentKey(e)].status = "RESERVED"
           /\ rows[CurrentKey(e)].reservation = charge[e].usage
      /\ pc[e] = "answered" => charge[e].kind = "model"
      /\ pc[e] = "charged" => charge[e].kind = "tool"

\* What the charge under way of e may still use, of what it is charged for.
Pending ==
  [e \in Executions |->
     IF pc[e] \in {"reserved", "charged"} THEN charge[e].usage
     ELSE IF pc[e] = "answered" /\ measured[e] <= charge[e].usage
     THEN charge[e].usage - measured[e]
     ELSE 0]

\* The charges cover what was used and what the charges under way may use.
SpendInv ==
  posture = "local" =>
    /\ IsFiniteSet(Units(Pending))
    /\ ~overran => spent + SumOf(Pending) <= Total
    /\ ~overran => \A e \in Executions : pc[e] = "answered" => measured[e] <= charge[e].usage

\* A reservation that was overrun stays open: no execution can commit it.
Stuck(k) ==
  /\ rows[k].status = "RESERVED"
  /\ \A e \in Executions : IsCurrent(e, k) => pc[e] = "answered" /\ measured[e] > charge[e].usage

OverrunInv == posture = "local" /\ overran => \E k \in Keys : Stuck(k)

MeterInv ==
  TypeOK /\ BudgetInv /\ AcceptedInv /\ ChargeInv /\ SpendInv /\ OverrunInv

-----------------------------------------------------------------------------
(***************************************************************************)
(* Sums.                                                                   *)
(***************************************************************************)

\* The units of one key.
LEMMA UnitsOfKey ==
  ASSUME NEW k, NEW n \in Nat
  PROVE  IsFiniteSet({k} \X (1 .. n)) /\ Cardinality({k} \X (1 .. n)) = n
<1>1. IsFiniteSet(1 .. n) /\ Cardinality(1 .. n) = n BY FS_Interval
<1>2. IsFiniteSet({k}) /\ Cardinality({k}) = 1 BY FS_Singleton
<1>3. /\ IsFiniteSet({k} \X (1 .. n))
      /\ Cardinality({k} \X (1 .. n)) = Cardinality({k}) * Cardinality(1 .. n)
  BY <1>1, <1>2, FS_Product
<1> QED BY <1>1, <1>2, <1>3

\* When the usage of one key changes, the total changes by as much: what a
\* reservation adds to the total of the task, and a commit takes from it.
LEMMA SumUpdate ==
  ASSUME NEW K, NEW f \in [K -> Nat], NEW g \in [K -> Nat], NEW k \in K,
         \A x \in K : x # k => g[x] = f[x],
         IsFiniteSet(Units(f))
  PROVE  /\ IsFiniteSet(Units(g))
         /\ SumOf(f) \in Nat /\ SumOf(g) \in Nat
         /\ f[k] <= SumOf(f)
         /\ SumOf(g) = SumOf(f) - f[k] + g[k]
<1> DEFINE A == {k} \X (1 .. f[k])
           B == {k} \X (1 .. g[k])
           R == UNION {{x} \X (1 .. f[x]) : x \in K \ {k}}
<1>0. f[k] \in Nat /\ g[k] \in Nat OBVIOUS
<1>1. Units(f) = R \cup A BY DEF Units
<1>2. Units(g) = R \cup B
  <2>1. R = UNION {{x} \X (1 .. g[x]) : x \in K \ {k}} OBVIOUS
  <2> QED BY <2>1 DEF Units
<1>3. R \cap A = {} /\ R \cap B = {}
  <2>1. \A u \in R : u[1] # k OBVIOUS
  <2>2. (\A u \in A : u[1] = k) /\ (\A u \in B : u[1] = k) OBVIOUS
  <2> QED BY <2>1, <2>2
<1>4. /\ IsFiniteSet(A) /\ Cardinality(A) = f[k]
      /\ IsFiniteSet(B) /\ Cardinality(B) = g[k]
  BY <1>0, UnitsOfKey
<1> HIDE DEF A, B, R
<1>5. R \in SUBSET Units(f) BY <1>1
<1>6. IsFiniteSet(R) BY <1>5, FS_Subset
<1>7. Cardinality(R) \in Nat /\ Cardinality(R \cup A) = Cardinality(R) + Cardinality(A)
  BY <1>3, <1>4, <1>6, DisjointUnion
<1>8. IsFiniteSet(R \cup B) /\ Cardinality(R \cup B) = Cardinality(R) + Cardinality(B)
  BY <1>3, <1>4, <1>6, DisjointUnion
<1> QED BY <1>0, <1>1, <1>2, <1>4, <1>7, <1>8 DEF SumOf

\* The sum of nothing.
LEMMA SumZero ==
  ASSUME NEW K, NEW f \in [K -> Nat], \A k \in K : f[k] = 0
  PROVE  IsFiniteSet(Units(f)) /\ SumOf(f) = 0
<1>1. \A k \in K : 1 .. f[k] = {} OBVIOUS
<1>2. Units(f) = {} BY <1>1 DEF Units
<1> QED BY <1>2, FS_EmptySet DEF SumOf

-----------------------------------------------------------------------------
(***************************************************************************)
(* What a change of one row, or of one execution, does to the sums.        *)
(***************************************************************************)

\* The usage that is counted, recorded and pending is in natural numbers.
LEMMA UsageTypes ==
  ASSUME TypeOK
  PROVE  /\ CountedUsage \in [Keys -> Nat] /\ ActualUsage \in [Keys -> Nat]
         /\ Pending \in [Executions -> Nat]
         /\ \A k \in Keys : Counted(rows[k]) \in Nat /\ CountedUsage[k] = Counted(rows[k])
<1>1. \A k \in Keys : Counted(rows[k]) \in Nat /\ rows[k].actual \in Nat
  BY DEF TypeOK, Counted
<1>2. \A e \in Executions : charge[e].usage \in Nat /\ measured[e] \in Nat BY DEF TypeOK
<1> QED BY <1>1, <1>2 DEF CountedUsage, ActualUsage, Pending

\* A transaction that writes one row moves the total by what the row counts.
LEMMA RowUpdate ==
  ASSUME TypeOK, TypeOK', BudgetInv, NEW k \in Keys,
         \A x \in Keys : x # k => rows'[x] = rows[x]
  PROVE  /\ IsFiniteSet(Units(CountedUsage'))
         /\ IsFiniteSet(Units(ActualUsage'))
         /\ Total \in Nat /\ Total' \in Nat
         /\ Counted(rows[k]) <= Total
         /\ Total' = Total - Counted(rows[k]) + Counted(rows'[k])
<1>1. /\ CountedUsage \in [Keys -> Nat] /\ ActualUsage \in [Keys -> Nat]
      /\ CountedUsage[k] = Counted(rows[k])
  BY UsageTypes
<1>2. CountedUsage' \in [Keys -> Nat] /\ ActualUsage' \in [Keys -> Nat]
  <2>1. \A x \in Keys : Counted(rows'[x]) \in Nat /\ rows'[x].actual \in Nat
    BY DEF TypeOK, Counted
  <2> QED BY <2>1 DEF CountedUsage, ActualUsage
<1>3. /\ CountedUsage'[k] = Counted(rows'[k])
      /\ \A x \in Keys : x # k => /\ CountedUsage'[x] = CountedUsage[x]
                                  /\ ActualUsage'[x] = ActualUsage[x]
  BY DEF CountedUsage, ActualUsage
<1>4. IsFiniteSet(Units(CountedUsage)) /\ IsFiniteSet(Units(ActualUsage)) BY DEF BudgetInv
<1> HIDE DEF CountedUsage, ActualUsage
<1>5. /\ IsFiniteSet(Units(CountedUsage'))
      /\ SumOf(CountedUsage) \in Nat /\ SumOf(CountedUsage') \in Nat
      /\ CountedUsage[k] <= SumOf(CountedUsage)
      /\ SumOf(CountedUsage') = SumOf(CountedUsage) - CountedUsage[k] + CountedUsage'[k]
  BY <1>1, <1>2, <1>3, <1>4, SumUpdate
<1>6. /\ IsFiniteSet(Units(ActualUsage'))
      /\ SumOf(ActualUsage') = SumOf(ActualUsage) - ActualUsage[k] + ActualUsage'[k]
  BY <1>1, <1>2, <1>3, <1>4, SumUpdate
<1> QED BY <1>1, <1>3, <1>5, <1>6 DEF Total

\* An execution that goes on moves what is pending by what its charge may use.
LEMMA PendingUpdate ==
  ASSUME TypeOK, TypeOK', IsFiniteSet(Units(Pending)), NEW e \in Executions,
         \A d \in Executions : d # e => /\ pc'[d] = pc[d] /\ charge'[d] = charge[d]
                                        /\ measured'[d] = measured[d]
  PROVE  /\ IsFiniteSet(Units(Pending'))
         /\ SumOf(Pending) \in Nat /\ SumOf(Pending') \in Nat
         /\ Pending[e] <= SumOf(Pending)
         /\ SumOf(Pending') = SumOf(Pending) - Pending[e] + Pending'[e]
<1>1. Pending \in [Executions -> Nat] BY UsageTypes
<1>2. Pending' \in [Executions -> Nat]
  <2>1. \A d \in Executions : charge'[d].usage \in Nat /\ measured'[d] \in Nat BY DEF TypeOK
  <2> QED BY <2>1 DEF Pending
<1>3. \A d \in Executions : d # e => Pending'[d] = Pending[d] BY DEF Pending
<1> HIDE DEF Pending
<1> QED BY <1>1, <1>2, <1>3, SumUpdate

\* A charge has a kind and an amount; a tool call counts one.
LEMMA ChargeTypes ==
  ASSUME NEW c \in NextCharge
  PROVE  c \in [kind : Kinds, usage : Nat] /\ (c.kind = "tool" => c.usage = 1)
<1>1. CASE c \in [kind : {"model"}, usage : Estimates]
  <2>1. c.kind = "model" /\ c.usage \in Nat BY <1>1, MeterAssumption
  <2> QED BY <1>1, <2>1, MeterAssumption DEF Kinds
<1>2. CASE c \in [kind : {"tool"}, usage : {1}] BY <1>2 DEF Kinds
<1> QED BY <1>1, <1>2 DEF NextCharge

\* The keys of an execution's charges are keys of the task.
LEMMA KeyTypes ==
  ASSUME TypeOK, NEW e \in Executions
  PROVE  /\ \A kind \in Kinds, i \in 0 .. MaxCharges - 1 : <<AttemptOf(e), kind, i>> \in Keys
         /\ ordinal[e] > 0 => CurrentKey(e) \in Keys
         /\ posture = "local" => CurrentKey(e) = <<e, charge[e].kind, ordinal[e] - 1>>
<1>1. AttemptOf(e) \in Executions \cup {None} BY DEF AttemptOf
<1>2. charge[e].kind \in Kinds /\ ordinal[e] \in 0 .. MaxCharges BY DEF TypeOK
<1>3. ordinal[e] > 0 => ordinal[e] - 1 \in 0 .. MaxCharges - 1 BY <1>2, MeterAssumption
<1> QED BY <1>1, <1>2, <1>3 DEF Keys, CurrentKey, AttemptOf

-----------------------------------------------------------------------------
(***************************************************************************)
(* The invariant holds initially and no step breaks it.                    *)
(***************************************************************************)

\* A task that has not started has no charges.
LEMMA InitMeterInv == Init => MeterInv
<1> SUFFICES ASSUME Init PROVE MeterInv OBVIOUS
<1> USE MeterAssumption, ExecutionAssumption DEF Init, ExecutionInit
<1>1. TypeOK
  <2>1. rows \in [Keys -> [status : {"NONE", "RESERVED", "COMMITTED"},
                           reservation : Nat, actual : Nat]]
    BY DEF NoRow
  <2>2. charge \in [Executions -> [kind : Kinds, usage : Nat]] BY DEF Kinds
  <2>3. ordinal \in [Executions -> 0 .. MaxCharges] /\ measured \in [Executions -> Nat]
    OBVIOUS
  <2>4. pc \in [Executions -> PC] BY DEF PC
  <2> QED BY <2>1, <2>2, <2>3, <2>4 DEF TypeOK, ExecutionTypeOK
<1>2. BudgetInv
  <2>1. \A k \in Keys : CountedUsage[k] = 0 /\ ActualUsage[k] = 0
    BY DEF CountedUsage, ActualUsage, Counted, NoRow
  <2>2. /\ IsFiniteSet(Units(CountedUsage)) /\ SumOf(CountedUsage) = 0
        /\ IsFiniteSet(Units(ActualUsage))
    BY <1>1, <2>1, UsageTypes, SumZero
  <2> QED BY <2>2 DEF BudgetInv, Total, NoRow
<1>3. AcceptedInv BY DEF AcceptedInv
<1>4. ChargeInv BY DEF ChargeInv, Keys, NoRow
<1>5. SpendInv
  <2>1. \A e \in Executions : Pending[e] = 0 BY DEF Pending
  <2>2. IsFiniteSet(Units(Pending)) /\ SumOf(Pending) = 0 BY <1>1, <2>1, UsageTypes, SumZero
  <2>3. Total = 0
    <3>1. \A k \in Keys : CountedUsage[k] = 0 BY DEF CountedUsage, Counted, NoRow
    <3> QED BY <1>1, <3>1, UsageTypes, SumZero DEF Total
  <2> QED BY <2>2, <2>3 DEF SpendInv
<1>6. OverrunInv BY DEF OverrunInv
<1> QED BY <1>1, <1>2, <1>3, <1>4, <1>5, <1>6 DEF MeterInv

\* Every step keeps the types of the rows and of the executions.
LEMMA MeterTypeStep ==
  ASSUME TypeOK, BudgetInv, Next PROVE TypeOK'
<1> USE MeterAssumption, ExecutionAssumption
    DEF TypeOK, ExecutionTypeOK, PC, Goto, executionVars, meterVars
<1>1. ASSUME NEW e \in Executions, Start(e) PROVE TypeOK' BY <1>1 DEF Start, Begin
<1>2. CASE Expire \/ Heartbeat \/ RetryCommand
  BY <1>2 DEF Expire, ExpireLease, Heartbeat, HeartbeatLease, RetryCommand, Reopen
<1>3. ASSUME NEW e \in Executions, NEW c \in NextCharge, Reserve(e, c) PROVE TypeOK'
  <2>1. c \in [kind : Kinds, usage : Nat] BY ChargeTypes
  <2>2. ordinal' \in [Executions -> 0 .. MaxCharges] BY <1>3 DEF Reserve
  <2>3. charge' \in [Executions -> [kind : Kinds, usage : Nat]] BY <1>3, <2>1 DEF Reserve
  <2>4. pc' \in [Executions -> {"new", "running", "reserved", "answered", "charged", "ended"}]
    BY <1>3 DEF Reserve
  <2>5. rows' \in [Keys -> [status : {"NONE", "RESERVED", "COMMITTED"},
                           reservation : Nat, actual : Nat]]
    <3>1. c.usage \in Nat BY <2>1
    <3>2. [status |-> "RESERVED", reservation |-> c.usage, actual |-> 0]
            \in [status : {"NONE", "RESERVED", "COMMITTED"}, reservation : Nat, actual : Nat]
      BY <3>1
    <3> QED BY <1>3, <3>2, ZenonT(60) DEF Reserve
  <2> QED BY <1>3, <2>2, <2>3, <2>4, <2>5 DEF Reserve
<1>4. ASSUME NEW e \in Executions, NEW m \in 0 .. MaxUsage, CallModel(e, m) PROVE TypeOK'
  BY <1>4, SMTT(30) DEF CallModel
<1>5. ASSUME NEW e \in Executions, CallTool(e) \/ Drop(e) PROVE TypeOK'
  BY <1>5 DEF CallTool, Drop
<1>6. ASSUME NEW e \in Executions, Commit(e) PROVE TypeOK'
  <2> DEFINE used == IF charge[e].kind = "model" THEN measured[e] ELSE charge[e].usage
  <2>1. used \in Nat OBVIOUS
  <2>2. rows' \in [Keys -> [status : {"NONE", "RESERVED", "COMMITTED"},
                           reservation : Nat, actual : Nat]]
    BY <1>6, <2>1 DEF Commit
  <2>3. pc' \in [Executions -> {"new", "running", "reserved", "answered", "charged", "ended"}]
    BY <1>6 DEF Commit
  <2> QED BY <1>6, <2>2, <2>3 DEF Commit
<1>7. ASSUME NEW e \in Executions, Complete(e) PROVE TypeOK'
  <2>1. SumOf(ActualUsage) \in Nat BY FS_CardinalityType DEF SumOf, BudgetInv
  <2>2. Verdict \in {"accepted", "failed"} BY DEF Verdict
  <2> QED BY <1>7, <2>1, <2>2 DEF Complete, Settle
<1>8. ASSUME NEW e \in Executions, NEW retry \in BOOLEAN, Fail(e, retry) PROVE TypeOK'
  BY <1>8 DEF Fail, Abandon, Fence
<1> QED BY <1>1, <1>2, <1>3, <1>4, <1>5, <1>6, <1>7, <1>8 DEF Next

\* What most steps do: they leave the rows and the charges alone.
Quiet == UNCHANGED <<rows, ordinal, charge>>

\* Only a reservation and a commit write rows or charges, and each step takes
\* one execution from one place to another, or none.
LEMMA StepShape ==
  ASSUME TypeOK, Next
  PROVE  /\ posture' = posture
         /\ \/ \E e \in Executions, c \in NextCharge : Reserve(e, c)
            \/ \E e \in Executions : Commit(e)
            \/ Quiet
<1> USE DEF Quiet, meterVars, executionVars
<1>1. CASE \E e \in Executions : Start(e) \/ Complete(e)
  BY <1>1 DEF Start, Begin, Complete, Settle
<1>2. CASE Expire \/ Heartbeat \/ RetryCommand
  BY <1>2 DEF Expire, ExpireLease, Heartbeat, HeartbeatLease, RetryCommand, Reopen
<1>3. CASE \E e \in Executions, m \in 0 .. MaxUsage : CallModel(e, m) BY <1>3 DEF CallModel
<1>4. CASE \E e \in Executions : CallTool(e) \/ Drop(e) BY <1>4 DEF CallTool, Drop
<1>5. CASE \E e \in Executions, retry \in BOOLEAN : Fail(e, retry) BY <1>5 DEF Fail, Abandon
<1>6. CASE \E e \in Executions, c \in NextCharge : Reserve(e, c) BY <1>6, Zenon DEF Reserve
<1>7. CASE \E e \in Executions : Commit(e) BY <1>7 DEF Commit
<1> QED BY <1>1, <1>2, <1>3, <1>4, <1>5, <1>6, <1>7 DEF Next

\* What a reservation does to the rows: nothing, or it opens a row that the
\* budget allows under the key that the execution draws.
LEMMA ReserveRows ==
  ASSUME TypeOK, NEW e \in Executions, NEW c \in NextCharge, Reserve(e, c)
  PROVE  LET key == <<AttemptOf(e), c.kind, ordinal[e]>>
         IN  /\ key \in Keys
             /\ \/ rows' = rows
                \/ /\ rows[key].status = "NONE"
                   /\ rows'[key] = [status |-> "RESERVED",
                                    reservation |-> c.usage, actual |-> 0]
                   /\ \A x \in Keys : x # key => rows'[x] = rows[x]
                   /\ Total + c.usage <= Budget
<1> DEFINE key == <<AttemptOf(e), c.kind, ordinal[e]>>
<1>1. key \in Keys
  <2>1. c.kind \in Kinds BY ChargeTypes
  <2>2. ordinal[e] \in 0 .. MaxCharges - 1 BY MeterAssumption DEF TypeOK, Reserve
  <2> QED BY <2>1, <2>2, KeyTypes
<1>2. DOMAIN rows = Keys BY DEF TypeOK
<1> QED BY <1>1, <1>2 DEF Reserve, Affordable

\* What a commit does to the rows: nothing, or it settles an open row at a usage
\* within its reservation.
LEMMA CommitRows ==
  ASSUME TypeOK, NEW e \in Executions, Commit(e)
  PROVE  LET key == CurrentKey(e)
             used == IF charge[e].kind = "model" THEN measured[e] ELSE charge[e].usage
         IN  \/ rows' = rows
             \/ /\ key \in Keys
                /\ rows[key].status = "RESERVED"
                /\ used <= rows[key].reservation
                /\ rows'[key] = [rows[key] EXCEPT !.status = "COMMITTED", !.actual = used]
                /\ \A x \in Keys : x # key => rows'[x] = rows[x]
<1> DEFINE key == CurrentKey(e)
           used == IF charge[e].kind = "model" THEN measured[e] ELSE charge[e].usage
<1>1. DOMAIN rows = Keys /\ rows = [x \in Keys |-> rows[x]] BY DEF TypeOK
<1> HIDE DEF key, used
<1>2. CASE rows' = [rows EXCEPT ![key].status = "COMMITTED", ![key].actual = used]
           /\ key \notin Keys
  <2>1. rows' = [x \in Keys |-> rows[x]] BY <1>1, <1>2
  <2> QED BY <1>1, <2>1
<1>3. CASE /\ rows' = [rows EXCEPT ![key].status = "COMMITTED", ![key].actual = used]
           /\ key \in Keys
           /\ rows[key].status = "RESERVED" /\ used <= rows[key].reservation
  <2>1. rows'[key] = [rows[key] EXCEPT !.status = "COMMITTED", !.actual = used]
    BY <1>1, <1>3
  <2>2. \A x \in Keys : x # key => rows'[x] = rows[x] BY <1>1, <1>3
  <2> QED BY <1>3, <2>1, <2>2 DEF key, used
<1>4. \/ rows' = rows
      \/ /\ rows' = [rows EXCEPT ![key].status = "COMMITTED", ![key].actual = used]
         /\ rows[key].status = "RESERVED" /\ used <= rows[key].reservation
  BY DEF Commit, key, used
<1> QED BY <1>2, <1>3, <1>4

\* The charges stay within the budget: a reservation is opened only if it is
\* affordable on top of all that counts, and a commit counts for no more than
\* the reservation did.
LEMMA BudgetStep ==
  ASSUME MeterInv, TypeOK', Next PROVE BudgetInv'
<1> USE DEF MeterInv
<1>1. CASE rows' = rows
  BY <1>1 DEF BudgetInv, Total, CountedUsage, ActualUsage
<1>2. ASSUME NEW e \in Executions, NEW c \in NextCharge, Reserve(e, c), rows' # rows
      PROVE  BudgetInv'
  <2> DEFINE key == <<AttemptOf(e), c.kind, ordinal[e]>>
  <2>1. /\ key \in Keys
        /\ rows[key].status = "NONE"
        /\ rows'[key] = [status |-> "RESERVED", reservation |-> c.usage, actual |-> 0]
        /\ \A x \in Keys : x # key => rows'[x] = rows[x]
        /\ Total + c.usage <= Budget
    BY <1>2, ReserveRows
  <2> HIDE DEF key
  <2>2. /\ IsFiniteSet(Units(CountedUsage')) /\ IsFiniteSet(Units(ActualUsage'))
        /\ Total' = Total - Counted(rows[key]) + Counted(rows'[key])
        /\ Total \in Nat
    BY <2>1, RowUpdate
  <2>3. Counted(rows[key]) = 0 /\ Counted(rows'[key]) = c.usage BY <2>1 DEF Counted
  <2>4. \A k \in Keys : rows'[k].status # "COMMITTED" => rows'[k].actual = 0
    BY <2>1 DEF BudgetInv
  <2>5. c.usage \in Nat BY ChargeTypes
  <2>6. Total' <= Budget BY <2>1, <2>2, <2>3, <2>5
  <2> QED BY <2>2, <2>4, <2>6, MeterAssumption DEF BudgetInv
<1>3. ASSUME NEW e \in Executions, Commit(e), rows' # rows PROVE BudgetInv'
  <2> DEFINE key == CurrentKey(e)
             used == IF charge[e].kind = "model" THEN measured[e] ELSE charge[e].usage
  <2>1. /\ key \in Keys
        /\ rows[key].status = "RESERVED" /\ used <= rows[key].reservation
        /\ rows'[key] = [rows[key] EXCEPT !.status = "COMMITTED", !.actual = used]
        /\ \A x \in Keys : x # key => rows'[x] = rows[x]
    BY <1>3, CommitRows
  <2>2. used \in Nat BY DEF TypeOK
  <2> HIDE DEF key, used
  <2>3. /\ IsFiniteSet(Units(CountedUsage')) /\ IsFiniteSet(Units(ActualUsage'))
        /\ Total' = Total - Counted(rows[key]) + Counted(rows'[key])
        /\ Total \in Nat /\ Total' \in Nat
    BY <2>1, RowUpdate
  <2>4. rows[key] \in [status : {"NONE", "RESERVED", "COMMITTED"},
                       reservation : Nat, actual : Nat]
    BY <2>1 DEF TypeOK
  <2>5. rows'[key].status = "COMMITTED" /\ rows'[key].actual = used BY <2>1, <2>4
  <2>6. /\ Counted(rows[key]) = rows[key].reservation /\ rows[key].reservation \in Nat
        /\ Counted(rows'[key]) = used
    BY <2>1, <2>4, <2>5 DEF Counted
  <2>7. \A k \in Keys : rows'[k].status # "COMMITTED" => rows'[k].actual = 0
    BY <2>1, <2>5 DEF BudgetInv
  <2>8. Total' <= Total BY <2>1, <2>2, <2>3, <2>6
  <2>9. Total' <= Budget BY <2>3, <2>8, MeterAssumption DEF BudgetInv
  <2> QED BY <2>3, <2>7, <2>9 DEF BudgetInv
<1> QED BY <1>1, <1>2, <1>3, StepShape DEF Quiet

\* An accepted task is settled: acceptance finds every reservation committed,
\* releases the owner and records the total, and no fence opens after it.
LEMMA AcceptedStep ==
  ASSUME MeterInv, TypeOK', Next PROVE AcceptedInv'
<1> USE ExecutionAssumption DEF MeterInv
<1> SUFFICES ASSUME task' = "accepted"
             PROVE  /\ owner' = None
                    /\ \A k \in Keys : rows'[k].status # "RESERVED"
                    /\ usage' = Total'
  BY DEF AcceptedInv
<1> USE DEF executionVars, meterVars
<1>1. CASE task = "accepted"
  <2>1. ~ \E e \in Executions : Fence(e) BY <1>1 DEF Fence
  <2>2. owner = None BY <1>1 DEF AcceptedInv
  <2>3. UNCHANGED <<owner, rows, usage>>
    <3>1. CASE \E e \in Executions : Start(e) \/ Complete(e)
      BY <1>1, <2>1, <3>1 DEF Start, Begin, Complete, Settle
    <3>2. CASE Expire \/ Heartbeat \/ RetryCommand
      BY <1>1, <2>2, <3>2
      DEF Expire, ExpireLease, Heartbeat, HeartbeatLease, RetryCommand, Reopen
    <3>3. CASE \E e \in Executions, c \in NextCharge : Reserve(e, c)
      BY <2>1, <3>3 DEF Reserve
    <3>4. CASE \E e \in Executions, m \in 0 .. MaxUsage : CallModel(e, m) BY <3>4 DEF CallModel
    <3>5. CASE \E e \in Executions : CallTool(e) \/ Drop(e) BY <3>5 DEF CallTool, Drop
    <3>6. CASE \E e \in Executions : Commit(e) BY <2>1, <3>6 DEF Commit
    <3>7. CASE \E e \in Executions, retry \in BOOLEAN : Fail(e, retry)
      BY <2>1, <2>2, <3>7 DEF Fail, Abandon
    <3> QED BY <3>1, <3>2, <3>3, <3>4, <3>5, <3>6, <3>7 DEF Next
  <2> QED BY <1>1, <2>3 DEF AcceptedInv, Total, CountedUsage
<1>2. CASE task # "accepted"
  <2>1. PICK e \in Executions : Complete(e)
    <3>1. CASE \E e \in Executions : Start(e) BY <1>2, <3>1 DEF Start, Begin
    <3>2. CASE Expire \/ Heartbeat \/ RetryCommand
      BY <1>2, <3>2 DEF Expire, ExpireLease, Heartbeat, HeartbeatLease, RetryCommand, Reopen
    <3>3. CASE \E e \in Executions, c \in NextCharge : Reserve(e, c)
      BY <1>2, <3>3 DEF Reserve
    <3>4. CASE \E e \in Executions, m \in 0 .. MaxUsage : CallModel(e, m)
      BY <1>2, <3>4 DEF CallModel
    <3>5. CASE \E e \in Executions : CallTool(e) \/ Drop(e)
      BY <1>2, <3>5 DEF CallTool, Drop
    <3>6. CASE \E e \in Executions : Commit(e) BY <1>2, <3>6 DEF Commit
    <3>7. CASE \E e \in Executions, retry \in BOOLEAN : Fail(e, retry)
      BY <1>2, <3>7 DEF Fail, Abandon
    <3> QED BY <3>1, <3>2, <3>3, <3>4, <3>5, <3>6, <3>7 DEF Next
  <2>2. \A k \in Keys : rows[k].status # "RESERVED" BY <2>1 DEF Complete, Settle, Verdict
  <2>3. \A k \in Keys : Counted(rows[k]) = rows[k].actual
    BY <2>2 DEF BudgetInv, TypeOK, Counted
  <2>4. CountedUsage = ActualUsage BY <2>3 DEF CountedUsage, ActualUsage
  <2>5. /\ owner' = None /\ rows' = rows /\ usage' = SumOf(ActualUsage)
    BY <2>1 DEF Complete, Settle
  <2>6. Total' = Total BY <2>5 DEF Total, CountedUsage
  <2> QED BY <2>2, <2>4, <2>5, <2>6 DEF Total
<1> QED BY <1>1, <1>2

\* The charge under way keeps its row and its kind, and the keys that an
\* execution has not drawn stay fresh: no other execution shares them.
LEMMA ChargeStep ==
  ASSUME MeterInv, TypeOK', Next PROVE ChargeInv'
<1> USE DEF MeterInv, executionVars, meterVars
<1> DEFINE ChargeOf(e) ==
      /\ \A kind \in Kinds, i \in 0 .. MaxCharges - 1 :
           i >= ordinal[e] => rows[<<e, kind, i>>].status = "NONE"
      /\ charge[e].kind = "tool" => charge[e].usage = 1
      /\ pc[e] \in {"reserved", "answered"} =>
           /\ ordinal[e] > 0
           /\ rows[CurrentKey(e)].status = "RESERVED"
           /\ rows[CurrentKey(e)].reservation = charge[e].usage
      /\ pc[e] = "answered" => charge[e].kind = "model"
      /\ pc[e] = "charged" => charge[e].kind = "tool"
<1>0. posture' = posture BY StepShape
<1> SUFFICES ASSUME posture = "local", NEW e \in Executions PROVE ChargeOf(e)'
  BY <1>0 DEF ChargeInv
<1>1. \A d \in Executions : ChargeOf(d) BY DEF ChargeInv
<1>2. CurrentKey(e) = <<e, charge[e].kind, ordinal[e] - 1>> BY KeyTypes
<1>3. CurrentKey(e)' = <<e, charge'[e].kind, ordinal'[e] - 1>> BY <1>0 DEF CurrentKey, AttemptOf
<1>4. CASE Quiet /\ (pc'[e] \in {"reserved", "answered", "charged"} => pc'[e] = pc[e])
  BY <1>1, <1>2, <1>3, <1>4 DEF Quiet
<1>5. ASSUME NEW d \in Executions, NEW m \in 0 .. MaxUsage, CallModel(d, m)
      PROVE  ChargeOf(e)'
  <2>1. Quiet BY <1>5 DEF CallModel, Quiet
  <2>2. pc'[e] = pc[e] \/ pc'[e] = "running"
          \/ (pc[e] = "reserved" /\ pc'[e] = "answered" /\ charge[e].kind = "model")
    BY <1>5 DEF CallModel, Goto, TypeOK
  <2> QED BY <1>1, <1>2, <1>3, <2>1, <2>2 DEF Quiet
<1>6. ASSUME NEW d \in Executions, NEW c \in NextCharge, Reserve(d, c) PROVE ChargeOf(e)'
  <2> DEFINE key == <<d, c.kind, ordinal[d]>>
  <2>1. /\ c.kind \in Kinds /\ c.usage \in Nat /\ (c.kind = "tool" => c.usage = 1)
    BY ChargeTypes
  <2>2. /\ key \in Keys
        /\ \/ rows' = rows
           \/ /\ rows'[key] = [status |-> "RESERVED", reservation |-> c.usage, actual |-> 0]
              /\ \A x \in Keys : x # key => rows'[x] = rows[x]
    BY <1>6, ReserveRows DEF AttemptOf
  <2>3. /\ ordinal[d] \in 0 .. MaxCharges - 1
        /\ ordinal' = [ordinal EXCEPT ![d] = @ + 1]
        /\ charge' = [charge EXCEPT ![d] = c]
        /\ pc[d] = "running"
    BY <1>6, MeterAssumption DEF Reserve, TypeOK
  <2>4. rows[key].status = "NONE" BY <1>1, <2>1, <2>3
  <2>5. \/ rows' = rows /\ pc' = pc
        \/ rows' # rows /\ pc' = [pc EXCEPT ![d] = "reserved"]
    BY <1>6, <2>2, <2>4 DEF Reserve, AttemptOf, Goto, TypeOK
  <2>6. ordinal'[e] >= ordinal[e] /\ (e = d => ordinal'[e] = ordinal[d] + 1)
    BY <2>3 DEF TypeOK
  <2>7. \A kind \in Kinds, i \in 0 .. MaxCharges - 1 :
          <<e, kind, i>> \in Keys BY DEF Keys
  <2>8. \A kind \in Kinds, i \in 0 .. MaxCharges - 1 :
          i >= ordinal'[e] => rows'[<<e, kind, i>>].status = "NONE"
    <3> SUFFICES ASSUME NEW kind \in Kinds, NEW i \in 0 .. MaxCharges - 1, i >= ordinal'[e]
                 PROVE  rows'[<<e, kind, i>>].status = "NONE"
      OBVIOUS
    <3>1. i >= ordinal[e] BY <2>6 DEF TypeOK
    <3>2. <<e, kind, i>> # key BY <2>3, <2>6
    <3> QED BY <1>1, <2>2, <2>7, <3>1, <3>2
  <2>9. CASE e = d
    <3>1. charge'[e] = c BY <2>3, <2>9 DEF TypeOK
    <3>2. CurrentKey(e)' = key BY <1>3, <2>3, <2>6, <2>9, <3>1
    <3>3. pc'[e] \in {"running", "reserved"} BY <2>3, <2>5, <2>9 DEF TypeOK
    <3>4. pc'[e] = "reserved" => rows' # rows BY <2>3, <2>5, <2>9
    <3>5. ordinal'[e] > 0 BY <2>3, <2>6, <2>9
    <3> QED BY <2>1, <2>2, <2>8, <3>1, <3>2, <3>3, <3>4, <3>5
  <2>10. CASE e # d
    <3>1. charge'[e] = charge[e] /\ pc'[e] = pc[e] /\ ordinal'[e] = ordinal[e]
      BY <2>3, <2>5, <2>10 DEF TypeOK
    <3>2. CurrentKey(e)' = CurrentKey(e) /\ CurrentKey(e) # key BY <1>2, <1>3, <2>10, <3>1
    <3>3. pc[e] \in {"reserved", "answered"} => rows'[CurrentKey(e)] = rows[CurrentKey(e)]
      BY <1>1, <2>2, <3>2, KeyTypes
    <3> QED BY <1>1, <2>8, <3>1, <3>2, <3>3
  <2> QED BY <2>9, <2>10
<1>7. ASSUME NEW d \in Executions, Commit(d) PROVE ChargeOf(e)'
  <2>0. UNCHANGED <<ordinal, charge>> BY <1>7 DEF Commit
  <2>1. CurrentKey(d) = <<d, charge[d].kind, ordinal[d] - 1>> BY KeyTypes
  <2>2. pc[d] \in {"reserved", "answered"} BY <1>7 DEF Commit
  <2>3. \A x \in Keys : x # CurrentKey(d) => rows'[x] = rows[x] BY <1>7, CommitRows
  <2>4. rows[CurrentKey(d)].status = "RESERVED" BY <1>1, <2>2
  <2>5. \A kind \in Kinds, i \in 0 .. MaxCharges - 1 :
          i >= ordinal[e] => rows'[<<e, kind, i>>].status = "NONE"
    <3> SUFFICES ASSUME NEW kind \in Kinds, NEW i \in 0 .. MaxCharges - 1, i >= ordinal[e]
                 PROVE  rows'[<<e, kind, i>>].status = "NONE"
      OBVIOUS
    <3>1. <<e, kind, i>> \in Keys BY DEF Keys
    <3>2. rows[<<e, kind, i>>].status = "NONE" BY <1>1
    <3>3. <<e, kind, i>> # CurrentKey(d) BY <2>4, <3>2
    <3> QED BY <2>3, <3>1, <3>2, <3>3
  <2>6. CASE e = d
    <3>1. pc'[e] \in {"running", "charged"} BY <1>7, <2>6 DEF Commit, Goto, TypeOK
    <3>2. pc'[e] = "charged" => charge[e].kind = "tool"
      <4>1. charge[e].kind \in {"model", "tool"} BY DEF TypeOK, Kinds
      <4> QED BY <1>7, <2>6, <4>1 DEF Commit, Goto, TypeOK
    <3> QED BY <1>1, <2>0, <2>5, <3>1, <3>2
  <2>7. CASE e # d
    <3>1. pc'[e] = pc[e] BY <1>7, <2>7 DEF Commit, Goto, TypeOK
    <3>2. CurrentKey(e) # CurrentKey(d) BY <1>2, <2>1, <2>7
    <3>3. CurrentKey(e)' = CurrentKey(e) BY <1>2, <1>3, <2>0
    <3>4. pc[e] \in {"reserved", "answered"} => rows'[CurrentKey(e)] = rows[CurrentKey(e)]
      BY <1>1, <2>3, <3>2, KeyTypes
    <3> QED BY <1>1, <2>0, <2>5, <3>1, <3>3, <3>4
  <2> QED BY <2>6, <2>7
<1>8. ASSUME ~ \E d \in Executions, m \in 0 .. MaxUsage : CallModel(d, m),
             ~ \E d \in Executions, c \in NextCharge : Reserve(d, c),
             ~ \E d \in Executions : Commit(d)
      PROVE  Quiet /\ (pc'[e] \in {"reserved", "answered", "charged"} => pc'[e] = pc[e])
  <2>1. Quiet BY <1>8, StepShape
  <2>2. CASE \E d \in Executions : Start(d) \/ Complete(d)
    BY <2>1, <2>2 DEF Start, Complete, Goto, TypeOK
  <2>3. CASE Expire \/ Heartbeat \/ RetryCommand
    BY <2>1, <2>3 DEF Expire, Heartbeat, RetryCommand
  <2>4. CASE \E d \in Executions : CallTool(d) \/ Drop(d)
    BY <2>1, <2>4 DEF CallTool, Drop, Goto, TypeOK
  <2>5. CASE \E d \in Executions, retry \in BOOLEAN : Fail(d, retry)
    BY <2>1, <2>5 DEF Fail, Goto, TypeOK
  <2> QED BY <1>8, <2>2, <2>3, <2>4, <2>5 DEF Next
<1> QED BY <1>4, <1>5, <1>6, <1>7, <1>8

\* The charges go on covering the spending: what an execution reserves it may
\* use, what it uses it no longer may, and what it commits is what it used.
LEMMA SpendStep ==
  ASSUME MeterInv, TypeOK', Next PROVE SpendInv'
<1> USE DEF MeterInv, executionVars, meterVars
<1>0. posture' = posture BY StepShape
<1> SUFFICES ASSUME posture = "local" PROVE SpendInv' BY <1>0 DEF SpendInv
<1> DEFINE Within(e) == pc[e] = "answered" => measured[e] <= charge[e].usage
           Others(e) == \A d \in Executions : d # e =>
                          pc'[d] = pc[d] /\ charge'[d] = charge[d] /\ measured'[d] = measured[d]
<1>1. /\ IsFiniteSet(Units(Pending))
      /\ ~overran => spent + SumOf(Pending) <= Total
      /\ ~overran => \A e \in Executions : Within(e)
  BY DEF SpendInv
<1>2. ASSUME NEW e \in Executions, Others(e), ~overran' => ~overran,
             ~overran' => spent' - spent + Pending'[e] - Pending[e] <= Total' - Total,
             ~overran' => Within(e)'
      PROVE  SpendInv'
  <2>1. /\ IsFiniteSet(Units(Pending'))
        /\ SumOf(Pending) \in Nat /\ SumOf(Pending') \in Nat
        /\ SumOf(Pending') = SumOf(Pending) - Pending[e] + Pending'[e]
    BY <1>1, <1>2, PendingUpdate
  <2>2. Pending[e] \in Nat /\ Pending'[e] \in Nat
    <3>1. /\ charge[e].usage \in Nat /\ measured[e] \in Nat
          /\ charge'[e].usage \in Nat /\ measured'[e] \in Nat
      BY DEF TypeOK
    <3> QED BY <3>1 DEF Pending
  <2>3. Total \in Nat /\ Total' \in Nat
    <3>1. IsFiniteSet(Units(CountedUsage)) BY DEF BudgetInv
    <3>2. IsFiniteSet(Units(CountedUsage'))
      <4>1. BudgetInv' BY BudgetStep
      <4> QED BY <4>1 DEF BudgetInv
    <3> QED BY <3>1, <3>2, FS_CardinalityType DEF Total, SumOf
  <2>4. spent \in Nat /\ spent' \in Nat BY DEF TypeOK
  <2>5. ~overran' => spent' + SumOf(Pending') <= Total'
    BY <1>1, <1>2, <2>1, <2>2, <2>3, <2>4
  <2>6. ~overran' => \A d \in Executions : Within(d)' BY <1>1, <1>2
  <2> QED BY <2>1, <2>5, <2>6 DEF SpendInv
<1>3. CASE UNCHANGED <<rows, charge, measured, spent, overran>>
           /\ \A e \in Executions :
                pc'[e] \in {"reserved", "answered", "charged"}
                  \/ pc[e] \in {"reserved", "answered", "charged"} => pc'[e] = pc[e]
  <2>1. Pending' = Pending BY <1>3 DEF Pending
  <2>2. Total' = Total BY <1>3 DEF Total, CountedUsage
  <2> QED BY <1>1, <1>3, <2>1, <2>2 DEF SpendInv
<1>4. ASSUME NEW e \in Executions, NEW c \in NextCharge, Reserve(e, c) PROVE SpendInv'
  <2> DEFINE key == <<e, c.kind, ordinal[e]>>
  <2>1. c.kind \in Kinds /\ c.usage \in Nat BY ChargeTypes
  <2>2. /\ key \in Keys
        /\ \/ rows' = rows
           \/ /\ rows'[key] = [status |-> "RESERVED", reservation |-> c.usage, actual |-> 0]
              /\ \A x \in Keys : x # key => rows'[x] = rows[x]
    BY <1>4, ReserveRows DEF AttemptOf
  <2>3. ordinal[e] \in 0 .. MaxCharges - 1 BY <1>4, MeterAssumption DEF Reserve, TypeOK
  <2>4. rows[key].status = "NONE" BY <2>1, <2>3 DEF ChargeInv
  <2>5. /\ pc[e] = "running" /\ charge' = [charge EXCEPT ![e] = c]
        /\ UNCHANGED <<measured, spent, overran>>
        /\ \/ rows' = rows /\ pc' = pc
           \/ rows' # rows /\ pc' = [pc EXCEPT ![e] = "reserved"]
    <3>1. /\ pc[e] = "running" /\ charge' = [charge EXCEPT ![e] = c]
          /\ UNCHANGED <<measured, spent, overran>>
      BY <1>4 DEF Reserve
    <3>2. \/ rows' = rows /\ pc' = pc
          \/ rows' # rows /\ pc' = [pc EXCEPT ![e] = "reserved"]
      BY <1>4, <2>2, <2>4 DEF Reserve, AttemptOf, Goto, TypeOK
    <3> QED BY <3>1, <3>2
  <2> HIDE DEF key
  <2>6. Others(e) BY <2>5 DEF TypeOK
  <2>7. /\ Total \in Nat /\ Total' \in Nat
        /\ Total' = Total - Counted(rows[key]) + Counted(rows'[key])
    <3>1. \A x \in Keys : x # key => rows'[x] = rows[x] BY <2>2
    <3> QED BY <2>2, <3>1, RowUpdate
  <2>8. CASE rows' = rows
    <3>1. pc'[e] = "running" BY <2>5, <2>8
    <3>2. Pending[e] = 0 /\ Pending'[e] = 0 BY <2>5, <3>1 DEF Pending
    <3>3. Total' = Total BY <2>8 DEF Total, CountedUsage
    <3>4. spent' - spent + Pending'[e] - Pending[e] <= Total' - Total
      BY <2>5, <2>7, <3>2, <3>3 DEF TypeOK
    <3> QED BY <1>2, <2>5, <2>6, <3>1, <3>4
  <2>9. CASE rows' # rows
    <3>1. pc'[e] = "reserved" /\ charge'[e] = c BY <2>5, <2>9 DEF TypeOK
    <3>2. Pending[e] = 0 /\ Pending'[e] = c.usage BY <2>5, <3>1 DEF Pending
    <3>3. Counted(rows[key]) = 0 /\ Counted(rows'[key]) = c.usage
      BY <2>2, <2>4, <2>9 DEF Counted
    <3>4. spent' - spent + Pending'[e] - Pending[e] <= Total' - Total
      BY <2>1, <2>5, <2>7, <3>2, <3>3 DEF TypeOK
    <3> QED BY <1>2, <2>5, <2>6, <3>1, <3>4
  <2> QED BY <2>8, <2>9
<1>5. ASSUME NEW e \in Executions, NEW m \in 0 .. MaxUsage, CallModel(e, m) PROVE SpendInv'
  <2>1. Total' = Total BY <1>5 DEF CallModel, Total, CountedUsage
  <2>2. m \in Nat BY MeterAssumption
  <2>3. Others(e) BY <1>5 DEF CallModel, Goto, TypeOK
  <2>4. ~overran' => ~overran /\ m <= charge[e].usage
    <3>1. charge[e].usage \in Nat BY DEF TypeOK
    <3>2. ~overran' => ~overran /\ ~(m > charge[e].usage) BY <1>5, Zenon DEF CallModel
    <3>3. ~(m > charge[e].usage) => m <= charge[e].usage BY <2>2, <3>1
    <3> QED BY <3>2, <3>3, Zenon
  <2>5. Pending[e] = charge[e].usage BY <1>5 DEF CallModel, Pending
  <2>6. /\ pc'[e] \in {"answered", "running"} /\ charge' = charge /\ spent' = spent + m
        /\ pc'[e] = "answered" => measured'[e] = m
    BY <1>5 DEF CallModel, Goto, TypeOK
  <2>7. ~overran' => Pending'[e] <= charge[e].usage - m /\ Pending'[e] \in Nat
    <3>1. charge[e].usage \in Nat BY DEF TypeOK
    <3> QED BY <2>2, <2>4, <2>6, <3>1 DEF Pending
  <2>8. ~overran' => spent' - spent + Pending'[e] - Pending[e] <= Total' - Total
    <3>1. Total \in Nat BY FS_CardinalityType DEF Total, SumOf, BudgetInv
    <3>2. spent \in Nat /\ charge[e].usage \in Nat BY DEF TypeOK
    <3> QED BY <2>1, <2>2, <2>5, <2>6, <2>7, <3>1, <3>2
  <2>9. ~overran' => Within(e)' BY <2>4, <2>6
  <2> QED BY <1>2, <2>3, <2>4, <2>8, <2>9
<1>6. ASSUME NEW e \in Executions, CallTool(e) \/ Drop(e) PROVE SpendInv'
  <2>1. Total' = Total BY <1>6 DEF CallTool, Drop, Total, CountedUsage
  <2>2. Others(e) /\ UNCHANGED overran BY <1>6 DEF CallTool, Drop, Goto, TypeOK
  <2>3. pc'[e] = "running" BY <1>6 DEF CallTool, Drop, Goto, TypeOK
  <2>4. Pending'[e] = 0 BY <2>3 DEF Pending
  <2>5. spent' - spent <= Pending[e]
    <3>1. CASE CallTool(e)
      <4>1. charge[e].usage = 1 /\ pc[e] = "charged" BY <3>1 DEF CallTool, ChargeInv
      <4>2. Pending[e] = 1 BY <4>1 DEF Pending
      <4>3. spent' = spent + 1 /\ spent \in Nat BY <3>1 DEF CallTool, TypeOK
      <4> QED BY <4>2, <4>3
    <3>2. CASE Drop(e)
      <4>1. spent' = spent /\ spent \in Nat BY <3>2 DEF Drop, TypeOK
      <4>2. charge[e].usage \in Nat /\ measured[e] \in Nat BY DEF TypeOK
      <4>3. Pending[e] \in Nat BY <4>2 DEF Pending
      <4> QED BY <4>1, <4>3
    <3> QED BY <1>6, <3>1, <3>2
  <2>6. spent' - spent + Pending'[e] - Pending[e] <= Total' - Total
    <3>1. Total \in Nat BY FS_CardinalityType DEF Total, SumOf, BudgetInv
    <3>2. spent \in Nat /\ spent' \in Nat BY DEF TypeOK
    <3>3. charge[e].usage \in Nat /\ measured[e] \in Nat BY DEF TypeOK
    <3>4. Pending[e] \in Nat BY <3>3 DEF Pending
    <3> QED BY <2>1, <2>4, <2>5, <3>1, <3>2, <3>4
  <2> QED BY <1>2, <2>2, <2>3, <2>6
<1>7. ASSUME NEW e \in Executions, Commit(e) PROVE SpendInv'
  <2> DEFINE key == CurrentKey(e)
             used == IF charge[e].kind = "model" THEN measured[e] ELSE charge[e].usage
  <2>1. /\ key \in Keys /\ rows[key].status = "RESERVED"
        /\ rows[key].reservation = charge[e].usage
    BY <1>7, KeyTypes DEF Commit, ChargeInv
  <2>2. /\ UNCHANGED <<charge, measured, spent, overran>> /\ Others(e)
        /\ pc[e] = (IF charge[e].kind = "model" THEN "answered" ELSE "reserved")
    BY <1>7 DEF Commit, Goto, TypeOK
  <2>3. \/ rows' = rows /\ pc'[e] = "running"
        \/ /\ pc'[e] = (IF charge[e].kind = "model" THEN "running" ELSE "charged")
           /\ used <= rows[key].reservation
           /\ rows' = [rows EXCEPT ![key].status = "COMMITTED", ![key].actual = used]
    BY <1>7, <2>1 DEF Commit, Goto, TypeOK
  <2>4. /\ charge[e].usage \in Nat /\ measured[e] \in Nat /\ used \in Nat /\ spent \in Nat
        /\ rows[key] \in [status : {"NONE", "RESERVED", "COMMITTED"},
                          reservation : Nat, actual : Nat]
        /\ DOMAIN rows = Keys
    BY <2>1 DEF TypeOK
  <2> HIDE DEF key
  <2>5. /\ Total \in Nat /\ Total' \in Nat
        /\ Total' = Total - Counted(rows[key]) + Counted(rows'[key])
    <3>1. \A x \in Keys : x # key => rows'[x] = rows[x] BY <2>3, <2>4
    <3> QED BY <2>1, <3>1, RowUpdate
  <2>6. pc'[e] # "answered" BY <2>3
  <2>7. CASE rows' = rows /\ pc'[e] = "running"
    <3>1. Pending'[e] = 0 /\ Pending[e] \in Nat BY <2>4, <2>7 DEF Pending
    <3>2. Total' = Total BY <2>7 DEF Total, CountedUsage
    <3>3. spent' - spent + Pending'[e] - Pending[e] <= Total' - Total
      BY <2>2, <2>4, <2>5, <3>1, <3>2
    <3> QED BY <1>2, <2>2, <2>6, <3>3
  <2>8. CASE /\ pc'[e] = (IF charge[e].kind = "model" THEN "running" ELSE "charged")
             /\ used <= rows[key].reservation
             /\ rows' = [rows EXCEPT ![key].status = "COMMITTED", ![key].actual = used]
    <3>1. rows'[key].status = "COMMITTED" /\ rows'[key].actual = used
      BY <2>1, <2>4, <2>8
    <3>2. Counted(rows'[key]) = used /\ Counted(rows[key]) = charge[e].usage
      BY <2>1, <3>1 DEF Counted
    <3>3. ~overran' => Pending'[e] - Pending[e] <= used - charge[e].usage
      <4>1. CASE charge[e].kind = "model"
        <5>1. pc[e] = "answered" /\ pc'[e] = "running" BY <2>2, <2>8, <4>1
        <5>2. ~overran' => Pending[e] = charge[e].usage - measured[e]
          BY <1>1, <2>2, <5>1 DEF Pending
        <5>3. Pending'[e] = 0 BY <5>1 DEF Pending
        <5> QED BY <2>4, <4>1, <5>2, <5>3
      <4>2. CASE charge[e].kind # "model"
        <5>1. pc[e] = "reserved" /\ pc'[e] = "charged" BY <2>2, <2>8, <4>2
        <5>2. Pending[e] = charge[e].usage /\ Pending'[e] = charge[e].usage
          BY <2>2, <5>1 DEF Pending
        <5> QED BY <2>4, <4>2, <5>2
      <4> QED BY <4>1, <4>2
    <3>4. Pending[e] \in Nat /\ Pending'[e] \in Nat BY <2>2, <2>4 DEF Pending
    <3> HIDE DEF used
    <3>5. ~overran' => spent' - spent + Pending'[e] - Pending[e] <= Total' - Total
      BY <2>2, <2>4, <2>5, <3>2, <3>3, <3>4
    <3> QED BY <1>2, <2>2, <2>6, <3>5
  <2> QED BY <2>3, <2>7, <2>8
<1>8. ASSUME NEW e \in Executions, Start(e) \/ Complete(e) PROVE SpendInv'
  BY <1>3, <1>8 DEF Start, Complete, Goto, TypeOK
<1>9. CASE Expire \/ Heartbeat \/ RetryCommand
  BY <1>3, <1>9 DEF Expire, Heartbeat, RetryCommand
<1>10. ASSUME NEW e \in Executions, NEW retry \in BOOLEAN, Fail(e, retry) PROVE SpendInv'
  BY <1>3, <1>10 DEF Fail, Goto, TypeOK
<1> QED BY <1>4, <1>5, <1>6, <1>7, <1>8, <1>9, <1>10 DEF Next

\* A reservation that was overrun stays open for good: its execution can only
\* fail to commit it, and no other execution has its key.
LEMMA OverrunStep ==
  ASSUME MeterInv, TypeOK', Next PROVE OverrunInv'
<1> USE DEF MeterInv, executionVars, meterVars
<1>0. posture' = posture BY StepShape
<1> SUFFICES ASSUME posture = "local", overran' PROVE \E k \in Keys : Stuck(k)'
  BY <1>0 DEF OverrunInv
<1>1. \A e \in Executions :
        /\ CurrentKey(e) = <<e, charge[e].kind, ordinal[e] - 1>>
        /\ CurrentKey(e)' = <<e, charge'[e].kind, ordinal'[e] - 1>>
  BY <1>0, KeyTypes DEF CurrentKey, AttemptOf
<1>2. ASSUME NEW k \in Keys, Stuck(k),
             rows'[k] = rows[k],
             \A e \in Executions :
               \/ UNCHANGED <<pc[e], measured[e], charge[e], ordinal[e]>>
               \/ pc'[e] \notin {"reserved", "answered"}
               \/ CurrentKey(e)' # k
      PROVE  Stuck(k)'
  <2> SUFFICES ASSUME NEW e \in Executions, IsCurrent(e, k)'
               PROVE  pc'[e] = "answered" /\ measured'[e] > charge'[e].usage
    BY <1>2 DEF Stuck
  <2>1. UNCHANGED <<pc[e], measured[e], charge[e], ordinal[e]>> BY <1>2 DEF IsCurrent
  <2>2. IsCurrent(e, k) BY <1>1, <2>1 DEF IsCurrent
  <2> QED BY <1>2, <2>1, <2>2 DEF Stuck
<1>3. ASSUME NEW e \in Executions, NEW m \in 0 .. MaxUsage, CallModel(e, m)
      PROVE  \E k \in Keys : Stuck(k)'
  <2>1. /\ UNCHANGED <<rows, charge, ordinal>> /\ pc[e] = "reserved"
        /\ \A d \in Executions : d # e => UNCHANGED <<pc[d], measured[d]>>
        /\ pc'[e] \in {"answered", "running"}
        /\ pc'[e] = "answered" => measured'[e] = m
    BY <1>3 DEF CallModel, Goto, TypeOK
  <2>2. CurrentKey(e) \in Keys /\ rows[CurrentKey(e)].status = "RESERVED"
    BY <2>1, KeyTypes DEF ChargeInv
  <2>3. CASE m > charge[e].usage
    <3>1. \A d \in Executions : d # e => CurrentKey(d)' # CurrentKey(e) BY <1>1
    <3>2. \A d \in Executions : IsCurrent(d, CurrentKey(e))'
                                  => pc'[d] = "answered" /\ measured'[d] > charge'[d].usage
      <4> SUFFICES ASSUME NEW d \in Executions, pc'[d] \in {"reserved", "answered"},
                          CurrentKey(d)' = CurrentKey(e)'
                   PROVE  pc'[d] = "answered" /\ measured'[d] > charge'[d].usage
        BY <1>1, <2>1 DEF IsCurrent
      <4>1. d = e BY <1>1
      <4> QED BY <2>1, <2>3, <4>1
    <3>3. Stuck(CurrentKey(e))' BY <1>1, <2>1, <2>2, <3>2 DEF Stuck, IsCurrent
    <3> QED BY <1>1, <2>1, <2>2, <3>3
  <2>4. CASE ~(m > charge[e].usage)
    <3>1. overran BY <1>3, <2>4 DEF CallModel
    <3>2. PICK k \in Keys : Stuck(k) BY <3>1 DEF OverrunInv
    <3>3. CurrentKey(e) # k BY <2>1, <3>2 DEF Stuck, IsCurrent
    <3>4. CurrentKey(e)' # k BY <1>1, <2>1, <3>3
    <3> QED BY <1>2, <2>1, <3>2, <3>4
  <2> QED BY <2>3, <2>4
<1>4. ASSUME ~ \E e \in Executions, m \in 0 .. MaxUsage : CallModel(e, m)
      PROVE  \E k \in Keys : Stuck(k)'
  <2>1. UNCHANGED overran
    BY <1>4, Zenon DEF Next, Start, Expire, Heartbeat, Reserve, CallTool, Commit, Drop, Complete, Fail,
                RetryCommand
  <2>2. PICK k \in Keys : Stuck(k) BY <2>1 DEF OverrunInv
  <2>3. ASSUME NEW e \in Executions, NEW c \in NextCharge, Reserve(e, c) PROVE Stuck(k)'
    <3> DEFINE key == <<e, c.kind, ordinal[e]>>
    <3>1. /\ key \in Keys /\ (\A x \in Keys : x # key => rows'[x] = rows[x])
      BY <2>3, ReserveRows DEF AttemptOf
    <3>2. rows[key].status = "NONE"
      <4>1. c.kind \in Kinds BY ChargeTypes
      <4>2. ordinal[e] \in 0 .. MaxCharges - 1 BY <2>3, MeterAssumption DEF Reserve, TypeOK
      <4> QED BY <4>1, <4>2 DEF ChargeInv
    <3>3. key # k BY <2>2, <3>2 DEF Stuck
    <3>4. charge'[e] = c /\ ordinal'[e] = ordinal[e] + 1
      BY <2>3 DEF Reserve, TypeOK
    <3>5. CurrentKey(e)' = key BY <1>1, <3>4 DEF TypeOK
    <3>6. \A d \in Executions : d # e => UNCHANGED <<pc[d], measured[d], charge[d], ordinal[d]>>
      BY <2>3 DEF Reserve, Goto, TypeOK
    <3> QED BY <1>2, <2>2, <3>1, <3>3, <3>5, <3>6
  <2>4. ASSUME NEW e \in Executions, Commit(e) PROVE Stuck(k)'
    <3>1. /\ UNCHANGED <<measured, charge, ordinal>>
          /\ \A d \in Executions : d # e => UNCHANGED pc[d]
      BY <2>4 DEF Commit, Goto, TypeOK
    <3>2. CurrentKey(e)' = CurrentKey(e) BY <1>1, <3>1
    <3>3. CASE CurrentKey(e) # k
      <4>1. rows'[k] = rows[k] BY <2>4, <3>3, CommitRows
      <4> QED BY <1>2, <2>2, <3>1, <3>2, <3>3, <4>1
    <3>4. CASE CurrentKey(e) = k
      <4>1. pc[e] \in {"reserved", "answered"} BY <2>4 DEF Commit
      <4>2. pc[e] = "answered" /\ measured[e] > charge[e].usage
        BY <2>2, <3>4, <4>1 DEF Stuck, IsCurrent
      <4>3. /\ charge[e].kind = "model" /\ rows[k].status = "RESERVED"
            /\ rows[k].reservation = charge[e].usage
        BY <3>4, <4>2 DEF ChargeInv
      <4>4. measured[e] \in Nat /\ charge[e].usage \in Nat BY DEF TypeOK
      <4>5. ~(measured[e] <= rows[k].reservation) BY <4>2, <4>3, <4>4
      <4>6. rows' = rows /\ pc' = [pc EXCEPT ![e] = "running"]
        BY <2>4, <3>4, <4>3, <4>5 DEF Commit, Goto
      <4>7. rows'[k] = rows[k] /\ pc'[e] = "running" BY <4>6 DEF TypeOK
      <4> QED BY <1>2, <2>2, <3>1, <4>7
    <3> QED BY <3>3, <3>4
  <2>5. ASSUME Quiet, \A e \in Executions :
                        \/ pc'[e] = pc[e] /\ measured'[e] = measured[e]
                        \/ pc'[e] \notin {"reserved", "answered"}
        PROVE  Stuck(k)'
    BY <1>2, <2>2, <2>5 DEF Quiet
  <2>6. ASSUME NEW e \in Executions, Start(e) \/ CallTool(e) \/ Drop(e) \/ Complete(e)
        PROVE  Stuck(k)'
    <3>1. Quiet /\ measured' = measured
      BY <2>6 DEF Start, CallTool, Drop, Complete, Quiet
    <3>2. \A d \in Executions : pc'[d] = pc[d] \/ pc'[d] \notin {"reserved", "answered"}
      BY <2>6 DEF Start, CallTool, Drop, Complete, Goto, TypeOK
    <3> QED BY <2>5, <3>1, <3>2
  <2>7. CASE Expire \/ Heartbeat \/ RetryCommand
    BY <2>5, <2>7 DEF Expire, Heartbeat, RetryCommand, Quiet
  <2>8. ASSUME NEW e \in Executions, NEW retry \in BOOLEAN, Fail(e, retry) PROVE Stuck(k)'
    <3>1. Quiet /\ measured' = measured BY <2>8 DEF Fail, Quiet
    <3>2. \A d \in Executions : pc'[d] = pc[d] \/ pc'[d] \notin {"reserved", "answered"}
      BY <2>8 DEF Fail, Goto, TypeOK
    <3> QED BY <2>5, <3>1, <3>2
  <2> QED BY <1>4, <2>3, <2>4, <2>6, <2>7, <2>8 DEF Next
<1> QED BY <1>3, <1>4

-----------------------------------------------------------------------------
(***************************************************************************)
(* The theorems.                                                           *)
(***************************************************************************)

\* No step breaks the invariant.
LEMMA MeterStep == MeterInv /\ [Next]_vars => MeterInv'
<1>1. ASSUME MeterInv, Next PROVE MeterInv'
  <2>1. TypeOK' BY <1>1, MeterTypeStep DEF MeterInv
  <2> QED BY <1>1, <2>1, BudgetStep, AcceptedStep, ChargeStep, SpendStep, OverrunStep
          DEF MeterInv
<1>2. ASSUME MeterInv, UNCHANGED vars PROVE MeterInv'
  BY <1>2
  DEF vars, meterVars, executionVars, MeterInv, TypeOK, ExecutionTypeOK, BudgetInv, AcceptedInv,
      ChargeInv, SpendInv, OverrunInv, Total, CountedUsage, ActualUsage, Pending, Stuck,
      IsCurrent, CurrentKey, AttemptOf
<1> QED BY <1>1, <1>2

\* The charges of a task, those under way included, always cover what was used
\* for it, within its budget.
THEOREM MeterInvariant == Spec => []MeterInv
<1> QED BY InitMeterInv, MeterStep, PTL DEF Spec

\* Rows, executions and usage keep their types.
THEOREM MeterTyped == Spec => []TypeOK
<1>1. MeterInv => TypeOK BY DEF MeterInv
<1> QED BY <1>1, MeterInvariant, PTL

\* However many attempts a task takes, and wherever they lose their lease, it
\* does not really use more than its budget while its adapters estimate
\* truthfully (_reserve_budget_usage before each call).
THEOREM MeterSpendWithinBudget == Spec => []LocalSpendWithinBudget
<1>1. MeterInv => LocalSpendWithinBudget
  <2> SUFFICES ASSUME MeterInv, posture = "local", ~overran PROVE spent <= Budget
    BY DEF LocalSpendWithinBudget, SpendWithinBudget
  <2>1. spent + SumOf(Pending) <= Total /\ IsFiniteSet(Units(Pending))
    BY DEF MeterInv, SpendInv
  <2>2. SumOf(Pending) \in Nat BY <2>1, FS_CardinalityType DEF SumOf
  <2>3. Total \in Nat /\ Total <= Budget
    BY FS_CardinalityType DEF MeterInv, BudgetInv, Total, SumOf
  <2>4. spent \in Nat BY DEF MeterInv, TypeOK
  <2> QED BY <2>1, <2>2, <2>3, <2>4, MeterAssumption
<1> QED BY <1>1, MeterInvariant, PTL

\* What an accepted boundary records as used covers all that was used for the
\* task (_complete_boundary sums the committed charges of every attempt, and
\* accepts only when none is open).
THEOREM MeterUsageComplete == Spec => []LocalUsageComplete
<1>1. MeterInv => LocalUsageComplete
  <2> SUFFICES ASSUME MeterInv, posture = "local", task = "accepted" PROVE usage >= spent
    BY DEF LocalUsageComplete
  <2>1. usage = Total /\ (\A k \in Keys : rows[k].status # "RESERVED")
    BY DEF MeterInv, AcceptedInv
  <2>2. ~overran BY <2>1 DEF MeterInv, OverrunInv, Stuck
  <2>3. spent + SumOf(Pending) <= Total /\ IsFiniteSet(Units(Pending))
    BY <2>2 DEF MeterInv, SpendInv
  <2>4. SumOf(Pending) \in Nat BY <2>3, FS_CardinalityType DEF SumOf
  <2>5. spent \in Nat /\ usage \in Nat BY DEF MeterInv, TypeOK
  <2> QED BY <2>1, <2>3, <2>4, <2>5
<1> QED BY <1>1, MeterInvariant, PTL

\* The attempts and deliveries that are charged are executions as Execution has
\* them, and so are those of every task of the harness (HarnessImplementsExecution).
THEOREM MeterExecutions == Spec => ExecutionSpec
<1>1. Init => ExecutionInit BY DEF Init
<1>2. [Next]_vars => [ExecutionNext]_executionVars
  <2> SUFFICES ASSUME [Next]_vars PROVE [ExecutionNext]_executionVars OBVIOUS
  <2> USE DEF ExecutionNext
  <2>1. CASE UNCHANGED vars BY <2>1 DEF vars
  <2>2. CASE Expire \/ Heartbeat \/ RetryCommand BY <2>2 DEF Expire, Heartbeat, RetryCommand
  <2>3. ASSUME NEW e \in Executions, Start(e) PROVE ExecutionNext BY <2>3 DEF Start
  <2>4. ASSUME NEW e \in Executions, Complete(e) PROVE ExecutionNext
    BY <2>4 DEF Complete, Verdict
  <2>5. ASSUME NEW e \in Executions, NEW retry \in BOOLEAN, Fail(e, retry) PROVE ExecutionNext
    BY <2>5 DEF Fail
  <2>6. ASSUME NEW e \in Executions,
               \/ CallTool(e) \/ Commit(e) \/ Drop(e)
               \/ (\E c \in NextCharge : Reserve(e, c))
               \/ \E m \in 0 .. MaxUsage : CallModel(e, m)
        PROVE  UNCHANGED executionVars
    BY <2>6 DEF CallTool, Commit, Drop, Reserve, CallModel
  <2> QED BY <2>1, <2>2, <2>3, <2>4, <2>5, <2>6 DEF Next
<1> QED BY <1>1, <1>2, PTL DEF Spec, ExecutionSpec

=============================================================================
