---------------------------- MODULE MCBudgetMeter ----------------------------
(* Instances of BudgetMeter for TLC. *)
EXTENDS BudgetMeter, TLC

\* Executions are interchangeable in BudgetMeter.
Symmetry == Permutations(Executions)

=============================================================================
