CONSTANTS
  Executions = {e1, e2, e3}
  None = None
  Postures = {"local", "external"}
  Budget = 3
  Estimates = {2}
  MaxUsage = 3
  MaxCharges = 2
SPECIFICATION Spec
INVARIANTS TypeOK LocalSpendWithinBudget LocalUsageComplete
SYMMETRY Symmetry
CHECK_DEADLOCK FALSE
