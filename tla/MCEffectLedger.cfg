CONSTANTS
  Executions = {e1, e2, e3}
  Requests = {r1, r2}
  Results = {a1, a2}
  None = None
  Postures = {"local", "external"}
SPECIFICATION Spec
INVARIANTS TypeOK LocalCalledOnce OneRequestPerOperation AcceptedEffectSettled ReturnedIsCommitted
SYMMETRY Symmetry
CHECK_DEADLOCK FALSE
