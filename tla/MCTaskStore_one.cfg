CONSTANTS
  Tasks = {t1}
  CommandIds = {c1, c2, c3}
  Outputs = {o1, o2}
  NoOutput = NoOutput
  MaxAttempts = 2
  AttemptBound = 3
SPECIFICATION Spec
INVARIANTS TypeOK LeaseExclusive AcceptedEvidence
PROPERTIES AcceptedBoundaryFinal CommandAppliedOnce CheckpointByLeaseHolder
SYMMETRY Symmetry
CHECK_DEADLOCK FALSE
