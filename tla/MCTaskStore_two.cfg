CONSTANTS
  Tasks = {t1, t2}
  CommandIds = {c1, c2, c3}
  Outputs = {o1, o2}
  NoOutput = NoOutput
  MaxAttempts = 2
  AttemptBound = 2
SPECIFICATION Spec
INVARIANTS CancelledRunIsQuiet
PROPERTIES TerminalRunIsFinal StoreRefinesLogicalTask
SYMMETRY Symmetry
CHECK_DEADLOCK FALSE
