CONSTANTS
  Tasks = {t1}
  CommandIds = {a, b, c}
  Outputs = {yes, no}
  Answers = {yes, no}
  NoOutput = NoOutput
  MaxAttempts = 2
  AttemptBound = 8
  Workers = {w1, w2}
  Deliveries = {d1, d2}
  FaultBound = 3
SPECIFICATION HarnessSpec
INVARIANTS HarnessTypeOK AcceptedWasAnswered LocalAskedOnce
PROPERTIES TaskSettles
CHECK_DEADLOCK FALSE
