CONSTANTS
  MaxEvents = 2
  Limit = 2
  BatchFloor = 1
  BatchFactor = 2
  BatchCap = 3
  MaxReconnects = 1
SPECIFICATION Spec
INVARIANTS EndIsStreamed
CHECK_DEADLOCK FALSE
