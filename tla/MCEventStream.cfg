CONSTANTS
  MaxEvents = 4
  Limit = 2
  BatchFloor = 1
  BatchFactor = 2
  BatchCap = 3
  MaxReconnects = 1
SPECIFICATION Spec
INVARIANTS TypeOK DeliveredOnce OrderedNothingSkipped
PROPERTIES EventDelivered StreamEnds
CHECK_DEADLOCK FALSE
