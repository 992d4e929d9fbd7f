CONSTANTS
  no = no
  yes = yes
  Null = Null
  Values = {no, yes}
  Flag <- MCFlag
  Items <- MCItems
  Runs = {1, 2}
  Scenarios <- MCScenarios
  Catalog <- MCCatalog
  Coordinators = {c1}
  Clients = {k1}
  Limit = 2
  StartBound = 2
  FaultBound = 1
SPECIFICATION Spec
INVARIANTS OneTaskPerOccurrence ReleasedAsDenoted SucceededAsDenoted
PROPERTIES RunEnds
CHECK_DEADLOCK FALSE
