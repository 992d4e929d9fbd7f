CONSTANTS
  no = no
  yes = yes
  Null = Null
  Values = {no, yes}
  Flag <- MCFlag
  Items <- MCItems
  Runs = {1}
  Scenarios <- SharedRun
  Catalog <- MCCatalog
  Coordinators = {c1}
  Clients = {k1}
  Limit = 2
  StartBound = 1
  FaultBound = 0
SPECIFICATION Spec
PROPERTIES RunEnds
CHECK_DEADLOCK FALSE
