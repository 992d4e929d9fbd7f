CONSTANTS
  no = no
  yes = yes
  Values = {no, yes}
  Flag <- MCFlag
  Items <- MCItems
  Workflows <- MCWorkflows
  Edits <- MCEdits
  LiveCosts = {0, 1}
  MaxCost = 1
  MaxSelected = 2
SPECIFICATION Spec
CHECK_DEADLOCK FALSE
INVARIANTS
  SoundReplay
  CompleteReplay
  PassedAsCompared
