CONSTANTS
  no = no
  yes = yes
  Values = {no, yes}
  Flag <- MCFlag
  Items <- MCItems
  Workflows <- AfterOnly
  Edits <- Unedited
  LiveCosts = {0, 1}
  MaxCost = 1
  MaxSelected = 2
SPECIFICATION Spec
CHECK_DEADLOCK FALSE
INVARIANT RecordedRunReplays
