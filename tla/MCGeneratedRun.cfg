CONSTANTS
  Catalog <- MCCatalog
  Limits <- MCLimits
  DecimalOf <- MCDecimalOf
  Double <- MCDouble
  MaxTime = 6
  RegionGrant = {"read", "pay"}
  InputSchema = "s"
  OutputSchemas <- MCOutputs
  Policy <- MCPolicy
  Driver = driver
  Peers = {peer}
  Fragments <- MCFragments
  MaxAttempts = 2
  FaultBound = 1
  Null = Null
SPECIFICATION Spec
INVARIANTS TypeOK AdmittedAsSpecified PlanRoundTrips ChildrenAsApproved ReleasedWithAccepted SucceededVerified
PROPERTIES GeneratedRunEnds
CHECK_DEADLOCK FALSE
