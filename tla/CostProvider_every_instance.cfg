\* Fair scheduling, no fault, a request with a bad currency.
SPECIFICATION FairSpec
CONSTANTS
  Ids = {i1}
  Targets = {t1}
  SourceIds = {s1, s2, s3}
  ModelIds = {m1}
  None = None
  Workers = {w1}
  CostSpecs = {"badCurrency"}
  MaxAttempts = 1
  MaxRequests = 1
  MaxCrashes = 0
  KokuFaults = FALSE
  StoreFaults = FALSE
  NatsFaults = FALSE
  TimeoutOn = TRUE
PROPERTIES EveryInstanceResolves
CHECK_DEADLOCK FALSE
