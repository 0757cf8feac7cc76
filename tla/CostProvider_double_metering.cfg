\* One handler, no fault, a provision that times out.
SPECIFICATION Spec
CONSTANTS
  Ids = {i1}
  Targets = {t1}
  SourceIds = {s1, s2, s3}
  ModelIds = {m1}
  None = None
  Workers = {w1}
  CostSpecs = {"noRates"}
  MaxAttempts = 1
  MaxRequests = 3
  MaxCrashes = 0
  KokuFaults = FALSE
  StoreFaults = FALSE
  NatsFaults = FALSE
  TimeoutOn = TRUE
INVARIANTS NoDoubleMetering
CHECK_DEADLOCK FALSE
