\* One handler against the reconciler, no fault.
SPECIFICATION Spec
CONSTANTS
  Ids = {i1}
  Targets = {t1}
  SourceIds = {s1, s2, s3}
  ModelIds = {m1}
  None = None
  Workers = {w1}
  CostSpecs = {"noRates"}
  MaxAttempts = 1
  MaxRequests = 3
  MaxCrashes = 0
  KokuFaults = FALSE
  StoreFaults = FALSE
  NatsFaults = FALSE
  TimeoutOn = FALSE
PROPERTIES NoResurrection
CHECK_DEADLOCK FALSE
