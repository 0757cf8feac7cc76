\* Fair scheduling; Koku fails, the process crashes once, SQL does not fail.
SPECIFICATION FairSpec
CONSTANTS
  Ids = {i1}
  Targets = {t1}
  SourceIds = {s1}
  ModelIds = {m1}
  None = None
  Workers = {w1, w2}
  CostSpecs = {"noRates"}
  MaxAttempts = 1
  MaxRequests = 3
  MaxCrashes = 1
  KokuFaults = TRUE
  StoreFaults = FALSE
  NatsFaults = FALSE
  TimeoutOn = TRUE
PROPERTIES ProvisioningResolves ImplementsRegistry
CHECK_DEADLOCK FALSE
