\* One handler against the reconciler; nothing fails and the timeout is off.
SPECIFICATION FairSpec
CONSTANTS
  Ids = {i1, i2}
  Targets = {t1}
  SourceIds = {s1, s2, s3}
  ModelIds = {m1, m2}
  None = None
  Workers = {w1}
  CostSpecs = {"noRates", "rates"}
  MaxAttempts = 1
  MaxRequests = 4
  MaxCrashes = 0
  KokuFaults = FALSE
  StoreFaults = FALSE
  NatsFaults = FALSE
  TimeoutOn = FALSE
INVARIANTS DeletedIsReleased NoDoubleMetering GaugeNeverOvercounts
PROPERTIES MeteredIsNoticed
CHECK_DEADLOCK FALSE
