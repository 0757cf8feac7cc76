\* One handler against the reconciler; Koku, SQL and, once, the process fail.
SPECIFICATION Spec
CONSTANTS
  Ids = {i1, i2}
  Targets = {t1, t2}
  SourceIds = {s1, s2}
  ModelIds = {m1}
  None = None
  Workers = {w1}
  CostSpecs = {"rates", "badCurrency"}
  MaxAttempts = 2
  MaxRequests = 3
  MaxCrashes = 1
  KokuFaults = TRUE
  StoreFaults = TRUE
  NatsFaults = TRUE
  TimeoutOn = FALSE
SYMMETRY Symmetry
INVARIANTS TypeOK OneInstancePerTarget KokuProvenance CopiesConsistent ReadyEventBacked
CHECK_DEADLOCK FALSE
