\* Two handlers against the reconciler; Koku fails, SQL and the process do not.
SPECIFICATION Spec
CONSTANTS
  Ids = {i1, i2}
  Targets = {t1, t2}
  SourceIds = {s1, s2}
  ModelIds = {m1}
  None = None
  Workers = {w1, w2}
  CostSpecs = {"rates"}
  MaxAttempts = 1
  MaxRequests = 3
  MaxCrashes = 0
  KokuFaults = TRUE
  StoreFaults = FALSE
  NatsFaults = FALSE
  TimeoutOn = TRUE
SYMMETRY Symmetry
INVARIANTS OneInstancePerTarget KokuProvenance CopiesConsistent ReadyOnlyWithClusterData ReadyEventBacked NoStrandedReservation
PROPERTIES RowsPersist
CHECK_DEADLOCK FALSE
