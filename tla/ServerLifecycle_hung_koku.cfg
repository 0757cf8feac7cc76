\* Koku accepts connections and never answers: the checker gives up after 5 s.
SPECIFICATION FairSpec
CONSTANTS
  OpenLatencies = {0}
  ReadyTimeout = 5
  ClientTimeout = 1
  KokuLatencies = {5}
  ShutdownTimeout = 15
  DrainTimeout = 5
  InitialBackoff = 1
  MaxBackoff = 3
  MaxOutages = 3
PROPERTIES StartsUp
CHECK_DEADLOCK FALSE
