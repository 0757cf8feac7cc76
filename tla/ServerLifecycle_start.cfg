\* Koku's status endpoint answers or refuses well before the prober gives up.
SPECIFICATION FairSpec
CONSTANTS
  OpenLatencies = {0, 3, 10}
  ReadyTimeout = 5
  ClientTimeout = 1
  KokuLatencies = {0, 1, 3}
  ShutdownTimeout = 15
  DrainTimeout = 5
  InitialBackoff = 1
  MaxBackoff = 3
  MaxOutages = 3
INVARIANTS TypeOK RegisteredOnceAnswering ExitsInTime
PROPERTIES Exits StartsUp
CHECK_DEADLOCK FALSE
