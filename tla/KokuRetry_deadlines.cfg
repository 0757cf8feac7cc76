\* The client's own constants; the reconciler's 30 s per row, a request that is
\* cancelled early, and a context that outlasts the call.
SPECIFICATION Spec
CONSTANTS
  MaxRetries = 3
  InitialBackoff = 1
  AttemptTimeout = 30
  Deadlines = {3, 30, 1000}
  Durations = {0, 1, 2, 9, 30}
INVARIANTS TypeOK EndsByDeadline EndsInTime
PROPERTIES ImplementsKokuCall
