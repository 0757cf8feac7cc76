\* One reader and two writers on a table with history; SQL fails, Koku is slow.
SPECIFICATION Spec
CONSTANTS
  i1 = i1
  t1 = t1
  t2 = t2
  Ids <- MCIds
  Targets = {t1, t2}
  SourceIds = {}
  ModelIds = {}
  None = None
  Workers = {w1, w2}
  Readers = {r1}
  PageSize = 1
  Focus = {i1}
  Stamps <- MCStamps
  Inherited <- MCInherited
  Now = 1
  MaxClock = 4
  StoreFaults = TRUE
  SlowKoku = TRUE
SYMMETRY Symmetry
VIEW MCView
INVARIANTS KnownIdsResolve AnswerIsAboutAsked AnswersAreReadable WalkComplete TokensLeadSomewhere TypeOK
