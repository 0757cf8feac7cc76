--------------------------- MODULE CostProviderProofs ---------------------------
(****************************************************************************)
(* Proofs about CostProvider, for every set of ids, clusters, UUIDs and     *)
(* workers, every bound and every choice of faults.                         *)
(*                                                                          *)
(* All the invariants are proved together: Inv is inductive, and the two    *)
(* lemmas DbStep and KokuStep say once for all conjuncts what a step can do *)
(* to the table and to Koku.                                                *)
(****************************************************************************)
EXTENDS CostProvider, TLAPS

Inv == /\ TypeOK
       /\ OneInstancePerTarget
       /\ KokuProvenance
       /\ CopiesConsistent
       /\ ReadyOnlyWithClusterData
       /\ ReadyEventBacked

------------------------------------------------------------------------------
(* The operations of the table *)

\* Create and Save keep a table well-typed and leave every other row alone.
LEMMA WithTable ==
  ASSUME NEW d, IsTable(d), NEW i \in Ids, NEW r \in CostInstance
  PROVE  /\ IsTable(With(d, i, r))
         /\ DOMAIN With(d, i, r) = DOMAIN d \cup {i}
         /\ With(d, i, r)[i] = r
         /\ \A j \in DOMAIN d : j # i => With(d, i, r)[j] = d[j]
  BY DEF IsTable, With

\* Dropping a row leaves the others as they were.
LEMMA WithoutTable ==
  ASSUME NEW d, IsTable(d), NEW i
  PROVE  /\ IsTable(Without(d, i))
         /\ DOMAIN Without(d, i) = DOMAIN d \ {i}
         /\ \A j \in DOMAIN d : j # i => Without(d, i)[j] = d[j]
  BY DEF IsTable, Without

\* UpdateStatus keeps the rows there are, and of each all but the status.
LEMMA UpdateStatusTable ==
  ASSUME NEW d, IsTable(d), NEW i, NEW s \in Status
  PROVE  /\ IsTable(UpdateStatus(d, i, s))
         /\ DOMAIN UpdateStatus(d, i, s) = DOMAIN d
         /\ \A j \in DOMAIN d :
              /\ UpdateStatus(d, i, s)[j].target = d[j].target
              /\ UpdateStatus(d, i, s)[j].source = d[j].source
              /\ UpdateStatus(d, i, s)[j].model = d[j].model
              /\ UpdateStatus(d, i, s)[j].status = IF j = i THEN s ELSE d[j].status
<1>1. \A j \in DOMAIN d : /\ d[j] \in CostInstance
                          /\ [d[j] EXCEPT !.status = s] \in CostInstance
  BY DEF IsTable, CostInstance
<1>2. DOMAIN UpdateStatus(d, i, s) = DOMAIN d
  BY DEF UpdateStatus
<1>3. IsTable(UpdateStatus(d, i, s))
  BY <1>1 DEF IsTable, UpdateStatus
<1> QED  BY <1>1, <1>2, <1>3 DEF UpdateStatus, CostInstance

\* ListByStatus returns copies of rows of the table.
LEMMA ListTable ==
  ASSUME NEW d, IsTable(d), NEW s
  PROVE  /\ IsTable(ListByStatus(d, s))
         /\ DOMAIN ListByStatus(d, s) \subseteq DOMAIN d
         /\ \A i \in DOMAIN ListByStatus(d, s) : ListByStatus(d, s)[i] = d[i]
  BY DEF IsTable, ListByStatus

------------------------------------------------------------------------------
(* What one step can do *)

\* The instance a create builds is well-typed and names no Koku object.
LEMMA NewInstanceType ==
  ASSUME TypeOK, NEW t \in Targets
  PROVE  /\ NewInstance(t) \in CostInstance
         /\ NewInstance(t).target = t
         /\ NewInstance(t).source = None
         /\ NewInstance(t).model = None
         /\ NewInstance(t).status = "PROVISIONING"
  BY DEF TypeOK, RestTypeOK, NewInstance, CostInstance, Status

\* What a busy worker holds is well-typed.
LEMMA BusyType ==
  ASSUME TypeOK, NEW w \in Workers, req[w].pc # "idle"
  PROVE  /\ req[w] \in BusyRequest
         /\ req[w].id \in Ids
         /\ req[w].row \in CostInstance
         /\ req[w].row.target \in Targets
  BY DEF TypeOK, WorkerTypeOK, IdleRequest, BusyRequest, CostInstance

\* A step changes the table in one of four ways, and in no other: it reserves
\* a vacant target, a create overwrites the row it holds or takes over, or a
\* status other than PROVISIONING is written.
Reserved == \E i \in Ids, t \in Targets :
               /\ Vacant(db, i, t)
               /\ db' = With(db, i, NewInstance(t))
Saved == \E w \in Workers :
            /\ req[w].pc \in {"reset", "save"}
            /\ db' = With(db, req[w].id, req[w].row)
Marked == \E i \in Ids, s \in Status \ {"PROVISIONING"} :
             /\ db' = UpdateStatus(db, i, s)
             /\ s = "READY" => verdict = "READY" /\ i = cur

\* Every step leaves the table alone or changes it in one of these ways (store.go
\* is reached from handler.go:125-210 and 315, reconciler.go:96 and 117).
LEMMA DbStep ==
  ASSUME TypeOK, [Next]_vars
  PROVE  db' = db \/ Reserved \/ Saved \/ Marked
<1>1. ASSUME NEW w \in Workers, NEW i \in Ids, NEW t \in Targets, NEW s \in CostSpecs,
             Reserve(w, i, t, s)
      PROVE  db' = db \/ Reserved
  BY <1>1 DEF Reserve, Create, Reserved
<1>2. ASSUME NEW w \in Workers, Reset(w) \/ SaveInstance(w)
      PROVE  db' = db \/ Saved
  BY <1>2 DEF Reset, SaveInstance, At, TryStore, Save, Saved
<1>3. ASSUME NEW w \in Workers, MarkFailed(w) \/ MarkDeleted(w)
      PROVE  db' = db \/ Marked
  <2>1. req[w].id \in Ids
    BY <1>3, BusyType DEF MarkFailed, MarkDeleted, At
  <2> QED  BY <1>3, <2>1 DEF MarkFailed, MarkDeleted, TryStore, Marked, Status
<1>4. ASSUME Mark
      PROVE  db' = db \/ Marked
  <2>1. cur \in Ids /\ verdict \in {"READY", "ERROR"}
    BY <1>4 DEF Mark, TypeOK, ReconcilerTypeOK, IsTable
  <2> QED  BY <1>4, <2>1 DEF Mark, Marked, Status
<1>5. CASE \/ UNCHANGED vars
           \/ \E w \in Workers :
                \/ Lookup(w) \/ CreateSource(w) \/ CreateCostModel(w)
                \/ AnnounceProvisioning(w) \/ DropCostModel(w) \/ PauseSource(w)
                \/ AnnounceDeleted(w) \/ \E i \in Ids : StartDelete(w, i)
           \/ ListProvisioning \/ SourceStats \/ AnnounceVerdict
           \/ \E i \in Ids : SkipUnsourced(i) \/ Examine(i)
           \/ \E s \in SourceIds : KokuIngest(s)
           \/ Tick \/ Crash
  BY <1>5 DEF vars, Lookup, CreateSource, CreateCostModel, AnnounceProvisioning,
     DropCostModel, PauseSource, AnnounceDeleted, StartDelete, ListProvisioning,
     SourceStats, AnnounceVerdict, SkipUnsourced, Examine, KokuIngest, Tick, Crash
<1> QED  BY <1>1, <1>2, <1>3, <1>4, <1>5 DEF Next, Accept, Proceed, Reconcile

\* Koku's objects stay, with their clusters and their data; a cost model stays
\* attached to its source.
SourcesKept ==
  \A s \in DOMAIN sources : /\ s \in DOMAIN sources'
                           /\ sources'[s].cluster = sources[s].cluster
DataStays ==
  \A s \in DOMAIN sources : sources[s].data => sources'[s].data
ModelsKept ==
  \A m \in DOMAIN models : m \in DOMAIN models' /\ models'[m].source = models[m].source

KokuKept == SourcesKept /\ DataStays /\ ModelsKept

\* The steps that touch the workers, and those that touch the reconciler.
LEMMA ReqUnchanged ==
  ASSUME [Next]_vars
  PROVE  \/ UNCHANGED req
         \/ \E w \in Workers : Accept(w) \/ Proceed(w)
         \/ Crash
<1>1. Reconcile => UNCHANGED req
  BY DEF Reconcile, ListProvisioning, SourceStats, Mark, AnnounceVerdict,
     SkipUnsourced, Examine
<1>2. \A s \in SourceIds : KokuIngest(s) => UNCHANGED req
  BY DEF KokuIngest
<1> QED  BY <1>1, <1>2 DEF Next, vars, Tick

\* A step outside the reconciler and other than a crash leaves its variables alone.
LEMMA ReconUnchanged ==
  ASSUME [Next]_vars
  PROVE  UNCHANGED recon \/ Reconcile \/ Crash
<1>1. \A w \in Workers : Proceed(w) => UNCHANGED recon
  BY DEF recon, Proceed, Lookup, Reset, CreateSource, MarkFailed, CreateCostModel,
     SaveInstance, AnnounceProvisioning, DropCostModel, PauseSource, MarkDeleted,
     AnnounceDeleted
<1>2. \A w \in Workers : Accept(w) => UNCHANGED recon
  BY DEF recon, Accept, Reserve, StartDelete
<1>3. \A s \in SourceIds : KokuIngest(s) => UNCHANGED recon
  BY DEF recon, KokuIngest
<1> QED  BY <1>1, <1>2, <1>3 DEF Next, vars, recon, Tick

\* The steps that touch Koku.
LEMMA KokuUnchanged ==
  ASSUME [Next]_vars
  PROVE  \/ UNCHANGED koku
         \/ \E w \in Workers : \/ CreateSource(w) \/ CreateCostModel(w)
                              \/ DropCostModel(w) \/ PauseSource(w)
         \/ \E s \in SourceIds : KokuIngest(s)
  BY DEF Next, vars, koku, Proceed, Lookup, Reset, MarkFailed, SaveInstance,
     AnnounceProvisioning, MarkDeleted, AnnounceDeleted, Accept, Reserve,
     StartDelete, Reconcile, ListProvisioning, SourceStats, Mark, AnnounceVerdict,
     SkipUnsourced, Examine, Tick, Crash

\* No step takes anything from Koku: objects are created, paused and filled.
LEMMA KokuStep ==
  ASSUME TypeOK, [Next]_vars
  PROVE  KokuKept
<1> USE DEF TypeOK, KokuTypeOK
<1>1. ASSUME NEW w \in Workers, CreateSource(w)
      PROVE  KokuKept
  BY <1>1 DEF CreateSource, Created, WithSources, KokuKept, SourcesKept, DataStays, ModelsKept
<1>2. ASSUME NEW w \in Workers, CreateCostModel(w)
      PROVE  KokuKept
  BY <1>2 DEF CreateCostModel, Created, WithModels, KokuKept, SourcesKept, DataStays, ModelsKept
<1>3. ASSUME NEW w \in Workers, DropCostModel(w)
      PROVE  KokuKept
  <2> DEFINE m == req[w].row.model
  <2>1. sources' = sources /\ (models' = models \/ models' = [models EXCEPT ![m].live = FALSE])
    BY <1>3 DEF DropCostModel, Dropped
  <2> HIDE DEF m
  <2>2. \A n \in DOMAIN models : models[n] \in Model
    OBVIOUS
  <2> QED  BY <2>1, <2>2 DEF KokuKept, SourcesKept, DataStays, ModelsKept, Model
<1>4. ASSUME NEW w \in Workers, PauseSource(w)
      PROVE  KokuKept
  <2> DEFINE s == req[w].row.source
  <2>1. models' = models /\ (sources' = sources \/ sources' = [sources EXCEPT ![s].paused = TRUE])
    BY <1>4 DEF PauseSource, Paused
  <2> HIDE DEF s
  <2>2. \A u \in DOMAIN sources : sources[u] \in Source
    OBVIOUS
  <2> QED  BY <2>1, <2>2 DEF KokuKept, SourcesKept, DataStays, ModelsKept, Source
<1>5. ASSUME NEW s \in SourceIds, KokuIngest(s)
      PROVE  KokuKept
  BY <1>5 DEF KokuIngest, KokuKept, SourcesKept, DataStays, ModelsKept, Source
<1>6. CASE UNCHANGED koku
  BY <1>6 DEF koku, KokuKept, SourcesKept, DataStays, ModelsKept
<1> QED  BY <1>1, <1>2, <1>3, <1>4, <1>5, <1>6, KokuUnchanged

------------------------------------------------------------------------------
(* Type correctness *)

\* Empty tables and idle goroutines are well-typed.
LEMMA TypeInit == Init => TypeOK
<1> SUFFICES ASSUME Init PROVE TypeOK
  OBVIOUS
<1>1. IsTable(NoRows) /\ DOMAIN NoRows = {}
  BY DEF IsTable, NoRows
<1>2. KokuTypeOK
  BY <1>1 DEF Init, KokuTypeOK, NoRows
<1>3. WorkerTypeOK
  BY DEF Init, WorkerTypeOK, IdleRequest, CreatePcs
<1> QED  BY <1>1, <1>2, <1>3 DEF Init, TypeOK, ReconcilerTypeOK, RestTypeOK

\* The table: by the four ways a step may change it.
LEMMA TableTypeStep ==
  ASSUME TypeOK, [Next]_vars
  PROVE  IsTable(db)'
<1> USE DEF TypeOK
<1>1. CASE db' = db
  BY <1>1
<1>2. CASE Reserved
  <2>1. PICK i \in Ids, t \in Targets : db' = With(db, i, NewInstance(t))
    BY <1>2 DEF Reserved
  <2> QED  BY <2>1, NewInstanceType, WithTable
<1>3. CASE Saved
  <2>1. PICK w \in Workers : /\ req[w].pc \in {"reset", "save"}
                            /\ db' = With(db, req[w].id, req[w].row)
    BY <1>3 DEF Saved
  <2>2. req[w].id \in Ids /\ req[w].row \in CostInstance
    BY <2>1, BusyType
  <2> QED  BY <2>1, <2>2, WithTable
<1>4. CASE Marked
  BY <1>4, UpdateStatusTable DEF Marked
<1> QED  BY <1>1, <1>2, <1>3, <1>4, DbStep

\* Koku's objects: the two calls that create some, the two that change one, and
\* the ingestion of data.
LEMMA KokuTypeStep ==
  ASSUME TypeOK, CopiesConsistent, [Next]_vars
  PROVE  KokuTypeOK'
<1> USE DEF TypeOK, KokuTypeOK
<1>1. ASSUME NEW w \in Workers, CreateSource(w)
      PROVE  KokuTypeOK'
  <2>1. req[w].row.target \in Targets
    BY <1>1, BusyType DEF CreateSource, At
  <2>2. NewSource(req[w].row.target) \in Source
    BY <2>1 DEF NewSource, Source
  <2> QED  BY <1>1, <2>2 DEF CreateSource, Created, WithSources
<1>2. ASSUME NEW w \in Workers, CreateCostModel(w)
      PROVE  KokuTypeOK'
  <2>1. req[w].row.source \in SourceIds
    <3>1. req[w].pc = "createModel"
      BY <1>2 DEF CreateCostModel, At
    <3>2. WorkerConsistent(w)
      BY <3>1 DEF CopiesConsistent, InFlight, At
    <3> QED  BY <3>1, <3>2 DEF WorkerConsistent, CreatePcs, Provenance
  <2>2. NewModel(req[w].row.source) \in Model
    BY <2>1 DEF NewModel, Model
  <2> QED  BY <1>2, <2>2 DEF CreateCostModel, Created, WithModels
<1>3. ASSUME NEW w \in Workers, DropCostModel(w)
      PROVE  KokuTypeOK'
  <2> DEFINE m == req[w].row.model
  <2>1. sources' = sources /\ (models' = models \/ models' = [models EXCEPT ![m].live = FALSE])
    BY <1>3 DEF DropCostModel, Dropped
  <2> HIDE DEF m
  <2> QED  BY <2>1 DEF Model
<1>4. ASSUME NEW w \in Workers, PauseSource(w)
      PROVE  KokuTypeOK'
  <2> DEFINE s == req[w].row.source
  <2>1. models' = models /\ (sources' = sources \/ sources' = [sources EXCEPT ![s].paused = TRUE])
    BY <1>4 DEF PauseSource, Paused
  <2> HIDE DEF s
  <2> QED  BY <2>1 DEF Source
<1>5. ASSUME NEW s \in SourceIds, KokuIngest(s)
      PROVE  KokuTypeOK'
  BY <1>5 DEF KokuIngest, Source
<1>6. CASE UNCHANGED koku
  BY <1>6 DEF koku
<1> QED  BY <1>1, <1>2, <1>3, <1>4, <1>5, <1>6, KokuUnchanged

\* A step of w that leaves it idle, or busy with a well-typed request.
LEMMA WorkerTypeUpdate ==
  ASSUME WorkerTypeOK, NEW w \in Workers, NEW h,
         \/ h = IdleRequest
         \/ h \in BusyRequest /\ (h.pc \in CreatePcs => h.spec \in CostSpecs),
         req' = [req EXCEPT ![w] = h]
  PROVE  WorkerTypeOK'
<1>1. req' \in [Workers -> {IdleRequest} \cup BusyRequest]
  BY DEF WorkerTypeOK
<1>2. ASSUME NEW v \in Workers, req'[v].pc \in CreatePcs
      PROVE  req'[v].spec \in CostSpecs
  <2>1. CASE v = w
    BY <1>2, <2>1 DEF WorkerTypeOK, IdleRequest, CreatePcs
  <2>2. CASE v # w
    BY <1>2, <2>2 DEF WorkerTypeOK
  <2> QED  BY <2>1, <2>2
<1> QED  BY <1>1, <1>2 DEF WorkerTypeOK

\* Every step of a handler leaves it idle or with a well-typed request.
LEMMA WorkerTypeStep ==
  ASSUME TypeOK, [Next]_vars
  PROVE  WorkerTypeOK'
<1>1. ASSUME NEW w \in Workers, NEW i \in Ids, NEW t \in Targets, NEW s \in CostSpecs,
             Reserve(w, i, t, s)
      PROVE  WorkerTypeOK'
  <2> DEFINE h(pc) == [pc |-> pc, id |-> i, spec |-> s, row |-> NewInstance(t)]
  <2>1. h("createSource") \in BusyRequest /\ h("lookup") \in BusyRequest
    BY NewInstanceType DEF BusyRequest, CreatePcs
  <2>2. \/ req' = [req EXCEPT ![w] = h("createSource")]
        \/ req' = [req EXCEPT ![w] = h("lookup")]
    BY <1>1 DEF Reserve, Become
  <2> QED  BY <2>1, <2>2, WorkerTypeUpdate DEF TypeOK
<1>2. ASSUME NEW w \in Workers, NEW i \in Ids, StartDelete(w, i)
      PROVE  WorkerTypeOK'
  <2> DEFINE h == [pc |-> "dropModel", id |-> i, spec |-> None, row |-> db[i]]
  <2>1. h \in BusyRequest /\ h.pc \notin CreatePcs
    BY <1>2 DEF StartDelete, TypeOK, IsTable, BusyRequest, CreatePcs, DeletePcs
  <2> QED  BY <1>2, <2>1, WorkerTypeUpdate DEF StartDelete, Become, TypeOK
<1>3. ASSUME NEW w \in Workers, Proceed(w)
      PROVE  WorkerTypeOK'
  <2>1. req[w] \in BusyRequest /\ req[w].row \in CostInstance
    <3>1. req[w].pc # "idle"
      BY <1>3 DEF Proceed, At, Lookup, Reset, CreateSource, MarkFailed, CreateCostModel,
         SaveInstance, AnnounceProvisioning, DropCostModel, PauseSource, MarkDeleted,
         AnnounceDeleted
    <3> QED  BY <3>1, BusyType
  <2>2. req[w].pc \in CreatePcs => req[w].spec \in CostSpecs
    BY DEF TypeOK, WorkerTypeOK
  <2> DEFINE Good(h) == \/ h = IdleRequest
                        \/ h \in BusyRequest /\ (h.pc \in CreatePcs => h.spec \in CostSpecs)
  <2>3. ASSUME NEW pc \in CreatePcs \cup DeletePcs,
               pc \in CreatePcs => req[w].pc \in CreatePcs
        PROVE  Good([req[w] EXCEPT !.pc = pc])
    BY <2>1, <2>2, <2>3 DEF BusyRequest
  <2>4. Good(IdleRequest)
    OBVIOUS
  <2>5. ASSUME NEW i \in Ids, Lookup(w)
        PROVE  Good([req[w] EXCEPT !.pc = "reset", !.id = i])
    BY <2>1, <2>2, <2>5 DEF Lookup, At, BusyRequest, CreatePcs
  <2>6. ASSUME NEW s \in SourceIds, CreateSource(w), AfterSource(req[w].spec) # "idle"
        PROVE  Good([req[w] EXCEPT !.pc = AfterSource(req[w].spec),
                                   !.row = [@ EXCEPT !.source = s]])
    <3>1. AfterSource(req[w].spec) \in CreatePcs
      BY <2>6 DEF AfterSource, CreatePcs
    <3>2. [req[w].row EXCEPT !.source = s] \in CostInstance
      BY <2>1 DEF CostInstance
    <3> QED  BY <2>1, <2>2, <2>6, <3>1, <3>2 DEF CreateSource, At, BusyRequest, CreatePcs
  <2>7. ASSUME NEW m \in ModelIds, CreateCostModel(w)
        PROVE  Good([req[w] EXCEPT !.pc = "save", !.row = [@ EXCEPT !.model = m]])
    <3>1. [req[w].row EXCEPT !.model = m] \in CostInstance
      BY <2>1 DEF CostInstance
    <3> QED  BY <2>1, <2>2, <2>7, <3>1 DEF CreateCostModel, At, BusyRequest, CreatePcs
  <2> HIDE DEF Good
  <2> SUFFICES \E h : Good(h) /\ req' = [req EXCEPT ![w] = h]
    BY WorkerTypeUpdate DEF Good, TypeOK
  <2>8. CASE Lookup(w)
    <3>1. \A i : i \in GetByTarget(db, req[w].row.target) => i \in Ids
      BY DEF GetByTarget, IsTable, TypeOK
    <3> QED  BY <2>4, <2>5, <2>8, <3>1 DEF Lookup, Reply, Become
  <2>9. CASE CreateSource(w)
    <3>1. Good([req[w] EXCEPT !.pc = "markFailed"])
      BY <2>3, <2>9 DEF CreateSource, At, CreatePcs
    <3> QED  BY <2>4, <2>6, <2>9, <3>1 DEF CreateSource, Created, Reply, Goto, Become
  <2>10. CASE CreateCostModel(w)
    <3>1. Good([req[w] EXCEPT !.pc = "save"])
      BY <2>3, <2>10 DEF CreateCostModel, At, CreatePcs
    <3> QED  BY <2>7, <2>10, <3>1 DEF CreateCostModel, Created, Goto, Become
  <2>11. CASE Reset(w) \/ SaveInstance(w) \/ DropCostModel(w) \/ PauseSource(w) \/ MarkDeleted(w)
    <3>1. Reset(w) => Good([req[w] EXCEPT !.pc = "createSource"])
      BY <2>3 DEF Reset, At, CreatePcs
    <3>2. SaveInstance(w) => Good([req[w] EXCEPT !.pc = "announce"])
      BY <2>3 DEF SaveInstance, At, CreatePcs
    <3>3. \A pc \in DeletePcs : Good([req[w] EXCEPT !.pc = pc])
      BY <2>3 DEF CreatePcs, DeletePcs
    <3> QED  BY <2>4, <2>11, <3>1, <3>2, <3>3 DEF Reset, SaveInstance, DropCostModel,
             PauseSource, MarkDeleted, DeletePcs, Reply, Goto, Become
  <2>12. CASE MarkFailed(w) \/ AnnounceProvisioning(w) \/ AnnounceDeleted(w)
    BY <2>4, <2>12 DEF MarkFailed, AnnounceProvisioning, AnnounceDeleted, Reply, Become
  <2> QED  BY <1>3, <2>8, <2>9, <2>10, <2>11, <2>12 DEF Proceed
<1>4. CASE UNCHANGED req
  BY <1>4 DEF TypeOK, WorkerTypeOK
<1>5. CASE Crash
  BY <1>5 DEF Crash, WorkerTypeOK, IdleRequest, CreatePcs
<1> QED  BY <1>1, <1>2, <1>3, <1>4, <1>5, ReqUnchanged DEF Accept

\* The reconciler's variables: NextRow and the actions of Reconcile.
LEMMA NextRowType ==
  ASSUME ReconcilerTypeOK, NEW i \in DOMAIN batch, NextRow(i)
  PROVE  ReconcilerTypeOK'
<1>1. IsTable(batch') /\ DOMAIN batch' = DOMAIN batch \ {i}
  BY WithoutTable DEF NextRow, ReconcilerTypeOK
<1> QED  BY <1>1 DEF NextRow, ReconcilerTypeOK

\* The reconciler's actions, and the crash that resets it.
LEMMA ReconcilerTypeStep ==
  ASSUME TypeOK, [Next]_vars
  PROVE  ReconcilerTypeOK'
<1>1. CASE ListProvisioning
  BY <1>1, ListTable DEF ListProvisioning, ReconcilerTypeOK, TypeOK
<1>2. ASSUME NEW i \in Ids, SkipUnsourced(i)
      PROVE  ReconcilerTypeOK'
  BY <1>2, NextRowType DEF SkipUnsourced, TypeOK
<1>3. ASSUME NEW i \in Ids, Examine(i)
      PROVE  ReconcilerTypeOK'
  BY <1>3 DEF Examine, ReconcilerTypeOK, TypeOK
<1>4. CASE SourceStats \/ Mark \/ AnnounceVerdict
  <2>1. cur \in DOMAIN batch
    BY <1>4 DEF SourceStats, Mark, AnnounceVerdict, TypeOK, ReconcilerTypeOK
  <2>2. CASE NextRow(cur)
    BY <2>1, <2>2, NextRowType DEF TypeOK
  <2>3. CASE SourceStats /\ ~NextRow(cur)
    BY <2>3 DEF SourceStats, TypeOK, ReconcilerTypeOK
  <2>4. CASE Mark /\ ~NextRow(cur)
    BY <2>4 DEF Mark, TypeOK, ReconcilerTypeOK
  <2> QED  BY <1>4, <2>2, <2>3, <2>4 DEF AnnounceVerdict
<1>5. CASE UNCHANGED recon
  BY <1>5 DEF recon, TypeOK, ReconcilerTypeOK
<1>6. CASE Crash
  <2>1. IsTable(NoRows) /\ DOMAIN NoRows = {}
    BY DEF IsTable, NoRows
  <2> QED  BY <1>6, <2>1 DEF Crash, ReconcilerTypeOK
<1> QED  BY <1>1, <1>2, <1>3, <1>4, <1>5, <1>6, ReconUnchanged DEF Reconcile

\* The events, the gauge and the counters.
LEMMA RestTypeStep ==
  ASSUME TypeOK, [Next]_vars
  PROVE  RestTypeOK'
<1> USE DEF TypeOK, RestTypeOK
<1>1. ASSUME NEW w \in Workers, AnnounceProvisioning(w) \/ AnnounceDeleted(w)
      PROVE  RestTypeOK'
  BY <1>1 DEF AnnounceProvisioning, AnnounceDeleted, Publish, Status
<1>2. CASE AnnounceVerdict
  BY <1>2 DEF AnnounceVerdict, Publish, Status, ReconcilerTypeOK
<1>3. ASSUME NEW w \in Workers, Accept(w)
      PROVE  RestTypeOK'
  <2>1. served' = served + 1 /\ UNCHANGED <<lastEvent, gauge, horizon, crashes>>
    BY <1>3 DEF Accept, Reserve, StartDelete
  <2> QED  BY <2>1
<1>4. CASE Tick
  BY <1>4 DEF Tick
<1>5. CASE Crash
  BY <1>5 DEF Crash
<1>6. CASE UNCHANGED <<lastEvent, gauge, served, horizon, crashes>>
  BY <1>6
<1>7. ASSUME NEW w \in Workers, Proceed(w), ~AnnounceProvisioning(w), ~AnnounceDeleted(w)
      PROVE  UNCHANGED <<lastEvent, gauge, served, horizon, crashes>>
  BY <1>7 DEF Proceed, Lookup, Reset, CreateSource, MarkFailed, CreateCostModel,
     SaveInstance, DropCostModel, PauseSource, MarkDeleted
<1>8. ASSUME Reconcile, ~AnnounceVerdict
      PROVE  UNCHANGED <<lastEvent, gauge, served, horizon, crashes>>
  BY <1>8 DEF Reconcile, ListProvisioning, SkipUnsourced, Examine, SourceStats, Mark
<1>9. ASSUME NEW s \in SourceIds, KokuIngest(s)
      PROVE  UNCHANGED <<lastEvent, gauge, served, horizon, crashes>>
  BY <1>9 DEF KokuIngest
<1> QED  BY <1>1, <1>2, <1>3, <1>4, <1>5, <1>6, <1>7, <1>8, <1>9 DEF Next, vars

\* TypeOK is inductive by itself: its parts, one lemma each.
LEMMA TypeStep ==
  ASSUME TypeOK, CopiesConsistent, [Next]_vars
  PROVE  TypeOK'
  BY TableTypeStep, KokuTypeStep, WorkerTypeStep, ReconcilerTypeStep, RestTypeStep DEF TypeOK

------------------------------------------------------------------------------
(* Safety of the table *)

\* The same four ways, row by row.  A reservation adds a row without Koku
\* objects for a target that has none.
AllBut(i) == \A j \in DOMAIN db : j # i => db'[j] = db[j]

\* A reservation adds one row, PROVISIONING and without Koku objects.
LEMMA ReservedRow ==
  ASSUME TypeOK, Reserved
  PROVE  \E i \in Ids, t \in Targets :
           /\ Vacant(db, i, t)
           /\ DOMAIN db' = DOMAIN db \cup {i}
           /\ AllBut(i)
           /\ db'[i].target = t
           /\ db'[i].source = None
           /\ db'[i].model = None
           /\ db'[i].status = "PROVISIONING"
<1>1. PICK i \in Ids, t \in Targets : Vacant(db, i, t) /\ db' = With(db, i, NewInstance(t))
  BY DEF Reserved
<1>2. NewInstance(t) \in CostInstance
  BY NewInstanceType
<1> DEFINE r == NewInstance(t)
<1>3. r.target = t /\ r.source = None /\ r.model = None /\ r.status = "PROVISIONING"
  BY NewInstanceType
<1>4. IsTable(db) /\ r \in CostInstance /\ db' = With(db, i, r)
  BY <1>1, <1>2 DEF TypeOK
<1> HIDE DEF r
<1>5. DOMAIN db' = DOMAIN db \cup {i} /\ db'[i] = r /\ \A j \in DOMAIN db : j # i => db'[j] = db[j]
  BY <1>4, WithTable
<1> QED  BY <1>1, <1>3, <1>5 DEF AllBut

\* A Save writes an instance of the row's own cluster, with true UUIDs.
LEMMA SavedRow ==
  ASSUME TypeOK, CopiesConsistent, Saved
  PROVE  \E i \in DOMAIN db :
           /\ DOMAIN db' = DOMAIN db
           /\ AllBut(i)
           /\ Provenance(db'[i])
           /\ db'[i].target = db[i].target
           /\ db'[i].status = "PROVISIONING"
<1>1. PICK w \in Workers : /\ req[w].pc \in {"reset", "save"}
                          /\ db' = With(db, req[w].id, req[w].row)
  BY DEF Saved
<1>2. WorkerConsistent(w)
  BY <1>1 DEF CopiesConsistent, InFlight, At
<1>3. req[w].id \in Ids /\ req[w].row \in CostInstance
  BY <1>1, BusyType
<1>4. req[w].id \in DOMAIN db
  BY <1>1, <1>2 DEF WorkerConsistent
<1> DEFINE i == req[w].id
           r == req[w].row
<1>5. Provenance(r) /\ r.target = db[i].target /\ r.status = "PROVISIONING"
  BY <1>1, <1>2 DEF WorkerConsistent, CreatePcs
<1>6. IsTable(db) /\ i \in Ids /\ i \in DOMAIN db /\ r \in CostInstance /\ db' = With(db, i, r)
  BY <1>1, <1>3, <1>4 DEF TypeOK
<1> HIDE DEF i, r
<1>7. DOMAIN db' = DOMAIN db /\ db'[i] = r /\ \A j \in DOMAIN db : j # i => db'[j] = db[j]
  BY <1>6 DEF With
<1>8. Provenance(db'[i])
  BY <1>5, <1>7
<1> QED  BY <1>5, <1>6, <1>7, <1>8 DEF AllBut

\* A written status changes nothing else.
Relabelled(i, st) ==
  /\ DOMAIN db' = DOMAIN db
  /\ \A j \in DOMAIN db : /\ db'[j].target = db[j].target
                         /\ db'[j].source = db[j].source
                         /\ db'[j].model = db[j].model
                         /\ db'[j].status = IF j = i THEN st ELSE db[j].status

\* A written status leaves every row's cluster and UUIDs alone.
LEMMA MarkedRow ==
  ASSUME TypeOK, Marked
  PROVE  \E i \in Ids, st \in Status \ {"PROVISIONING"} :
           /\ Relabelled(i, st)
           /\ st = "READY" => verdict = "READY" /\ i = cur
<1>1. PICK i \in Ids, st \in Status \ {"PROVISIONING"} :
        /\ db' = UpdateStatus(db, i, st)
        /\ st = "READY" => verdict = "READY" /\ i = cur
  BY DEF Marked
<1>2. IsTable(db)
  BY DEF TypeOK
<1> DEFINE d == UpdateStatus(db, i, st)
<1>3. /\ DOMAIN d = DOMAIN db
      /\ \A j \in DOMAIN db : /\ d[j].target = db[j].target
                             /\ d[j].source = db[j].source
                             /\ d[j].model = db[j].model
                             /\ d[j].status = IF j = i THEN st ELSE db[j].status
  BY <1>2, UpdateStatusTable
<1>4. db' = d
  BY <1>1
<1> HIDE DEF d
<1>5. Relabelled(i, st)
  BY <1>3, <1>4 DEF Relabelled
<1> QED  BY <1>1, <1>5

\* What RowsPersist says of one step.
RowsKept == \A i \in DOMAIN db : i \in DOMAIN db' /\ db'[i].target = db[i].target

\* No way of changing the table removes a row or gives its id to another cluster.
LEMMA RowsStep ==
  ASSUME TypeOK, CopiesConsistent, [Next]_vars
  PROVE  RowsKept
<1>1. CASE db' = db
  BY <1>1 DEF RowsKept
<1>2. CASE Reserved
  BY <1>2, ReservedRow DEF Vacant, AllBut, RowsKept
<1>3. CASE Saved
  BY <1>3, SavedRow DEF AllBut, RowsKept
<1>4. CASE Marked
  BY <1>4, MarkedRow DEF RowsKept, Relabelled
<1> QED  BY <1>1, <1>2, <1>3, <1>4, DbStep

\* The unique index guards the reservation; nothing else changes a cluster.
LEMMA UniqueStep ==
  ASSUME TypeOK, CopiesConsistent, OneInstancePerTarget, [Next]_vars
  PROVE  OneInstancePerTarget'
<1>1. CASE DOMAIN db' = DOMAIN db
  BY <1>1, RowsStep DEF RowsKept, OneInstancePerTarget
<1>2. CASE Reserved
  <2>1. PICK i \in Ids, t \in Targets : /\ Vacant(db, i, t)
                                        /\ DOMAIN db' = DOMAIN db \cup {i}
                                        /\ AllBut(i)
                                        /\ db'[i].target = t
    BY <1>2, ReservedRow
  <2>2. \A j \in DOMAIN db : j # i /\ db'[j] = db[j] /\ db'[j].target # t
    BY <2>1 DEF Vacant, AllBut
  <2> QED  BY <2>1, <2>2 DEF OneInstancePerTarget
<1> QED  BY <1>1, <1>2, DbStep, SavedRow, MarkedRow DEF Relabelled

\* Provenance of a record that the step leaves alone.
ProvenanceNext(r) ==
  /\ r.source # None => /\ r.source \in DOMAIN sources'
                        /\ sources'[r.source].cluster = r.target
  /\ r.model # None => /\ r.model \in DOMAIN models'
                       /\ models'[r.model].source = r.source
                       /\ r.source # None

\* A record with true UUIDs keeps them true, for Koku drops nothing.
LEMMA ProvenanceKept ==
  ASSUME KokuKept
  PROVE  \A r : Provenance(r) => ProvenanceNext(r)
<1> TAKE r
<1> HAVE Provenance(r)
<1>1. r.source # None => /\ r.source \in DOMAIN sources'
                         /\ sources'[r.source].cluster = r.target
  BY DEF KokuKept, SourcesKept, Provenance
<1>2. r.model # None => /\ r.model \in DOMAIN models'
                        /\ models'[r.model].source = r.source
                        /\ r.source # None
  BY DEF KokuKept, ModelsKept, Provenance
<1> QED  BY <1>1, <1>2 DEF ProvenanceNext

\* New rows name nothing, saved rows come from a consistent copy, a status names
\* nothing.
LEMMA ProvenanceStep ==
  ASSUME TypeOK, CopiesConsistent, KokuProvenance, [Next]_vars
  PROVE  KokuProvenance'
<1> SUFFICES ASSUME NEW j \in DOMAIN db' PROVE ProvenanceNext(db'[j])
  BY DEF KokuProvenance, Provenance, ProvenanceNext
<1>1. \A i \in DOMAIN db : ProvenanceNext(db[i])
  BY KokuStep, ProvenanceKept DEF KokuProvenance
<1>2. CASE db' = db
  BY <1>1, <1>2
<1>3. CASE Reserved
  BY <1>1, <1>3, ReservedRow DEF AllBut, ProvenanceNext
<1>4. CASE Saved
  <2>1. PICK i \in DOMAIN db : DOMAIN db' = DOMAIN db /\ AllBut(i) /\ Provenance(db'[i])
    BY <1>4, SavedRow
  <2>2. ProvenanceNext(db'[i])
    BY <2>1, KokuStep, ProvenanceKept
  <2> QED  BY <1>1, <2>1, <2>2 DEF AllBut
<1>5. CASE Marked
  BY <1>1, <1>5, MarkedRow DEF Relabelled, ProvenanceNext
<1> QED  BY <1>2, <1>3, <1>4, <1>5, DbStep

------------------------------------------------------------------------------
(* READY *)

\* Data is not lost.
DataNext(t) == \E s \in DOMAIN sources' : sources'[s].cluster = t /\ sources'[s].data

\* A cluster that has data keeps it.
LEMMA DataKept ==
  ASSUME TypeOK, [Next]_vars
  PROVE  \A t : ClusterHasData(t) => DataNext(t)
<1> TAKE t
<1> HAVE ClusterHasData(t)
<1>1. PICK s \in DOMAIN sources : sources[s].cluster = t /\ sources[s].data
  BY DEF ClusterHasData
<1>2. s \in DOMAIN sources' /\ sources'[s].cluster = t
  BY <1>1, KokuStep DEF KokuKept, SourcesKept
<1>3. sources'[s].data
  BY <1>1, KokuStep DEF KokuKept, DataStays
<1> QED  BY <1>2, <1>3 DEF DataNext

\* READY is written by the reconciler alone, whose verdict CopiesConsistent backs.
LEMMA ReadyStep ==
  ASSUME TypeOK, CopiesConsistent, ReadyOnlyWithClusterData, [Next]_vars
  PROVE  ReadyOnlyWithClusterData'
<1> SUFFICES ASSUME NEW j \in DOMAIN db', db'[j].status = "READY"
             PROVE  DataNext(db'[j].target)
  BY DEF ReadyOnlyWithClusterData, ClusterHasData, DataNext
<1>1. \A i \in DOMAIN db : db[i].status = "READY" => DataNext(db[i].target)
  BY DataKept DEF ReadyOnlyWithClusterData
<1>2. CASE db' = db
  BY <1>1, <1>2
<1>3. CASE Reserved
  BY <1>1, <1>3, ReservedRow DEF AllBut
<1>4. CASE Saved
  BY <1>1, <1>4, SavedRow DEF AllBut
<1>5. CASE Marked
  <2>1. CASE verdict = "READY" /\ j = cur
    <3>1. cur \in DOMAIN batch
      BY <2>1, NoneAssumption DEF TypeOK, ReconcilerTypeOK, Status
    <3>2. ClusterHasData(batch[cur].target) /\ db[cur].target = batch[cur].target
      BY <2>1, <3>1 DEF CopiesConsistent, BatchConsistent
    <3>3. db'[cur].target = db[cur].target
      BY <3>1, RowsStep DEF CopiesConsistent, BatchConsistent, RowsKept
    <3> QED  BY <2>1, <3>2, <3>3, DataKept
  <2>2. CASE ~(verdict = "READY" /\ j = cur)
    <3>1. j \in DOMAIN db /\ db[j].status = "READY" /\ db'[j].target = db[j].target
      BY <1>5, <2>2, MarkedRow DEF Relabelled
    <3> QED  BY <1>1, <3>1
  <2> QED  BY <2>1, <2>2
<1> QED  BY <1>2, <1>3, <1>4, <1>5, DbStep

------------------------------------------------------------------------------
(* The goroutines' copies *)

\* WorkerConsistent of a worker that holds h after the step.
RequestNext(h) ==
  /\ ProvenanceNext(h.row)
  /\ h.pc # "lookup" => h.id \in DOMAIN db' /\ db'[h.id].target = h.row.target
  /\ h.pc \in CreatePcs =>
       /\ h.row.status = "PROVISIONING"
       /\ (h.row.source # None) <=> (h.pc \in {"createModel", "save", "announce"})

\* A worker that does not move is as consistent as it was.
LEMMA RequestKept ==
  ASSUME TypeOK, CopiesConsistent, [Next]_vars,
         NEW w \in Workers, req[w].pc # "idle"
  PROVE  RequestNext(req[w])
<1>1. WorkerConsistent(w)
  BY DEF CopiesConsistent, InFlight, At
<1>2. ProvenanceNext(req[w].row)
  BY <1>1, KokuStep, ProvenanceKept DEF WorkerConsistent
<1>3. req[w].pc # "lookup" => /\ req[w].id \in DOMAIN db'
                              /\ db'[req[w].id].target = req[w].row.target
  BY <1>1, RowsStep DEF WorkerConsistent, RowsKept
<1> QED  BY <1>1, <1>2, <1>3 DEF WorkerConsistent, RequestNext

\* Moving on within a create that keeps its row, or within a delete.
WithSource == {"createModel", "save", "announce"}

\* The new memory of such a worker is consistent.
LEMMA PcStep ==
  ASSUME NEW h \in BusyRequest, RequestNext(h), h.pc # "lookup", NEW pc,
         \/ pc \in DeletePcs
         \/ h.pc \in CreatePcs /\ (h.pc \in WithSource <=> pc \in WithSource)
  PROVE  RequestNext([h EXCEPT !.pc = pc])
<1> DEFINE g == [h EXCEPT !.pc = pc]
<1>1. g.pc = pc /\ g.id = h.id /\ g.row = h.row
  BY DEF BusyRequest
<1>2. \A x \in DeletePcs : x \notin CreatePcs
  BY DEF DeletePcs, CreatePcs
<1> HIDE DEF g
<1>3. RequestNext(g)
  BY <1>1, <1>2 DEF RequestNext, WithSource
<1> QED  BY <1>3 DEF g

\* What a request is turned into by the step that accepts it.
LEMMA AcceptStep ==
  ASSUME TypeOK, CopiesConsistent, KokuProvenance, NEW w \in Workers, Accept(w)
  PROVE  \E h : req' = [req EXCEPT ![w] = h] /\ (h = IdleRequest \/ RequestNext(h))
<1> DEFINE Good(h) == req' = [req EXCEPT ![w] = h] /\ (h = IdleRequest \/ RequestNext(h))
<1>1. ASSUME NEW i \in Ids, NEW t \in Targets, NEW s \in CostSpecs, Reserve(w, i, t, s)
      PROVE  \E h : Good(h)
  <2> DEFINE r == NewInstance(t)
             h(pc) == [pc |-> pc, id |-> i, spec |-> s, row |-> r]
  <2>1. /\ r.target = t /\ r.status = "PROVISIONING"
        /\ r.source = None /\ r.model = None
    BY NewInstanceType
  <2>2. \/ db' = With(db, i, r) /\ req' = [req EXCEPT ![w] = h("createSource")]
        \/ req' = [req EXCEPT ![w] = h("lookup")]
    BY <1>1 DEF Reserve, Create, Become
  <2> HIDE DEF r
  <2>3. ProvenanceNext(r)
    BY <2>1 DEF ProvenanceNext
  <2>4. CASE db' = With(db, i, r) /\ req' = [req EXCEPT ![w] = h("createSource")]
    <3>1. i \in DOMAIN db' /\ db'[i] = r
      BY <2>4 DEF With
    <3>2. RequestNext(h("createSource"))
      BY <2>1, <2>3, <3>1 DEF RequestNext
    <3> QED  BY <2>4, <3>2
  <2>5. CASE req' = [req EXCEPT ![w] = h("lookup")]
    <3>1. RequestNext(h("lookup"))
      BY <2>1, <2>3 DEF RequestNext
    <3> QED  BY <2>5, <3>1
  <2> QED  BY <2>2, <2>4, <2>5
<1>2. ASSUME NEW i \in Ids, StartDelete(w, i)
      PROVE  \E h : Good(h)
  <2> DEFINE h == [pc |-> "dropModel", id |-> i, spec |-> None, row |-> db[i]]
  <2>1. i \in DOMAIN db /\ req' = [req EXCEPT ![w] = h] /\ db' = db
    BY <1>2 DEF StartDelete, Become
  <2>2. ProvenanceNext(db[i])
    BY <2>1, KokuStep, ProvenanceKept DEF KokuProvenance, Next
  <2>3. RequestNext(h)
    BY <2>1, <2>2 DEF RequestNext, CreatePcs
  <2> QED  BY <2>1, <2>3
<1> QED  BY <1>1, <1>2 DEF Accept

\* What a request is turned into by a step that goes on with it.
LEMMA ProceedStep ==
  ASSUME TypeOK, CopiesConsistent, NEW w \in Workers, Proceed(w)
  PROVE  \E h : req' = [req EXCEPT ![w] = h] /\ (h = IdleRequest \/ RequestNext(h))
<1> DEFINE Good(h) == req' = [req EXCEPT ![w] = h] /\ (h = IdleRequest \/ RequestNext(h))
           h == req[w]
<1>1. [Next]_vars
  BY DEF Next
<1>2. h.pc # "idle"
  BY DEF Proceed, Lookup, Reset, CreateSource, MarkFailed, CreateCostModel,
     SaveInstance, AnnounceProvisioning, DropCostModel, PauseSource, MarkDeleted,
     AnnounceDeleted, At
<1>3. h \in BusyRequest /\ RequestNext(h)
  BY <1>1, <1>2, BusyType, RequestKept
<1>4. ASSUME Reply(w)
      PROVE  \E x : Good(x)
  BY <1>4 DEF Reply, Become
<1>5. ASSUME NEW pc, Goto(w, pc), h.pc # "lookup",
             \/ pc \in DeletePcs
             \/ h.pc \in CreatePcs /\ (h.pc \in WithSource <=> pc \in WithSource)
      PROVE  \E x : Good(x)
  <2>1. RequestNext([h EXCEPT !.pc = pc])
    BY <1>3, <1>5, PcStep
  <2> QED  BY <1>5, <2>1 DEF Goto, Become
<1>6. CASE Lookup(w)
  <2>1. ASSUME NEW i \in GetByTarget(db, h.row.target),
               req' = [req EXCEPT ![w] = [h EXCEPT !.pc = "reset", !.id = i]]
        PROVE  \E x : Good(x)
    <3> DEFINE x == [h EXCEPT !.pc = "reset", !.id = i]
    <3>1. i \in DOMAIN db' /\ db'[i].target = h.row.target
      BY <1>1, <2>1, RowsStep DEF RowsKept, GetByTarget
    <3>2. x.pc = "reset" /\ x.id = i /\ x.row = h.row /\ h.pc = "lookup"
      BY <1>3, <1>6 DEF BusyRequest, Lookup, At
    <3> HIDE DEF x
    <3>3. RequestNext(x)
      BY <1>3, <3>1, <3>2 DEF RequestNext, CreatePcs
    <3> QED  BY <2>1, <3>3 DEF x
  <2> QED  BY <1>4, <1>6, <2>1 DEF Lookup, Become
<1>7. CASE Reset(w)
  BY <1>4, <1>5, <1>7 DEF Reset, At, CreatePcs, WithSource
<1>8. CASE CreateSource(w)
  <2>1. ASSUME NEW F, NEW s \in F, NEW pc \in {"createModel", "save"},
               F \subseteq SourceIds \ DOMAIN sources,
               sources' = WithSources(F, h.row.target),
               req' = [req EXCEPT ![w] = [h EXCEPT !.pc = pc, !.row = [@ EXCEPT !.source = s]]]
        PROVE  \E x : Good(x)
    <3> DEFINE x == [h EXCEPT !.pc = pc, !.row = [@ EXCEPT !.source = s]]
    <3>1. h.pc = "createSource"
      BY <1>8 DEF CreateSource, At
    <3>2. h.row \in CostInstance
      BY <1>2, BusyType
    <3>3. /\ x.pc = pc /\ x.id = h.id
          /\ x.row.target = h.row.target /\ x.row.status = h.row.status
          /\ x.row.source = s /\ x.row.model = h.row.model
      BY <1>3, <3>2 DEF BusyRequest, CostInstance
    <3>4. s \in DOMAIN sources' /\ sources'[s].cluster = h.row.target
      BY <2>1 DEF WithSources, NewSource
    <3>5. h.row.model = None /\ s # None
      BY <1>3, <2>1, <3>1, NoneAssumption DEF RequestNext, CreatePcs, ProvenanceNext
    <3> HIDE DEF x
    <3>6. ProvenanceNext(x.row)
      BY <3>3, <3>4, <3>5 DEF ProvenanceNext
    <3>7. RequestNext(x)
      BY <1>3, <2>1, <3>1, <3>3, <3>5, <3>6 DEF RequestNext, CreatePcs
    <3> QED  BY <2>1, <3>7 DEF x
  <2>2. AfterSource(h.spec) \in {"createModel", "save", "idle"}
    BY DEF AfterSource
  <2>3. CASE Reply(w)
    BY <1>4, <2>3
  <2>4. CASE Goto(w, "markFailed")
    BY <1>5, <1>8, <2>4 DEF CreateSource, At, CreatePcs, WithSource
  <2>5. CASE ~Reply(w) /\ ~Goto(w, "markFailed")
    BY <1>8, <2>1, <2>2, <2>5 DEF CreateSource, Created, Become
  <2> QED  BY <2>3, <2>4, <2>5
<1>9. CASE CreateCostModel(w)
  <2>1. ASSUME NEW F, NEW m \in F,
               F \subseteq ModelIds \ DOMAIN models,
               models' = WithModels(F, h.row.source),
               req' = [req EXCEPT ![w] = [h EXCEPT !.pc = "save", !.row = [@ EXCEPT !.model = m]]]
        PROVE  \E x : Good(x)
    <3> DEFINE x == [h EXCEPT !.pc = "save", !.row = [@ EXCEPT !.model = m]]
    <3>1. h.pc = "createModel"
      BY <1>9 DEF CreateCostModel, At
    <3>2. h.row \in CostInstance
      BY <1>2, BusyType
    <3>3. /\ x.pc = "save" /\ x.id = h.id
          /\ x.row.target = h.row.target /\ x.row.status = h.row.status
          /\ x.row.source = h.row.source /\ x.row.model = m
      BY <1>3, <3>2 DEF BusyRequest, CostInstance
    <3>4. m \in DOMAIN models' /\ models'[m].source = h.row.source
      BY <2>1 DEF WithModels, NewModel
    <3>5. h.row.source # None
      BY <1>3, <3>1 DEF RequestNext, CreatePcs
    <3> HIDE DEF x
    <3>6. ProvenanceNext(x.row)
      BY <1>3, <3>3, <3>4, <3>5 DEF ProvenanceNext, RequestNext
    <3>7. RequestNext(x)
      BY <1>3, <3>1, <3>3, <3>5, <3>6 DEF RequestNext, CreatePcs
    <3> QED  BY <2>1, <3>7 DEF x
  <2>2. CASE Goto(w, "save")
    BY <1>5, <1>9, <2>2 DEF CreateCostModel, At, CreatePcs, WithSource
  <2>3. CASE ~Goto(w, "save")
    BY <1>9, <2>1, <2>3 DEF CreateCostModel, Created, Become
  <2> QED  BY <2>2, <2>3
<1>10. CASE SaveInstance(w)
  BY <1>5, <1>10 DEF SaveInstance, At, CreatePcs, WithSource
<1>11. CASE DropCostModel(w) \/ PauseSource(w) \/ MarkDeleted(w)
  BY <1>5, <1>11 DEF DropCostModel, PauseSource, MarkDeleted, At, DeletePcs
<1>12. CASE MarkFailed(w) \/ AnnounceProvisioning(w) \/ AnnounceDeleted(w)
  BY <1>4, <1>12 DEF MarkFailed, AnnounceProvisioning, AnnounceDeleted
<1> QED  BY <1>6, <1>7, <1>8, <1>9, <1>10, <1>11, <1>12 DEF Proceed

\* Every worker, the one that moved and the others.
LEMMA WorkersStep ==
  ASSUME TypeOK, CopiesConsistent, KokuProvenance, [Next]_vars
  PROVE  \A v \in Workers : req'[v].pc # "idle" => RequestNext(req'[v])
<1> SUFFICES ASSUME NEW v \in Workers, req'[v].pc # "idle"
             PROVE  RequestNext(req'[v])
  OBVIOUS
<1>1. req \in [Workers -> {IdleRequest} \cup BusyRequest]
  BY DEF TypeOK, WorkerTypeOK
<1>2. CASE UNCHANGED req
  BY <1>2, RequestKept
<1>3. ASSUME NEW w \in Workers, Accept(w) \/ Proceed(w)
      PROVE  RequestNext(req'[v])
  <2>1. PICK h : req' = [req EXCEPT ![w] = h] /\ (h = IdleRequest \/ RequestNext(h))
    BY <1>3, AcceptStep, ProceedStep
  <2>2. CASE v = w
    <3>1. req'[v] = h
      BY <1>1, <2>1, <2>2
    <3>2. h # IdleRequest
      BY <3>1 DEF IdleRequest
    <3> QED  BY <2>1, <3>1, <3>2
  <2>3. CASE v # w
    <3>1. req'[v] = req[v]
      BY <1>1, <2>1, <2>3
    <3> QED  BY <3>1, RequestKept
  <2> QED  BY <2>2, <2>3
<1>4. CASE Crash
  BY <1>4 DEF Crash, IdleRequest
<1> QED  BY <1>2, <1>3, <1>4, ReqUnchanged

\* The reconciler's copies: rows of the table when listed, and only dropped
\* after that.
CopyNext(i, r) == ProvenanceNext(r) /\ i \in DOMAIN db' /\ db'[i].target = r.target

\* The reconciler's batch is copied from the table or shrinks; rows stay.
LEMMA BatchStep ==
  ASSUME TypeOK, CopiesConsistent, KokuProvenance, [Next]_vars
  PROVE  \A i \in DOMAIN batch' : CopyNext(i, batch'[i])
<1>1. \A i \in DOMAIN batch : CopyNext(i, batch[i])
  BY RowsStep, KokuStep, ProvenanceKept
     DEF CopiesConsistent, BatchConsistent, RowsKept, CopyNext
<1>2. \A i \in DOMAIN db : CopyNext(i, db[i])
  BY RowsStep, KokuStep, ProvenanceKept DEF KokuProvenance, RowsKept, CopyNext
<1>3. CASE batch' = batch
  BY <1>1, <1>3
<1>4. CASE ListProvisioning
  <2>1. IsTable(db) /\ batch' = ListByStatus(db, "PROVISIONING")
    BY <1>4 DEF TypeOK, ListProvisioning
  <2> QED  BY <1>2, <2>1, ListTable
<1>5. ASSUME NEW i, NextRow(i)
      PROVE  \A j \in DOMAIN batch' : CopyNext(j, batch'[j])
  <2>1. batch' = [j \in DOMAIN batch \ {i} |-> batch[j]]
    BY <1>5 DEF NextRow, Without
  <2> QED  BY <1>1, <2>1
<1>6. CASE Crash
  BY <1>6 DEF Crash, NoRows
<1>7. CASE Reconcile /\ ~ListProvisioning /\ batch' # batch
  <2>1. NextRow(cur) \/ \E i \in Ids : NextRow(i)
    BY <1>7 DEF Reconcile, SkipUnsourced, Examine, SourceStats, Mark, AnnounceVerdict
  <2> QED  BY <1>5, <2>1
<1>8. UNCHANGED recon => batch' = batch
  BY DEF recon
<1> QED  BY <1>3, <1>4, <1>6, <1>7, <1>8, ReconUnchanged

\* READY is decided on an answer that there is data, for the source of the copy.
LEMMA VerdictStep ==
  ASSUME TypeOK, CopiesConsistent, [Next]_vars, verdict' = "READY"
  PROVE  DataNext(batch'[cur'].target)
<1>1. CASE UNCHANGED <<batch, cur, verdict>>
  BY <1>1, DataKept DEF CopiesConsistent
<1>2. CASE SourceStats
  <2>1. rpc = "stats" /\ ~NextRow(cur)
    BY <1>2, NoneAssumption DEF SourceStats, NextRow, Status
  <2>2. HasData(batch[cur].source) /\ UNCHANGED <<batch, cur>>
    BY <1>2, <2>1 DEF SourceStats
  <2>3. cur \in DOMAIN batch /\ batch[cur].source # None
    BY <2>1, NoneAssumption DEF TypeOK, ReconcilerTypeOK
  <2>4. /\ batch[cur].source \in DOMAIN sources
        /\ sources[batch[cur].source].cluster = batch[cur].target
    BY <2>3 DEF CopiesConsistent, BatchConsistent, Provenance
  <2>5. ClusterHasData(batch[cur].target)
    BY <2>2, <2>4 DEF HasData, ClusterHasData
  <2> QED  BY <2>2, <2>5, DataKept
<1>3. ASSUME NEW i, NextRow(i)
      PROVE  FALSE
  BY <1>3, NoneAssumption DEF NextRow, Status
<1>4. CASE Reconcile /\ ~SourceStats
  <2>1. CASE ListProvisioning
    BY <1>1, <2>1, NoneAssumption DEF ListProvisioning, TypeOK, ReconcilerTypeOK, Status
  <2>2. ASSUME NEW i \in Ids, SkipUnsourced(i) \/ Examine(i)
        PROVE  FALSE
    BY <1>3, <2>2, NoneAssumption
       DEF SkipUnsourced, Examine, TypeOK, ReconcilerTypeOK, Status
  <2>3. CASE Mark \/ AnnounceVerdict
    BY <1>1, <1>3, <2>3 DEF Mark, AnnounceVerdict
  <2> QED  BY <1>4, <2>1, <2>2, <2>3 DEF Reconcile
<1>5. ~Crash
  BY NoneAssumption DEF Crash, Status
<1>6. UNCHANGED recon => UNCHANGED <<batch, cur, verdict>>
  BY DEF recon
<1> QED  BY <1>1, <1>2, <1>4, <1>5, <1>6, ReconUnchanged

\* The workers, the batch and the verdict together.
LEMMA CopiesStep ==
  ASSUME TypeOK, CopiesConsistent, KokuProvenance, [Next]_vars
  PROVE  CopiesConsistent'
<1>1. ASSUME NEW v \in InFlight'
      PROVE  WorkerConsistent(v)'
  <2>1. RequestNext(req'[v])
    BY <1>1, WorkersStep DEF InFlight, At
  <2> QED  BY <2>1 DEF RequestNext, ProvenanceNext, WorkerConsistent, Provenance
<1>2. BatchConsistent'
  BY BatchStep DEF BatchConsistent, CopyNext, Provenance, ProvenanceNext
<1>3. verdict' = "READY" => ClusterHasData(batch[cur].target)'
  BY VerdictStep DEF ClusterHasData, DataNext
<1> QED  BY <1>1, <1>2, <1>3 DEF CopiesConsistent

\* A READY event is the reconciler's, about a row of its batch.
LEMMA EventStep ==
  ASSUME TypeOK, CopiesConsistent, ReadyEventBacked, [Next]_vars
  PROVE  ReadyEventBacked'
<1> DEFINE Backed(i) == i \in DOMAIN db' /\ DataNext(db'[i].target)
<1>1. SUFFICES ASSUME NEW i \in Ids, lastEvent'[i] = "READY"
               PROVE  Backed(i)
  BY <1>1 DEF ReadyEventBacked, ClusterHasData, DataNext
<1>2. ASSUME i \in DOMAIN db, ClusterHasData(db[i].target)
      PROVE  Backed(i)
  BY <1>2, RowsStep, DataKept DEF RowsKept
<1>3. CASE lastEvent[i] = "READY"
  BY <1>2, <1>3 DEF ReadyEventBacked
<1>4. CASE lastEvent[i] # "READY"
  <2>1. lastEvent \in [Ids -> Status \cup {None}]
    BY DEF TypeOK, RestTypeOK
  <2>2. AnnounceVerdict
    BY <1>1, <1>4, <2>1 DEF Next, vars, Reconcile, ListProvisioning, SkipUnsourced,
       Examine, SourceStats, Mark, KokuIngest, Tick, Crash, Accept, Reserve,
       StartDelete, Proceed, Lookup, Reset, CreateSource, MarkFailed,
       CreateCostModel, SaveInstance, AnnounceProvisioning, DropCostModel,
       PauseSource, MarkDeleted, AnnounceDeleted, Publish
  <2>3. rpc = "announce" /\ i = cur /\ verdict = "READY"
    BY <1>1, <1>4, <2>1, <2>2 DEF AnnounceVerdict, Publish
  <2>4. cur \in DOMAIN batch
    BY <2>3 DEF TypeOK, ReconcilerTypeOK
  <2>5. i \in DOMAIN db /\ ClusterHasData(db[i].target)
    BY <2>3, <2>4 DEF CopiesConsistent, BatchConsistent
  <2> QED  BY <1>2, <2>5
<1> QED  BY <1>3, <1>4

------------------------------------------------------------------------------
(* The theorems *)

\* Inv holds before the first request: empty tables, no copies, no events.
LEMMA InvInit == Init => Inv
<1> SUFFICES ASSUME Init PROVE Inv
  OBVIOUS
<1>1. TypeOK
  BY TypeInit
<1>2. DOMAIN db = {} /\ DOMAIN batch = {}
  BY DEF Init, NoRows
<1>3. verdict # "READY" /\ \A i \in Ids : lastEvent[i] # "READY"
  BY NoneAssumption DEF Init, Status
<1>4. InFlight = {}
  BY DEF Init, InFlight, At, IdleRequest
<1> QED  BY <1>1, <1>2, <1>3, <1>4 DEF Inv, OneInstancePerTarget, KokuProvenance,
            CopiesConsistent, BatchConsistent, ReadyOnlyWithClusterData, ReadyEventBacked

\* Inv is inductive: no step of a handler, the reconciler, Koku or the clock,
\* and no crash, falsifies it.
LEMMA InvStep == Inv /\ [Next]_vars => Inv'
<1> SUFFICES ASSUME Inv, [Next]_vars PROVE Inv'
  OBVIOUS
<1> QED  BY TypeStep, UniqueStep, ProvenanceStep, CopiesStep, ReadyStep, EventStep DEF Inv

\* Inv always holds: the conjuncts support each other, CopiesConsistent being
\* what relates the memory of the goroutines to the table and to Koku between
\* a read of a row and the write that is decided on it.
THEOREM InvAlways == Spec => []Inv
<1>1. Init => Inv
  BY InvInit
<1>2. Inv /\ [Next]_vars => Inv'
  BY InvStep
<1> QED  BY <1>1, <1>2, PTL DEF Spec

\* Type correctness of the table, of Koku's objects and of every goroutine's
\* memory, with the reconciler at a row of its batch whenever it makes a call.
THEOREM TypeCorrect == Spec => []TypeOK
<1>1. Inv => TypeOK
  BY DEF Inv
<1> QED  BY <1>1, InvAlways, PTL

\* However many creates and deletes run together, and whatever fails or
\* crashes, a cluster has at most one row (handler.go:125-154, models.go:7).
THEOREM Uniqueness == Spec => []OneInstancePerTarget
<1>1. Inv => OneInstancePerTarget
  BY DEF Inv
<1> QED  BY <1>1, InvAlways, PTL

\* The UUIDs of a row always name a source of the row's cluster and a cost
\* model of that source, although a Save writes a whole row from memory
\* (handler.go:148 and 209).
THEOREM TrueUUIDs == Spec => []KokuProvenance
<1>1. Inv => KokuProvenance
  BY DEF Inv
<1> QED  BY <1>1, InvAlways, PTL

\* What may be relied on in the copies of rows that handlers and the reconciler
\* hold across their calls to Koku.
THEOREM CopiesTrusted == Spec => []CopiesConsistent
<1>1. Inv => CopiesConsistent
  BY DEF Inv
<1> QED  BY <1>1, InvAlways, PTL

\* READY is written only for a cluster with metering data, however old the copy
\* of the row the reconciler decided on (reconciler.go:115-117).
THEOREM ReadyBacked == Spec => []ReadyOnlyWithClusterData
<1>1. Inv => ReadyOnlyWithClusterData
  BY DEF Inv
<1> QED  BY <1>1, InvAlways, PTL

\* Nobody is told READY of a cluster without metering data (reconciler.go:121).
THEOREM ReadyEvents == Spec => []ReadyEventBacked
<1>1. Inv => ReadyEventBacked
  BY DEF Inv
<1> QED  BY <1>1, InvAlways, PTL

\* A row, once there, is there for ever and for the same cluster: deletion is
\* soft and a take-over keeps the id (handler.go:145-148 and 319).
THEOREM RowsForever == Spec => RowsPersist
<1>1. Inv /\ [Next]_vars =>
        [\A i \in DOMAIN db : i \in DOMAIN db' /\ db'[i].target = db[i].target]_db
  BY RowsStep DEF Inv, RowsKept
<1> QED  BY <1>1, InvAlways, PTL DEF Spec, RowsPersist
================================================================================
