---------------------- MODULE CostProviderConditionalProofs ----------------------
(****************************************************************************)
(* What CostProvider promises only under conditions, for every set of ids,  *)
(* clusters and UUIDs and every bound: no reservation is stranded, deleted  *)
(* rows are released, no cluster is metered twice, the gauge does not       *)
(* overcount.  Each theorem names the conditions it needs (what fails, and  *)
(* whether requests come one at a time), and each has an inductive          *)
(* invariant of its own beside Inv.                                         *)
(*                                                                          *)
(* The lemmas named ...Flat say action by action where a goroutine goes and *)
(* what it holds there, so that the arguments need not open the actions.    *)
(****************************************************************************)
EXTENDS CostProviderProofs, FiniteSetTheorems

------------------------------------------------------------------------------
(* The handlers, action by action: where the goroutine goes and what it     *)
(* holds there.                                                             *)

\* What a step of worker w leaves of the others.
LEMMA OthersKept ==
  ASSUME TypeOK, CopiesConsistent, KokuProvenance,
         NEW w \in Workers, Accept(w) \/ Proceed(w)
  PROVE  \A v \in Workers : v # w => req'[v] = req[v]
<1>1. PICK h : req' = [req EXCEPT ![w] = h]
  BY AcceptStep, ProceedStep
<1>2. DOMAIN req = Workers
  BY DEF TypeOK, WorkerTypeOK
<1> QED  BY <1>1, <1>2

\* The goroutine w becomes h.
LEMMA BecomeFlat ==
  ASSUME TypeOK, NEW w \in Workers, NEW h, Become(w, h)
  PROVE  req'[w] = h
  BY DEF TypeOK, WorkerTypeOK, Become

\* It replies.
LEMMA ReplyFlat ==
  ASSUME TypeOK, NEW w \in Workers, Reply(w)
  PROVE  req'[w].pc = "idle"
  BY BecomeFlat DEF Reply, IdleRequest

\* It goes on with what it holds.
LEMMA GotoFlat ==
  ASSUME TypeOK, NEW w \in Workers, req[w].pc # "idle", NEW pc, Goto(w, pc)
  PROVE  req'[w].pc = pc /\ req'[w].id = req[w].id /\ req'[w].row = req[w].row
<1>1. req'[w] = [req[w] EXCEPT !.pc = pc] /\ req[w] \in BusyRequest
  BY BecomeFlat, BusyType DEF Goto
<1> QED  BY <1>1 DEF BusyRequest

\* handler.go:115-126: the reservation, or on a violated key the look-up.
LEMMA ReserveFlat ==
  ASSUME TypeOK, NEW w \in Workers, NEW i \in Ids, NEW t \in Targets,
         NEW s \in CostSpecs, Reserve(w, i, t, s)
  PROVE  /\ req[w].pc = "idle"
         /\ UNCHANGED <<sources, models, gauge, verdict>>
         /\ req'[w].id = i /\ req'[w].row = NewInstance(t)
         /\ \/ /\ req'[w].pc = "createSource"
               /\ Vacant(db, i, t) /\ db' = With(db, i, NewInstance(t))
            \/ req'[w].pc = "lookup" /\ db' = db
  BY BecomeFlat DEF Reserve, At, Create, koku, recon

\* handler.go:287-301: a delete has read its row.
LEMMA StartDeleteFlat ==
  ASSUME TypeOK, NEW w \in Workers, NEW i \in Ids, StartDelete(w, i)
  PROVE  /\ req[w].pc = "idle"
         /\ UNCHANGED <<db, sources, models, gauge, verdict>>
         /\ i \in DOMAIN db /\ db[i].status # "DELETED"
         /\ req'[w].pc = "dropModel" /\ req'[w].id = i /\ req'[w].row = db[i]
  BY BecomeFlat DEF StartDelete, At, koku, recon

\* handler.go:127-145: the row to take over, or a reply.
LEMMA LookupFlat ==
  ASSUME TypeOK, NEW w \in Workers, Lookup(w)
  PROVE  /\ req[w].pc = "lookup"
         /\ UNCHANGED <<db, sources, models, gauge, verdict>>
         /\ \/ req'[w].pc = "idle"
            \/ /\ req'[w].pc = "reset" /\ req'[w].row = req[w].row
               /\ req'[w].id \in DOMAIN db
               /\ db[req'[w].id].status \in {"ERROR", "DELETED"}
<1>1. /\ req[w].pc = "lookup"
      /\ UNCHANGED <<db, sources, models, gauge, verdict>>
  BY DEF Lookup, At, koku, recon
<1>2. req[w] \in BusyRequest
  BY <1>1, BusyType
<1>3. ASSUME NEW i \in GetByTarget(db, req[w].row.target), Reusable(db[i].status),
             Become(w, [req[w] EXCEPT !.pc = "reset", !.id = i])
      PROVE  /\ req'[w].pc = "reset" /\ req'[w].row = req[w].row
             /\ req'[w].id \in DOMAIN db
             /\ db[req'[w].id].status \in {"ERROR", "DELETED"}
  <2>1. req'[w] = [req[w] EXCEPT !.pc = "reset", !.id = i]
    BY <1>3, BecomeFlat
  <2>2. req'[w].pc = "reset" /\ req'[w].row = req[w].row /\ req'[w].id = i
    BY <1>2, <2>1 DEF BusyRequest
  <2> QED  BY <1>3, <2>2 DEF GetByTarget, Reusable
<1> QED  BY <1>1, <1>3, ReplyFlat DEF Lookup

\* handler.go:148-153: the row is overwritten with the new instance.
LEMMA ResetFlat ==
  ASSUME TypeOK, NEW w \in Workers, Reset(w)
  PROVE  /\ req[w].pc = "reset"
         /\ UNCHANGED <<sources, models, gauge, verdict>>
         /\ \/ /\ db' = With(db, req[w].id, req[w].row)
               /\ req'[w].pc = "createSource"
               /\ req'[w].id = req[w].id /\ req'[w].row = req[w].row
            \/ StoreFaults /\ req'[w].pc = "idle" /\ db' = db
  BY ReplyFlat, GotoFlat DEF Reset, At, Save, koku, recon

\* handler.go:163-187: the source, with the cost spec read only then.
LEMMA CreateSourceFlat ==
  ASSUME TypeOK, NEW w \in Workers, CreateSource(w)
  PROVE  /\ req[w].pc = "createSource"
         /\ UNCHANGED <<db, models, gauge, verdict>>
         /\ \E F \in Created(SourceIds \ DOMAIN sources) :
              /\ sources' = WithSources(F, req[w].row.target)
              /\ \/ req'[w].pc = "idle" /\ req[w].spec = "badCurrency"
                 \/ KokuFaults /\ req'[w].pc = "markFailed" /\ req'[w].id = req[w].id
                 \/ /\ req'[w].pc \in {"createModel", "save"}
                    /\ req'[w].id = req[w].id
                    /\ req'[w].row.source \in F
<1>1. /\ req[w].pc = "createSource"
      /\ UNCHANGED <<db, models, gauge, verdict>>
  BY DEF CreateSource, At, recon
<1>2. req[w] \in BusyRequest /\ req[w].row \in CostInstance
  BY <1>1, BusyType
<1>3. req[w].spec \in CostSpecKinds
  BY <1>1, CostSpecsAssumption DEF TypeOK, WorkerTypeOK, CreatePcs
<1>4. PICK F \in Created(SourceIds \ DOMAIN sources) :
        /\ sources' = WithSources(F, req[w].row.target)
        /\ \/ \E s \in F :
                IF AfterSource(req[w].spec) = "idle"
                THEN Reply(w)
                ELSE Become(w, [req[w] EXCEPT
                                  !.pc = AfterSource(req[w].spec),
                                  !.row = [@ EXCEPT !.source = s]])
           \/ KokuFaults /\ Goto(w, "markFailed")
  BY DEF CreateSource
<1>5. ASSUME NEW s \in F, NEW pc \in {"createModel", "save"},
             Become(w, [req[w] EXCEPT !.pc = pc, !.row = [@ EXCEPT !.source = s]])
      PROVE  req'[w].pc = pc /\ req'[w].id = req[w].id /\ req'[w].row.source = s
  <2>1. req'[w] = [req[w] EXCEPT !.pc = pc, !.row = [@ EXCEPT !.source = s]]
    BY <1>5, BecomeFlat
  <2> QED  BY <1>2, <2>1 DEF BusyRequest, CostInstance
<1>6. \/ req'[w].pc = "idle" /\ req[w].spec = "badCurrency"
      \/ KokuFaults /\ req'[w].pc = "markFailed" /\ req'[w].id = req[w].id
      \/ /\ req'[w].pc \in {"createModel", "save"}
         /\ req'[w].id = req[w].id
         /\ req'[w].row.source \in F
  <2>1. CASE KokuFaults /\ Goto(w, "markFailed")
    BY <1>1, <2>1, GotoFlat
  <2>2. CASE req[w].spec = "badCurrency"
    BY <1>4, <2>1, <2>2, ReplyFlat DEF AfterSource
  <2>3. CASE req[w].spec # "badCurrency"
    <3>1. AfterSource(req[w].spec) \in {"createModel", "save"}
      BY <1>3, <2>3 DEF AfterSource, CostSpecKinds
    <3> QED  BY <1>4, <1>5, <2>1, <3>1
  <2> QED  BY <2>2, <2>3
<1> QED  BY <1>1, <1>4, <1>6

\* handler.go:164-172: the failure is written in the row.
LEMMA MarkFailedFlat ==
  ASSUME TypeOK, NEW w \in Workers, MarkFailed(w)
  PROVE  /\ req[w].pc = "markFailed"
         /\ UNCHANGED <<sources, models, gauge, verdict>>
         /\ req'[w].pc = "idle"
         /\ \/ db' = UpdateStatus(db, req[w].id, "ERROR")
            \/ StoreFaults /\ db' = db
  BY ReplyFlat DEF MarkFailed, At, TryStore, koku, recon

\* handler.go:199-206: the cost model, or a message.
LEMMA CreateCostModelFlat ==
  ASSUME TypeOK, NEW w \in Workers, CreateCostModel(w)
  PROVE  /\ req[w].pc = "createModel"
         /\ UNCHANGED <<db, sources, gauge, verdict>>
         /\ \E F \in Created(ModelIds \ DOMAIN models) :
              models' = WithModels(F, req[w].row.source)
         /\ req'[w].pc = "save" /\ req'[w].id = req[w].id
         /\ req'[w].row.source = req[w].row.source
<1>1. /\ req[w].pc = "createModel"
      /\ UNCHANGED <<db, sources, gauge, verdict>>
  BY DEF CreateCostModel, At, recon
<1>2. req[w] \in BusyRequest /\ req[w].row \in CostInstance
  BY <1>1, BusyType
<1>3. ASSUME NEW m, Become(w, [req[w] EXCEPT !.pc = "save", !.row = [@ EXCEPT !.model = m]])
      PROVE  /\ req'[w].pc = "save" /\ req'[w].id = req[w].id
             /\ req'[w].row.source = req[w].row.source
  <2>1. req'[w] = [req[w] EXCEPT !.pc = "save", !.row = [@ EXCEPT !.model = m]]
    BY <1>3, BecomeFlat
  <2> QED  BY <1>2, <2>1 DEF BusyRequest, CostInstance
<1> QED  BY <1>1, <1>3, GotoFlat DEF CreateCostModel

\* handler.go:209: every column of the row is written.
LEMMA SaveInstanceFlat ==
  ASSUME TypeOK, NEW w \in Workers, SaveInstance(w)
  PROVE  /\ req[w].pc = "save"
         /\ UNCHANGED <<sources, models, gauge, verdict>>
         /\ req'[w].pc = "announce"
         /\ req'[w].id = req[w].id /\ req'[w].row = req[w].row
         /\ \/ db' = With(db, req[w].id, req[w].row)
            \/ StoreFaults /\ db' = db
  BY GotoFlat DEF SaveInstance, At, TryStore, Save, koku, recon

\* handler.go:213-217: the event and the gauge.
LEMMA AnnounceFlat ==
  ASSUME TypeOK, NEW w \in Workers, AnnounceProvisioning(w)
  PROVE  /\ req[w].pc = "announce" /\ req'[w].pc = "idle"
         /\ UNCHANGED <<db, sources, models, verdict>>
         /\ gauge' = gauge + 1
  BY ReplyFlat DEF AnnounceProvisioning, At, koku, recon

\* handler.go:303-307: the cost model goes, if the call does its work.
LEMMA DropCostModelFlat ==
  ASSUME TypeOK, NEW w \in Workers, DropCostModel(w)
  PROVE  /\ req[w].pc = "dropModel"
         /\ UNCHANGED <<db, sources, gauge, verdict>>
         /\ req'[w].pc = "pause" /\ req'[w].id = req[w].id /\ req'[w].row = req[w].row
         /\ models' = Dropped(req[w].row.model) \/ (KokuFaults /\ models' = models)
  BY GotoFlat DEF DropCostModel, At, recon

\* handler.go:309-313: the source is paused, if the call does its work.
LEMMA PauseSourceFlat ==
  ASSUME TypeOK, NEW w \in Workers, PauseSource(w)
  PROVE  /\ req[w].pc = "pause"
         /\ UNCHANGED <<db, models, gauge, verdict>>
         /\ req'[w].pc = "markDeleted"
         /\ req'[w].id = req[w].id /\ req'[w].row = req[w].row
         /\ sources' = Paused(req[w].row.source) \/ (KokuFaults /\ sources' = sources)
  BY GotoFlat DEF PauseSource, At, recon

\* handler.go:315: the row is marked.
LEMMA MarkDeletedFlat ==
  ASSUME TypeOK, NEW w \in Workers, MarkDeleted(w)
  PROVE  /\ req[w].pc = "markDeleted"
         /\ UNCHANGED <<sources, models, gauge, verdict>>
         /\ req'[w].pc = "announceDeleted" /\ req'[w].id = req[w].id
         /\ \/ db' = UpdateStatus(db, req[w].id, "DELETED")
            \/ StoreFaults /\ db' = db
  BY GotoFlat DEF MarkDeleted, At, TryStore, koku, recon

\* handler.go:319-323: the event and the gauge.
LEMMA AnnounceDeletedFlat ==
  ASSUME TypeOK, NEW w \in Workers, AnnounceDeleted(w)
  PROVE  /\ req[w].pc = "announceDeleted" /\ req'[w].pc = "idle"
         /\ UNCHANGED <<db, sources, models, verdict>>
         /\ gauge' = gauge - 1
  BY ReplyFlat DEF AnnounceDeleted, At, koku, recon

\* The reconciler writes a status at most, READY or its verdict's ERROR, and
\* does not touch Koku or the gauge (reconciler.go:89-125).
LEMMA ReconcileFlat ==
  ASSUME TypeOK, Reconcile
  PROVE  /\ UNCHANGED <<sources, models, req, gauge>>
         /\ \/ db' = db
            \/ /\ verdict \in {"READY", "ERROR"}
               /\ cur \in Ids
               /\ db' = UpdateStatus(db, cur, verdict)
         /\ verdict' = "ERROR" => verdict = "ERROR" \/ TimeoutOn
<1>1. ASSUME NEW i \in Ids, SkipUnsourced(i) \/ Examine(i)
      PROVE  /\ UNCHANGED <<db, sources, models, req, gauge>>
             /\ verdict' = "ERROR" => verdict = "ERROR" \/ TimeoutOn
  BY <1>1, NoneAssumption DEF SkipUnsourced, Examine, NextRow, TimedOut, koku, Status
<1>2. CASE ListProvisioning \/ SourceStats \/ AnnounceVerdict
  BY <1>2, NoneAssumption
     DEF ListProvisioning, SourceStats, AnnounceVerdict, NextRow, koku, Status
<1>3. CASE Mark
  <2>1. cur \in Ids /\ verdict \in {"READY", "ERROR"}
    BY <1>3 DEF Mark, TypeOK, ReconcilerTypeOK, IsTable
  <2> QED  BY <1>3, <2>1, NoneAssumption DEF Mark, NextRow, koku, Status
<1> QED  BY <1>1, <1>2, <1>3 DEF Reconcile

------------------------------------------------------------------------------
(* Reservations *)

\* The conditions under which a create that got its row does something to it:
\* statements do not fail, the process does not stop, currencies are known.
NothingStrands == ~StoreFaults /\ MaxCrashes = 0 /\ "badCurrency" \notin CostSpecs

CreatorPcs == {"createSource", "markFailed", "createModel", "save"}

\* The create that holds row i after the step, if it then needs one.
Unsourced(i) == db'[i].status = "PROVISIONING" /\ db'[i].source = None
HeldNext(i) == \E v \in Workers : req'[v].pc \in CreatorPcs /\ req'[v].id = i

\* A create leaves its row only when it has written ERROR or a source in it
\* (handler.go:163-209).
LEMMA CreatorStep ==
  ASSUME Inv, NothingStrands, NEW v \in Workers, Proceed(v),
         NEW i \in DOMAIN db, req[v].pc \in CreatorPcs, req[v].id = i, Unsourced(i)
  PROVE  HeldNext(i)
<1> USE DEF NothingStrands, CreatorPcs
<1>1. TypeOK
  BY DEF Inv
<1>2. req[v].spec # "badCurrency" \/ req[v].pc # "createSource"
  BY <1>1 DEF TypeOK, WorkerTypeOK, CreatePcs
<1>3. CASE CreateSource(v)
  BY <1>1, <1>2, <1>3, CreateSourceFlat DEF HeldNext
<1>4. CASE MarkFailed(v)
  <2>1. db' = UpdateStatus(db, i, "ERROR") /\ IsTable(db)
    BY <1>1, <1>4, MarkFailedFlat DEF TypeOK
  <2>2. db'[i].status = "ERROR"
    BY <2>1, UpdateStatusTable DEF Status
  <2> QED  BY <2>2 DEF Unsourced
<1>5. CASE CreateCostModel(v)
  BY <1>1, <1>5, CreateCostModelFlat DEF HeldNext
<1>6. CASE SaveInstance(v)
  <2>1. req[v].pc = "save" /\ db' = With(db, i, req[v].row)
    BY <1>1, <1>6, SaveInstanceFlat
  <2>2. req[v].row.source # None
    BY <2>1 DEF Inv, CopiesConsistent, InFlight, At, WorkerConsistent, CreatePcs
  <2> QED  BY <2>1, <2>2 DEF With, Unsourced
<1>7. ~(Lookup(v) \/ Reset(v) \/ AnnounceProvisioning(v) \/ DropCostModel(v)
          \/ PauseSource(v) \/ MarkDeleted(v) \/ AnnounceDeleted(v))
  BY DEF Lookup, Reset, AnnounceProvisioning, DropCostModel, PauseSource,
     MarkDeleted, AnnounceDeleted, At
<1> QED  BY <1>3, <1>4, <1>5, <1>6, <1>7 DEF Proceed

\* A row becomes an unsourced reservation only in the hands of a create: by the
\* reservation itself or by the reset (handler.go:125 and 148).
LEMMA ReservationStep ==
  ASSUME Inv, NothingStrands, [Next]_vars, NEW i \in DOMAIN db', Unsourced(i),
         ~(i \in DOMAIN db /\ db[i].status = "PROVISIONING" /\ db[i].source = None)
  PROVE  HeldNext(i)
<1> USE DEF NothingStrands, CreatorPcs
<1>1. TypeOK /\ IsTable(db)
  BY DEF Inv, TypeOK
<1>2. ASSUME NEW w \in Workers, NEW j \in Ids, NEW t \in Targets, NEW s \in CostSpecs,
             Reserve(w, j, t, s)
      PROVE  HeldNext(i)
  <2>1. db' # db
    BY DEF Unsourced
  <2>2. db' = With(db, j, NewInstance(t)) /\ req'[w].pc = "createSource" /\ req'[w].id = j
    BY <1>1, <1>2, <2>1, ReserveFlat
  <2>3. i = j
    BY <2>2 DEF With, Unsourced
  <2> QED  BY <2>2, <2>3 DEF HeldNext
<1>3. ASSUME NEW w \in Workers, Reset(w)
      PROVE  HeldNext(i)
  <2>1. /\ db' = With(db, req[w].id, req[w].row)
        /\ req'[w].pc = "createSource" /\ req'[w].id = req[w].id
    BY <1>1, <1>3, ResetFlat
  <2>2. i = req[w].id
    BY <2>1 DEF With, Unsourced
  <2> QED  BY <2>1, <2>2 DEF HeldNext
<1>4. ASSUME NEW w \in Workers, SaveInstance(w)
      PROVE  FALSE
  <2>1. req[w].pc = "save" /\ db' = With(db, req[w].id, req[w].row)
    BY <1>1, <1>4, SaveInstanceFlat
  <2>2. req[w].row.source # None
    BY <2>1 DEF Inv, CopiesConsistent, InFlight, At, WorkerConsistent, CreatePcs
  <2> QED  BY <2>1, <2>2 DEF With, Unsourced
<1>5. CASE Marked
  <2>1. PICK j \in Ids, st \in Status \ {"PROVISIONING"} : Relabelled(j, st)
    BY <1>1, <1>5, MarkedRow
  <2> QED  BY <2>1 DEF Relabelled, Unsourced
<1>6. db' # db
  BY DEF Unsourced
<1>7. Reserved \/ Saved \/ Marked
  BY <1>1, <1>6, DbStep
<1>8. ASSUME NEW w \in Workers, Accept(w) \/ Proceed(w), ~Marked
      PROVE  \/ Reset(w) \/ SaveInstance(w)
             \/ \E j \in Ids, t \in Targets, s \in CostSpecs : Reserve(w, j, t, s)
  <2>1. ASSUME MarkFailed(w) \/ MarkDeleted(w)
        PROVE  Marked
    <3>1. req[w].id \in Ids
      BY <1>1, <2>1, BusyType DEF MarkFailed, MarkDeleted, At
    <3>2. db' = UpdateStatus(db, req[w].id, "ERROR") \/ db' = UpdateStatus(db, req[w].id, "DELETED")
      BY <1>1, <1>6, <2>1, MarkFailedFlat, MarkDeletedFlat
    <3> QED  BY <3>1, <3>2 DEF Marked, Status
  <2>2. ~(\/ Lookup(w) \/ CreateSource(w) \/ CreateCostModel(w)
          \/ AnnounceProvisioning(w) \/ DropCostModel(w) \/ PauseSource(w)
          \/ AnnounceDeleted(w) \/ \E j \in Ids : StartDelete(w, j))
    BY <1>6 DEF Lookup, CreateSource, CreateCostModel, AnnounceProvisioning,
       DropCostModel, PauseSource, AnnounceDeleted, StartDelete
  <2> QED  BY <1>8, <2>1, <2>2 DEF Accept, Proceed
<1>9. CASE ~Marked
  <2>1. ASSUME Reconcile
        PROVE  Marked
    <3>1. cur \in Ids /\ verdict \in {"READY", "ERROR"} /\ db' = UpdateStatus(db, cur, verdict)
      BY <1>1, <1>6, <2>1, ReconcileFlat
    <3> QED  BY <3>1 DEF Marked, Status
  <2>2. \E w \in Workers : Accept(w) \/ Proceed(w)
    BY <1>6, <1>9, <2>1 DEF Next, vars, KokuIngest, Tick, Crash
  <2> QED  BY <1>2, <1>3, <1>4, <1>8, <1>9, <2>2
<1> QED  BY <1>5, <1>9

\* NoStrandedReservation is inductive beside Inv.
LEMMA StrandedStep ==
  ASSUME Inv, NoStrandedReservation, NothingStrands, [Next]_vars
  PROVE  NoStrandedReservation'
<1> SUFFICES ASSUME NEW i \in DOMAIN db', Unsourced(i)
             PROVE  HeldNext(i)
  BY DEF NoStrandedReservation, Unsourced, HeldNext, Creators, CreatorPcs, InFlight, At
<1>1. TypeOK /\ CopiesConsistent /\ KokuProvenance
  BY DEF Inv
<1>2. CASE i \in DOMAIN db /\ db[i].status = "PROVISIONING" /\ db[i].source = None
  <2>1. PICK v \in Workers : req[v].pc \in CreatorPcs /\ req[v].id = i
    <3>1. Creators(i) # {}
      BY <1>2 DEF NoStrandedReservation
    <3> QED  BY <3>1 DEF Creators, CreatorPcs, InFlight
  <2>2. CASE req'[v] = req[v]
    BY <2>1, <2>2 DEF HeldNext
  <2>3. CASE Proceed(v)
    BY <1>2, <2>1, <2>3, CreatorStep
  <2>4. CASE req'[v] # req[v] /\ ~Proceed(v)
    <3>1. ~Crash
      BY <1>1 DEF Crash, NothingStrands, TypeOK, RestTypeOK
    <3>2. PICK w \in Workers : Accept(w) \/ Proceed(w)
      BY <2>4, <3>1, ReqUnchanged
    <3>3. w = v
      BY <1>1, <2>4, <3>2, OthersKept
    <3>4. ~Accept(v)
      BY <2>1 DEF Accept, Reserve, StartDelete, At, CreatorPcs
    <3> QED  BY <2>4, <3>2, <3>3, <3>4
  <2> QED  BY <2>2, <2>3, <2>4
<1> QED  BY <1>2, ReservationStep

\* As long as statements and the process do not fail and requests name known
\* currencies, a reserved row without a source always has a create at work on
\* it, however many handlers run and whatever Koku does (handler.go:125-209).
THEOREM NoneStranded ==
  ASSUME ~StoreFaults, MaxCrashes = 0, "badCurrency" \notin CostSpecs
  PROVE  Spec => []NoStrandedReservation
<1>1. Init => NoStrandedReservation
  BY DEF Init, NoRows, NoStrandedReservation
<1>2. Inv /\ NoStrandedReservation /\ [Next]_vars => NoStrandedReservation'
  BY StrandedStep DEF NothingStrands
<1> QED  BY <1>1, <1>2, InvAlways, PTL DEF Spec

------------------------------------------------------------------------------
(* One request at a time *)

\* A handler's own actions.
Moves(w) == \/ \E i \in Ids, t \in Targets, s \in CostSpecs : Reserve(w, i, t, s)
            \/ \E i \in Ids : StartDelete(w, i)
            \/ Lookup(w) \/ Reset(w) \/ CreateSource(w) \/ MarkFailed(w)
            \/ CreateCostModel(w) \/ SaveInstance(w) \/ AnnounceProvisioning(w)
            \/ DropCostModel(w) \/ PauseSource(w) \/ MarkDeleted(w)
            \/ AnnounceDeleted(w)

\* Where requests come one at a time every step is the one handler's, the
\* reconciler's, Koku's, a crash, or nobody's.
LEMMA SoleStep ==
  ASSUME NEW w, Workers = {w}, [Next]_vars
  PROVE  \/ Moves(w)
         \/ Reconcile
         \/ \E s \in SourceIds : KokuIngest(s)
         \/ Crash
         \/ UNCHANGED <<db, sources, models, req, verdict, gauge>>
  BY DEF Next, vars, Accept, Proceed, Moves, Tick, koku, recon

\* Koku turns nothing on again: no call resumes a source, and the model that a
\* DELETE took away stays away.
StaysOff == /\ \A s \in DOMAIN sources : sources[s].paused => sources'[s].paused
            /\ \A m \in DOMAIN models : ~models[m].live => ~models'[m].live

\* What is off stays off, whoever takes the step (client.go:144-212).
LEMMA StaysOffStep ==
  ASSUME TypeOK, [Next]_vars
  PROVE  StaysOff
<1> USE DEF TypeOK, KokuTypeOK, StaysOff
<1>1. ASSUME NEW w \in Workers, CreateSource(w) \/ CreateCostModel(w)
      PROVE  StaysOff
  BY <1>1 DEF CreateSource, CreateCostModel, Created, WithSources, WithModels
<1>2. ASSUME NEW w \in Workers, DropCostModel(w)
      PROVE  StaysOff
  BY <1>2 DEF DropCostModel, Dropped, Model
<1>3. ASSUME NEW w \in Workers, PauseSource(w)
      PROVE  StaysOff
  BY <1>3 DEF PauseSource, Paused, Source
<1>4. ASSUME NEW s \in SourceIds, KokuIngest(s)
      PROVE  StaysOff
  BY <1>4 DEF KokuIngest, Source
<1>5. CASE UNCHANGED koku
  BY <1>5 DEF koku
<1> QED  BY <1>1, <1>2, <1>3, <1>4, <1>5, KokuUnchanged

------------------------------------------------------------------------------
(* What a delete leaves *)

Row(w) == db[req[w].id]

\* What a delete holds is what its row names, and what it has called for is off.
DeletingOK(w) ==
  /\ req[w].pc \in {"dropModel", "pause", "markDeleted"} =>
       Row(w).source = req[w].row.source /\ Row(w).model = req[w].row.model
  /\ req[w].pc \in {"pause", "markDeleted"} =>
       (req[w].row.model # None => ~models[req[w].row.model].live)
  /\ req[w].pc = "markDeleted" =>
       (req[w].row.source # None => sources[req[w].row.source].paused)

ReleaseInv == DeletedIsReleased /\ \A w \in Workers : DeletingOK(w)

\* Who writes a status: the reconciler, a failed create and a delete.
LEMMA StatusWriters ==
  ASSUME [Next]_vars
  PROVE  \/ db' = db \/ Reserved \/ Saved
         \/ Reconcile \/ \E w \in Workers : MarkFailed(w) \/ MarkDeleted(w)
<1>1. ASSUME NEW w \in Workers, Accept(w) \/ Proceed(w)
      PROVE  db' = db \/ Reserved \/ Saved \/ MarkFailed(w) \/ MarkDeleted(w)
  BY <1>1, Zenon DEF Accept, Proceed, Reserve, Create, Reserved, Reset, SaveInstance,
     At, TryStore, Save, Saved, StartDelete, Lookup, CreateSource, CreateCostModel,
     AnnounceProvisioning, DropCostModel, PauseSource, AnnounceDeleted
<1> QED  BY <1>1 DEF Next, vars, KokuIngest, Tick, Crash

\* DELETED is written by a delete alone; a row that stays DELETED names what it
\* named.
LEMMA DeletedStep ==
  ASSUME Inv, [Next]_vars, NEW i \in DOMAIN db', db'[i].status = "DELETED"
  PROVE  \/ \E w \in Workers : MarkDeleted(w) /\ req[w].id = i
         \/ /\ i \in DOMAIN db /\ db[i].status = "DELETED"
            /\ db'[i].source = db[i].source /\ db'[i].model = db[i].model
<1> DEFINE Same == /\ i \in DOMAIN db /\ db[i].status = "DELETED"
                   /\ db'[i].source = db[i].source /\ db'[i].model = db[i].model
<1>1. TypeOK /\ IsTable(db) /\ CopiesConsistent
  BY DEF Inv, TypeOK
<1>2. CASE db' = db \/ Reserved \/ Saved
  BY <1>1, <1>2, ReservedRow, SavedRow DEF AllBut
<1>3. ASSUME NEW j, NEW st \in Status, st # "DELETED", db' = UpdateStatus(db, j, st)
      PROVE  Same
  BY <1>1, <1>3, UpdateStatusTable
<1>4. CASE Reconcile
  BY <1>1, <1>2, <1>3, <1>4, ReconcileFlat DEF Status
<1>5. ASSUME NEW w \in Workers, MarkFailed(w)
      PROVE  Same
  BY <1>1, <1>2, <1>3, <1>5, MarkFailedFlat DEF Status
<1>6. ASSUME NEW w \in Workers, MarkDeleted(w), req[w].id # i
      PROVE  Same
  <2>1. db' = db \/ db' = UpdateStatus(db, req[w].id, "DELETED")
    BY <1>1, <1>6, MarkDeletedFlat
  <2> QED  BY <1>1, <1>2, <1>6, <2>1, UpdateStatusTable DEF Status
<1> QED  BY <1>2, <1>4, <1>5, <1>6, StatusWriters

\* A delete releases what its row names before it marks it, as nobody else
\* writes the row meanwhile but the reconciler its status (handler.go:303-315).
LEMMA ReleaseStep ==
  ASSUME Inv, ReleaseInv, [Next]_vars, NEW w, Workers = {w}, ~KokuFaults
  PROVE  ReleaseInv'
<1>1. TypeOK /\ IsTable(db) /\ KokuProvenance /\ CopiesConsistent
  BY DEF Inv, TypeOK
<1>2. StaysOff /\ RowsKept
  BY <1>1, StaysOffStep, RowsStep
<1>3. req[w].pc # "idle" => /\ Provenance(req[w].row)
                            /\ req[w].pc # "lookup" => req[w].id \in DOMAIN db
  BY <1>1 DEF CopiesConsistent, InFlight, At, WorkerConsistent
<1>4. DeletedIsReleased'
  <2> SUFFICES ASSUME NEW i \in DOMAIN db', db'[i].status = "DELETED"
               PROVE  /\ db'[i].source # None => sources'[db'[i].source].paused
                      /\ db'[i].model # None => ~models'[db'[i].model].live
    BY DEF DeletedIsReleased
  <2>1. CASE MarkDeleted(w) /\ req[w].id = i
    <3>1. /\ req[w].pc = "markDeleted" /\ sources' = sources /\ models' = models
          /\ db' = db \/ db' = UpdateStatus(db, i, "DELETED")
      BY <1>1, <2>1, MarkDeletedFlat
    <3>2. i \in DOMAIN db /\ db'[i].source = db[i].source /\ db'[i].model = db[i].model
      BY <1>1, <1>3, <2>1, <3>1, UpdateStatusTable DEF Status
    <3> QED  BY <2>1, <3>1, <3>2 DEF ReleaseInv, DeletingOK, Row
  <2>2. CASE /\ i \in DOMAIN db /\ db[i].status = "DELETED"
             /\ db'[i].source = db[i].source /\ db'[i].model = db[i].model
    BY <1>1, <1>2, <2>2 DEF ReleaseInv, DeletedIsReleased, KokuProvenance, Provenance, StaysOff
  <2> QED  BY <2>1, <2>2, DeletedStep
<1>5. DeletingOK(w)'
  <2> DEFINE Pcs == {"dropModel", "pause", "markDeleted"}
             Kept == /\ req'[w].id = req[w].id /\ req'[w].row = req[w].row
                     /\ req[w].pc \in Pcs
                     /\ db'[req[w].id].source = db[req[w].id].source
                     /\ db'[req[w].id].model = db[req[w].id].model
  <2>1. CASE req'[w].pc \notin Pcs
    BY <2>1 DEF DeletingOK
  <2>2. CASE Kept /\ req'[w].pc = req[w].pc
    BY <1>1, <1>2, <1>3, <2>2 DEF ReleaseInv, DeletingOK, Row, Provenance, StaysOff
  <2>3. ASSUME NEW i \in Ids, StartDelete(w, i)
        PROVE  DeletingOK(w)'
    BY <1>1, <2>3, StartDeleteFlat DEF DeletingOK, Row
  <2>4. CASE DropCostModel(w)
    <3>1. /\ Kept /\ req[w].pc = "dropModel" /\ req'[w].pc = "pause"
          /\ models' = Dropped(req[w].row.model)
      BY <1>1, <2>4, DropCostModelFlat
    <3>2. req[w].row.model # None => ~models'[req[w].row.model].live
      BY <1>1, <1>3, <3>1 DEF Dropped, Provenance, TypeOK, KokuTypeOK, Model
    <3> QED  BY <3>1, <3>2 DEF ReleaseInv, DeletingOK, Row
  <2>5. CASE PauseSource(w)
    <3>1. /\ Kept /\ req[w].pc = "pause" /\ req'[w].pc = "markDeleted"
          /\ models' = models /\ sources' = Paused(req[w].row.source)
      BY <1>1, <2>5, PauseSourceFlat
    <3>2. req[w].row.source # None => sources'[req[w].row.source].paused
      BY <1>1, <1>3, <3>1 DEF Paused, Provenance, TypeOK, KokuTypeOK, Source
    <3> QED  BY <3>1, <3>2 DEF ReleaseInv, DeletingOK, Row
  <2>6. CASE Moves(w)
    BY <1>1, <2>1, <2>3, <2>4, <2>5, <2>6, ReserveFlat, LookupFlat, ResetFlat,
       CreateSourceFlat, MarkFailedFlat, CreateCostModelFlat, SaveInstanceFlat,
       AnnounceFlat, MarkDeletedFlat, AnnounceDeletedFlat DEF Moves
  <2>7. CASE Reconcile
    <3>1. \/ db' = db
          \/ db' = UpdateStatus(db, cur, verdict) /\ verdict \in Status
      BY <1>1, <2>7, ReconcileFlat DEF Status
    <3>2. \A i \in DOMAIN db : db'[i].source = db[i].source /\ db'[i].model = db[i].model
      BY <1>1, <3>1, UpdateStatusTable
    <3>3. req' = req
      BY <1>1, <2>7, ReconcileFlat
    <3> QED  BY <1>3, <2>1, <2>2, <3>2, <3>3
  <2>8. ASSUME NEW s \in SourceIds, KokuIngest(s)
        PROVE  DeletingOK(w)'
    <3>1. db' = db /\ req' = req
      BY <2>8 DEF KokuIngest
    <3> QED  BY <2>1, <2>2, <3>1
  <2>9. CASE Crash
    <3>1. req'[w].pc = "idle"
      BY <2>9 DEF Crash, IdleRequest
    <3> QED  BY <2>1, <3>1
  <2>10. CASE UNCHANGED <<db, sources, models, req, verdict, gauge>>
    BY <2>1, <2>2, <2>10
  <2> QED  BY <2>6, <2>7, <2>8, <2>9, <2>10, SoleStep
<1> QED  BY <1>4, <1>5 DEF ReleaseInv

\* As long as requests come one at a time and no call to Koku fails, what a
\* DELETED row names is off in Koku, whatever statements fail, whenever the
\* process stops and whatever the reconciler writes (handler.go:303-315).
THEOREM DeletedReleased ==
  ASSUME NEW w, Workers = {w}, ~KokuFaults
  PROVE  Spec => []DeletedIsReleased
<1>1. Init => ReleaseInv
  BY DEF Init, NoRows, IdleRequest, ReleaseInv, DeletedIsReleased, DeletingOK
<1>2. Inv /\ ReleaseInv /\ [Next]_vars => ReleaseInv'
  BY ReleaseStep
<1>3. ReleaseInv => DeletedIsReleased
  BY DEF ReleaseInv
<1> QED  BY <1>1, <1>2, <1>3, InvAlways, PTL DEF Spec

------------------------------------------------------------------------------
(* What Koku meters *)

\* No row is, or is about to be, in ERROR.
NoErrors == /\ \A i \in DOMAIN db : db[i].status # "ERROR"
            /\ verdict # "ERROR"
            /\ \A w \in Workers : req[w].pc # "markFailed"

\* What only a failed call or the timeout brings about (handler.go:167,
\* reconciler.go:95).
LEMMA NoErrorsStep ==
  ASSUME Inv, NoErrors, [Next]_vars, NEW w, Workers = {w}, ~KokuFaults, ~TimeoutOn
  PROVE  NoErrors'
<1>1. TypeOK /\ IsTable(db) /\ CopiesConsistent
  BY DEF Inv, TypeOK
<1>2. \A i \in DOMAIN db' : db'[i].status # "ERROR"
  <2>1. CASE db' = db \/ Reserved \/ Saved
    BY <1>1, <2>1, ReservedRow, SavedRow DEF AllBut, NoErrors
  <2>2. ASSUME NEW j, NEW st \in Status, st # "ERROR", db' = UpdateStatus(db, j, st)
        PROVE  \A i \in DOMAIN db' : db'[i].status # "ERROR"
    BY <1>1, <2>2, UpdateStatusTable DEF NoErrors
  <2>3. CASE Reconcile
    BY <1>1, <2>1, <2>2, <2>3, ReconcileFlat DEF Status, NoErrors
  <2>4. CASE MarkDeleted(w)
    BY <1>1, <2>1, <2>2, <2>4, MarkDeletedFlat DEF Status
  <2>5. ~MarkFailed(w)
    BY DEF NoErrors, MarkFailed, At
  <2> QED  BY <2>1, <2>3, <2>4, <2>5, StatusWriters
<1>3. CASE Moves(w)
  <2>1. verdict' = verdict /\ req'[w].pc # "markFailed"
    BY <1>1, <1>3, ReserveFlat, StartDeleteFlat, LookupFlat, ResetFlat,
       CreateSourceFlat, MarkFailedFlat, CreateCostModelFlat, SaveInstanceFlat,
       AnnounceFlat, DropCostModelFlat, PauseSourceFlat, MarkDeletedFlat,
       AnnounceDeletedFlat DEF Moves
  <2> QED  BY <1>2, <2>1 DEF NoErrors
<1>4. CASE Reconcile
  BY <1>1, <1>2, <1>4, ReconcileFlat DEF NoErrors
<1>5. ASSUME NEW s \in SourceIds, KokuIngest(s)
      PROVE  NoErrors'
  BY <1>2, <1>5 DEF KokuIngest, NoErrors, recon
<1>6. CASE Crash
  <2>1. verdict' # "ERROR" /\ req'[w].pc # "markFailed"
    BY <1>6, NoneAssumption DEF Crash, IdleRequest, Status
  <2> QED  BY <1>2, <2>1 DEF NoErrors
<1>7. CASE UNCHANGED <<db, sources, models, req, verdict, gauge>>
  BY <1>7 DEF NoErrors
<1> QED  BY <1>3, <1>4, <1>5, <1>6, <1>7, SoleStep

\* Every source that meters is named by a row, or by the create that made it.
HeldBy(w, s) == req[w].pc \in {"createModel", "save"} /\ req[w].row.source = s
Covered == \A s \in DOMAIN sources : ~sources[s].paused =>
             \/ \E i \in DOMAIN db : db[i].source = s
             \/ \E w \in Workers : HeldBy(w, s)

\* The row of a create names no source, or before the reset a paused one.
CreatingOK(w) ==
  /\ req[w].pc \in {"createSource", "createModel", "save"} => Row(w).source = None
  /\ req[w].pc = "reset" =>
       (Row(w).source # None => sources[Row(w).source].paused)

MeteringInv == /\ ReleaseInv
               /\ NoErrors
               /\ Covered
               /\ \A w \in Workers : CreatingOK(w)

\* One request at a time, and nothing fails, stops, times out or is refused
\* half-way.
NothingFails == /\ ~KokuFaults /\ ~StoreFaults /\ ~TimeoutOn
                /\ MaxCrashes = 0
                /\ "badCurrency" \notin CostSpecs

\* A create makes one source, and it alone holds it until its row names it.
LEMMA CoveredCreate ==
  ASSUME Inv, MeteringInv, NEW w, Workers = {w}, NothingFails, IsFiniteSet(SourceIds),
         CreateSource(w)
  PROVE  Covered'
<1>1. TypeOK
  BY DEF Inv
<1>2. req[w].spec # "badCurrency"
  BY <1>1 DEF NothingFails, CreateSource, At, TypeOK, WorkerTypeOK, CreatePcs
<1>3. PICK F \in Created(SourceIds \ DOMAIN sources) :
        /\ sources' = WithSources(F, req[w].row.target)
        /\ req'[w].pc \in {"createModel", "save"} /\ req'[w].row.source \in F
        /\ req[w].pc = "createSource" /\ db' = db
  BY <1>1, <1>2, CreateSourceFlat DEF NothingFails
<1>4. PICK x : F = {x}
  <2>1. F \subseteq SourceIds /\ Cardinality(F) = 1
    BY DEF Created, NothingFails
  <2>2. IsFiniteSet(F)
    BY <2>1, FS_Subset
  <2> QED  BY <2>1, <2>2, FS_Singleton
<1> SUFFICES ASSUME NEW s \in DOMAIN sources', ~sources'[s].paused
             PROVE  \/ \E i \in DOMAIN db' : db'[i].source = s
                    \/ \E v \in Workers : HeldBy(v, s)'
  BY DEF Covered
<1>5. CASE s \in F
  BY <1>3, <1>4, <1>5 DEF HeldBy
<1>6. CASE s \notin F
  <2>1. s \in DOMAIN sources /\ ~sources[s].paused
    BY <1>3, <1>6 DEF WithSources
  <2> QED  BY <1>3, <2>1 DEF MeteringInv, Covered, HeldBy
<1> QED  BY <1>5, <1>6

\* No other step takes the last name of a source that meters: a reset takes a
\* paused one's, and a save finds none in the row.
LEMMA CoveredStep ==
  ASSUME Inv, MeteringInv, [Next]_vars, NEW w, Workers = {w}, NothingFails,
         IsFiniteSet(SourceIds)
  PROVE  Covered'
<1>1. TypeOK /\ IsTable(db) /\ KokuProvenance /\ CopiesConsistent
  BY DEF Inv, TypeOK
<1>2. StaysOff
  BY <1>1, StaysOffStep
<1>3. CASE CreateSource(w)
  BY <1>3, CoveredCreate
<1>4. CASE ~CreateSource(w)
  <2> SUFFICES ASSUME NEW s \in DOMAIN sources', ~sources'[s].paused
               PROVE  \/ \E i \in DOMAIN db' : db'[i].source = s
                      \/ \E v \in Workers : HeldBy(v, s)'
    BY DEF Covered
  <2>1. s \in DOMAIN sources /\ ~sources[s].paused /\ s # None
    <3>1. DOMAIN sources' = DOMAIN sources
      BY <1>1, <1>4, KokuUnchanged DEF koku, CreateCostModel, DropCostModel, PauseSource,
         Paused, KokuIngest
    <3> QED  BY <1>1, <1>2, <3>1, NoneAssumption DEF StaysOff, TypeOK, KokuTypeOK
  <2>2. ASSUME NEW i \in DOMAIN db, db[i].source = s
        PROVE  i \in DOMAIN db' /\ db'[i].source = s
    <3>1. CASE db' = db
      BY <2>2, <3>1
    <3>2. CASE Reserved
      BY <1>1, <2>2, <3>2, ReservedRow DEF Vacant, AllBut
    <3>3. CASE Saved
      <4>1. req[w].pc \in {"reset", "save"} /\ db' = With(db, req[w].id, req[w].row)
        BY <3>3 DEF Saved
      <4>2. i # req[w].id
        BY <2>1, <2>2, <4>1 DEF MeteringInv, CreatingOK, Row
      <4> QED  BY <2>2, <4>1, <4>2 DEF With
    <3>4. CASE Marked
      BY <1>1, <2>2, <3>4, MarkedRow DEF Relabelled
    <3> QED  BY <1>1, <3>1, <3>2, <3>3, <3>4, DbStep
  <2>3. ASSUME HeldBy(w, s)
        PROVE  \/ \E i \in DOMAIN db' : db'[i].source = s
               \/ HeldBy(w, s)'
    <3>1. CASE Moves(w)
      <4>1. CASE CreateCostModel(w)
        BY <1>1, <2>3, <4>1, CreateCostModelFlat DEF HeldBy
      <4>2. CASE SaveInstance(w)
        <5>1. db' = With(db, req[w].id, req[w].row)
          BY <1>1, <4>2, SaveInstanceFlat DEF NothingFails
        <5> QED  BY <2>3, <5>1 DEF With, HeldBy
      <4> QED  BY <1>4, <2>3, <3>1, <4>1, <4>2 DEF Moves, HeldBy, Reserve, StartDelete,
                  Lookup, Reset, MarkFailed, AnnounceProvisioning, DropCostModel,
                  PauseSource, MarkDeleted, AnnounceDeleted, At
    <3>2. req' = req => HeldBy(w, s)'
      BY <2>3 DEF HeldBy
    <3>3. ~Crash
      BY <1>1 DEF Crash, NothingFails, TypeOK, RestTypeOK
    <3>4. Reconcile => req' = req
      BY <1>1, ReconcileFlat
    <3>5. \A u \in SourceIds : KokuIngest(u) => req' = req
      BY DEF KokuIngest
    <3> QED  BY <3>1, <3>2, <3>3, <3>4, <3>5, SoleStep
  <2> QED  BY <2>1, <2>2, <2>3 DEF MeteringInv, Covered
<1> QED  BY <1>3, <1>4

\* The row that a create takes over was DELETED, hence released; from its reset
\* on it names nothing until the save (handler.go:134-148).
LEMMA CreatingStep ==
  ASSUME Inv, MeteringInv, [Next]_vars, NEW w, Workers = {w}, NothingFails
  PROVE  CreatingOK(w)'
<1>1. TypeOK /\ IsTable(db) /\ KokuProvenance /\ CopiesConsistent
  BY DEF Inv, TypeOK
<1>2. StaysOff /\ RowsKept
  BY <1>1, StaysOffStep, RowsStep
<1> DEFINE Pcs == {"reset", "createSource", "createModel", "save"}
<1>3. CASE req'[w].pc \notin Pcs
  BY <1>3 DEF CreatingOK
<1>4. req[w].pc \in Pcs =>
        /\ req[w].id \in DOMAIN db
        /\ req[w].pc = "reset" => req[w].row.source = None
  BY <1>1 DEF CopiesConsistent, InFlight, At, WorkerConsistent, CreatePcs
<1>5. CASE /\ req'[w].pc = req[w].pc /\ req'[w].id = req[w].id
           /\ db'[req[w].id].source = db[req[w].id].source
  BY <1>1, <1>2, <1>3, <1>4, <1>5
     DEF MeteringInv, CreatingOK, Row, StaysOff, KokuProvenance, Provenance
<1>6. CASE Moves(w)
  <2>1. ASSUME NEW i \in Ids, NEW t \in Targets, NEW c \in CostSpecs, Reserve(w, i, t, c)
        PROVE  CreatingOK(w)'
    <3>1. CASE req'[w].pc = "createSource"
      <4>1. req'[w].id = i /\ db' = With(db, i, NewInstance(t))
        BY <1>1, <2>1, <3>1, ReserveFlat
      <4>2. db'[i].source = None
        BY <1>1, <4>1, NewInstanceType DEF With
      <4> QED  BY <3>1, <4>1, <4>2 DEF CreatingOK, Row
    <3>2. CASE req'[w].pc = "lookup"
      BY <1>3, <3>2
    <3> QED  BY <1>1, <2>1, <3>1, <3>2, ReserveFlat
  <2>2. CASE Lookup(w)
    BY <1>1, <1>3, <2>2, LookupFlat DEF MeteringInv, ReleaseInv, DeletedIsReleased,
       NoErrors, CreatingOK, Row
  <2>3. CASE Reset(w)
    BY <1>1, <1>3, <1>4, <2>3, ResetFlat DEF CreatingOK, Row, With
  <2>4. CASE CreateSource(w)
    BY <1>1, <1>3, <2>4, CreateSourceFlat DEF MeteringInv, CreatingOK, Row
  <2>5. CASE CreateCostModel(w)
    BY <1>1, <2>5, CreateCostModelFlat DEF MeteringInv, CreatingOK, Row
  <2> QED  BY <1>1, <1>3, <1>6, <2>1, <2>2, <2>3, <2>4, <2>5, StartDeleteFlat,
              MarkFailedFlat, SaveInstanceFlat, AnnounceFlat, DropCostModelFlat,
              PauseSourceFlat, MarkDeletedFlat, AnnounceDeletedFlat DEF Moves
<1>7. CASE Reconcile
  <2>1. /\ req' = req
        /\ db' = db \/ (db' = UpdateStatus(db, cur, verdict) /\ verdict \in Status)
    BY <1>1, <1>7, ReconcileFlat DEF Status
  <2>2. \A i \in DOMAIN db : db'[i].source = db[i].source
    BY <1>1, <2>1, UpdateStatusTable
  <2> QED  BY <1>3, <1>4, <1>5, <2>1, <2>2
<1>8. ASSUME NEW s \in SourceIds, KokuIngest(s)
      PROVE  CreatingOK(w)'
  <2>1. db' = db /\ req' = req
    BY <1>8 DEF KokuIngest
  <2> QED  BY <1>3, <1>5, <2>1
<1>9. CASE Crash
  <2>1. req'[w].pc = "idle"
    BY <1>9 DEF Crash, IdleRequest
  <2> QED  BY <1>3, <2>1
<1>10. CASE UNCHANGED <<db, sources, models, req, verdict, gauge>>
  BY <1>3, <1>5, <1>10
<1> QED  BY <1>6, <1>7, <1>8, <1>9, <1>10, SoleStep

\* Two sources that meter one cluster would be named by one row, or by its row
\* and by the create that works on it.
LEMMA CoveredOnce ==
  ASSUME Inv, MeteringInv, NEW w, Workers = {w}
  PROVE  NoDoubleMetering
<1> SUFFICES ASSUME NEW s \in DOMAIN sources, NEW u \in DOMAIN sources,
                    ~sources[s].paused, ~sources[u].paused,
                    sources[s].cluster = sources[u].cluster
             PROVE  s = u
  BY DEF NoDoubleMetering
<1>1. \A x \in DOMAIN sources : x # None
  BY NoneAssumption DEF Inv, TypeOK, KokuTypeOK
<1>2. ASSUME NEW i \in DOMAIN db, NEW x \in DOMAIN sources, db[i].source = x
      PROVE  sources[x].cluster = db[i].target
  BY <1>1, <1>2 DEF Inv, KokuProvenance, Provenance
<1>3. ASSUME NEW x \in DOMAIN sources, HeldBy(w, x)
      PROVE  /\ req[w].id \in DOMAIN db /\ db[req[w].id].source = None
             /\ sources[x].cluster = db[req[w].id].target
  <2>1. req[w].pc \in {"createModel", "save"} /\ req[w].row.source = x
    BY <1>3 DEF HeldBy
  <2>2. WorkerConsistent(w)
    BY <2>1 DEF Inv, CopiesConsistent, InFlight, At
  <2> QED  BY <1>1, <2>1, <2>2 DEF WorkerConsistent, Provenance, MeteringInv, CreatingOK, Row
<1>4. \A x \in DOMAIN sources : ~sources[x].paused =>
        (\E i \in DOMAIN db : db[i].source = x) \/ HeldBy(w, x)
  BY DEF MeteringInv, Covered
<1>5. \A i, j \in DOMAIN db : db[i].target = db[j].target => i = j
  BY DEF Inv, OneInstancePerTarget
<1>6. HeldBy(w, s) /\ HeldBy(w, u) => s = u
  BY DEF HeldBy
<1> QED  BY <1>1, <1>2, <1>3, <1>4, <1>5, <1>6

\* As long as requests come one at a time, nothing fails or times out and
\* currencies are known, Koku never meters a cluster through two sources, however
\* often its instance is deleted and created again (handler.go:125-209 and
\* 303-315).  There being finitely many UUIDs, a set of one is counted as one.
THEOREM MeteredOnce ==
  ASSUME NEW w, Workers = {w}, IsFiniteSet(SourceIds),
         ~KokuFaults, ~StoreFaults, ~TimeoutOn, MaxCrashes = 0,
         "badCurrency" \notin CostSpecs
  PROVE  Spec => []NoDoubleMetering
<1>1. Init => MeteringInv
  BY NoneAssumption DEF Init, NoRows, IdleRequest, MeteringInv, ReleaseInv,
     DeletedIsReleased, DeletingOK, NoErrors, Covered, CreatingOK, Status
<1>2. Inv /\ MeteringInv /\ [Next]_vars => MeteringInv'
  <2> SUFFICES ASSUME Inv, MeteringInv, [Next]_vars
               PROVE  MeteringInv'
    OBVIOUS
  <2>1. NothingFails
    BY DEF NothingFails
  <2>2. ReleaseInv' /\ NoErrors' /\ Covered' /\ CreatingOK(w)'
    BY <2>1, ReleaseStep, NoErrorsStep, CoveredStep, CreatingStep DEF MeteringInv
  <2> QED  BY <2>2 DEF MeteringInv
<1>3. Inv /\ MeteringInv => NoDoubleMetering
  BY CoveredOnce
<1> QED  BY <1>1, <1>2, <1>3, InvAlways, PTL DEF Spec

------------------------------------------------------------------------------
(* The gauge *)

\* The rows that the gauge may count: where nothing times out, a row is in ERROR
\* only when its create failed, and such a create was never counted.
Live == {i \in DOMAIN db : db[i].status \notin {"DELETED", "ERROR"}}

\* The gauge against the live rows, at each point of a request.
GaugeOK(w) ==
  /\ req[w].pc \in {"idle", "lookup", "dropModel", "pause", "markDeleted"} =>
       gauge <= Cardinality(Live)
  /\ req[w].pc \in {"reset", "createSource", "createModel", "save", "announce", "markFailed"} =>
       gauge <= Cardinality(Live \ {req[w].id})
  /\ req[w].pc \in {"createSource", "createModel", "save", "announce"} =>
       req[w].id \in Live
  /\ req[w].pc = "announceDeleted" => gauge <= Cardinality(Live) + 1

GaugeInv == /\ IsFiniteSet(DOMAIN db)
            /\ verdict # "ERROR"
            /\ \A w \in Workers : GaugeOK(w)

\* The live rows are finitely many, and one more or less counts for one.
LEMMA LiveCount ==
  ASSUME IsFiniteSet(DOMAIN db)
  PROVE  /\ IsFiniteSet(Live)
         /\ Cardinality(Live) \in Nat
         /\ \A i : Cardinality(Live \ {i}) \in Nat
         /\ \A i \in Live : Cardinality(Live) = Cardinality(Live \ {i}) + 1
         /\ \A i : i \notin Live => Live \ {i} = Live
<1>1. Live \subseteq DOMAIN db
  BY DEF Live
<1>2. IsFiniteSet(Live)
  BY <1>1, FS_Subset
<1>3. \A i : IsFiniteSet(Live \ {i})
  BY <1>2, FS_Subset
<1>4. Cardinality(Live) \in Nat /\ \A i : Cardinality(Live \ {i}) \in Nat
  BY <1>2, <1>3, FS_CardinalityType
<1>5. \A i \in Live : Cardinality(Live \ {i}) = Cardinality(Live) - 1
  BY <1>2, FS_RemoveElement
<1>6. \A i \in Live : Cardinality(Live) = Cardinality(Live \ {i}) + 1
  BY <1>4, <1>5
<1>7. \A i : i \notin Live => Live \ {i} = Live
  OBVIOUS
<1> QED  BY <1>2, <1>4, <1>6, <1>7

\* More live rows, in particular all but one, are no fewer.
LEMMA LiveGrows ==
  ASSUME IsFiniteSet(DOMAIN db'), Live \subseteq Live'
  PROVE  /\ Cardinality(Live) <= Cardinality(Live')
         /\ \A i : Cardinality(Live \ {i}) <= Cardinality(Live' \ {i})
<1>1. Live' \subseteq DOMAIN db'
  BY DEF Live
<1>2. IsFiniteSet(Live') /\ \A i : IsFiniteSet(Live' \ {i})
  <2>1. IsFiniteSet(Live')
    BY <1>1, FS_Subset
  <2> QED  BY <2>1, FS_Subset
<1>3. \A i : Live \ {i} \subseteq Live' \ {i}
  OBVIOUS
<1> QED  BY <1>2, <1>3, FS_Subset

\* The table stays finite: a step adds one row at most.
LEMMA FiniteStep ==
  ASSUME TypeOK, CopiesConsistent, [Next]_vars, IsFiniteSet(DOMAIN db)
  PROVE  IsFiniteSet(DOMAIN db')
<1>1. DOMAIN db' = DOMAIN db \/ \E i : DOMAIN db' = DOMAIN db \cup {i}
  BY DbStep, ReservedRow, SavedRow, MarkedRow DEF Relabelled
<1> QED  BY <1>1, FS_AddElement

\* A verdict is ERROR only on a timeout (reconciler.go:84-93), and no handler
\* touches the reconciler's.
LEMMA NoTimeout ==
  ASSUME TypeOK, NEW w, Workers = {w}, [Next]_vars, ~TimeoutOn, verdict # "ERROR"
  PROVE  verdict' # "ERROR"
<1>1. CASE Moves(w)
  <2>1. verdict' = verdict
    BY <1>1, ReserveFlat, StartDeleteFlat, LookupFlat, ResetFlat,
       CreateSourceFlat, MarkFailedFlat, CreateCostModelFlat, SaveInstanceFlat,
       AnnounceFlat, DropCostModelFlat, PauseSourceFlat, MarkDeletedFlat,
       AnnounceDeletedFlat DEF Moves
  <2> QED  BY <2>1
<1>2. CASE Reconcile
  BY <1>2, ReconcileFlat
<1>3. ASSUME NEW s \in SourceIds, KokuIngest(s)
      PROVE  verdict' # "ERROR"
  BY <1>3 DEF KokuIngest, recon
<1>4. CASE Crash
  BY <1>4, NoneAssumption DEF Crash, Status
<1> QED  BY <1>1, <1>2, <1>3, <1>4, SoleStep

\* Where a row that lives stays alive, and the worker and the gauge are as they
\* were, the gauge is no nearer to overcounting.
LEMMA GaugeKept ==
  ASSUME TypeOK, GaugeInv, IsFiniteSet(DOMAIN db'), Live \subseteq Live',
         NEW w \in Workers, gauge' = gauge, req'[w].pc = req[w].pc, req'[w].id = req[w].id
  PROVE  GaugeOK(w)'
<1>1. gauge \in Int
  BY DEF TypeOK, RestTypeOK
<1>2. /\ Cardinality(Live) \in Nat /\ Cardinality(Live') \in Nat
      /\ Cardinality(Live \ {req[w].id}) \in Nat /\ Cardinality(Live' \ {req[w].id}) \in Nat
  <2>1. IsFiniteSet(DOMAIN db)
    BY DEF GaugeInv
  <2>2. Live \subseteq DOMAIN db /\ Live' \subseteq DOMAIN db'
    BY DEF Live
  <2>3. IsFiniteSet(Live) /\ IsFiniteSet(Live')
    BY <2>1, <2>2, FS_Subset
  <2>4. IsFiniteSet(Live \ {req[w].id}) /\ IsFiniteSet(Live' \ {req[w].id})
    BY <2>3, FS_Subset
  <2> QED  BY <2>3, <2>4, FS_CardinalityType
<1>3. /\ Cardinality(Live) <= Cardinality(Live')
      /\ Cardinality(Live \ {req[w].id}) <= Cardinality(Live' \ {req[w].id})
  BY LiveGrows
<1>4. GaugeOK(w)
  BY DEF GaugeInv
<1> HIDE DEF Live
<1> QED  BY <1>1, <1>2, <1>3, <1>4 DEF GaugeOK

\* The handler's steps, one by one: a reservation or a reset adds the row that
\* the announcement will count, and a delete takes away the row that its
\* announcement will discount (handler.go:125-217 and 315-323).
LEMMA GaugeMoves ==
  ASSUME Inv, GaugeInv, [Next]_vars, NEW w, Workers = {w}, Moves(w)
  PROVE  GaugeOK(w)'
<1>1. TypeOK /\ IsTable(db) /\ CopiesConsistent /\ gauge \in Int
  BY DEF Inv, TypeOK, RestTypeOK
<1>2. IsFiniteSet(DOMAIN db) /\ GaugeOK(w)
  BY DEF GaugeInv
<1>3. IsFiniteSet(DOMAIN db')
  BY <1>1, <1>2, FiniteStep
<1>4. /\ Cardinality(Live) \in Nat
      /\ \A i : Cardinality(Live \ {i}) \in Nat
      /\ \A i \in Live : Cardinality(Live) = Cardinality(Live \ {i}) + 1
      /\ \A i : i \notin Live => Live \ {i} = Live
  BY <1>2, LiveCount
<1>5. db' = db => Live' = Live
  BY DEF Live
<1>6. ASSUME NEW i, NEW r, db' = With(db, i, r), r.status \notin {"DELETED", "ERROR"}
      PROVE  i \in Live' /\ Live' \ {i} = Live \ {i}
  BY <1>6 DEF Live, With
<1>7. req[w].pc \in CreatePcs => req[w].row.status = "PROVISIONING"
  BY <1>1 DEF CopiesConsistent, InFlight, At, WorkerConsistent, CreatePcs
<1>8. \A i \in DOMAIN db : db[i].status \in {"ERROR", "DELETED"} => i \notin Live
  BY DEF Live
<1>9. ASSUME gauge <= Cardinality(Live \ {req[w].id})
      PROVE  gauge <= Cardinality(Live)
  <2>1. CASE req[w].id \in Live
    <3>1. Cardinality(Live) = Cardinality(Live \ {req[w].id}) + 1
      BY <1>4, <2>1
    <3>2. Cardinality(Live \ {req[w].id}) \in Nat /\ gauge \in Int
      BY <1>1, <1>4
    <3> QED  BY <1>9, <3>1, <3>2
  <2>2. CASE req[w].id \notin Live
    <3>1. Live \ {req[w].id} = Live
      BY <2>2
    <3> QED  BY <1>9, <3>1
  <2> QED  BY <2>1, <2>2
<1>10. ASSUME NEW st, db' = UpdateStatus(db, req[w].id, st), st \in {"DELETED", "ERROR"}
       PROVE  Live' = Live \ {req[w].id}
  <2>1. /\ DOMAIN db' = DOMAIN db
        /\ \A j \in DOMAIN db : db'[j].status = IF j = req[w].id THEN st ELSE db[j].status
    BY <1>1, <1>10, UpdateStatusTable DEF Status
  <2> QED  BY <1>10, <2>1 DEF Live
<1>11. ASSUME NEW i \in Ids, NEW t \in Targets, NEW c \in CostSpecs, Reserve(w, i, t, c)
      PROVE  GaugeOK(w)'
  <2>1. req[w].pc = "idle" /\ gauge' = gauge
    BY <1>1, <1>11, ReserveFlat
  <2>2. gauge <= Cardinality(Live)
    BY <1>2, <2>1 DEF GaugeOK
  <2>3. CASE req'[w].pc = "lookup" /\ db' = db
    BY <1>5, <2>1, <2>2, <2>3 DEF GaugeOK
  <2>4. CASE req'[w].pc = "createSource" /\ req'[w].id = i
             /\ db' = With(db, i, NewInstance(t)) /\ Vacant(db, i, t)
    <3>1. i \in Live' /\ Live' \ {i} = Live \ {i}
      BY <1>1, <1>6, <2>4, NewInstanceType
    <3>2. i \notin Live
      BY <2>4 DEF Vacant, Live
    <3>3. Live' \ {i} = Live
      BY <3>1, <3>2
    <3> HIDE DEF Live
    <3> QED  BY <2>1, <2>2, <2>4, <3>1, <3>3 DEF GaugeOK
  <2> QED  BY <1>1, <1>11, <2>3, <2>4, ReserveFlat
<1>12. ASSUME NEW i \in Ids, StartDelete(w, i)
       PROVE  GaugeOK(w)'
  <2>1. /\ req[w].pc = "idle" /\ req'[w].pc = "dropModel" /\ req'[w].id = i
        /\ gauge' = gauge /\ db' = db
    BY <1>1, <1>12, StartDeleteFlat
  <2> HIDE DEF Live
  <2> QED  BY <1>2, <1>5, <2>1 DEF GaugeOK
<1>13. CASE Lookup(w)
  <2>1. req[w].pc = "lookup" /\ gauge' = gauge /\ db' = db
    BY <1>1, <1>13, LookupFlat
  <2>2. CASE req'[w].pc = "idle"
    BY <1>2, <1>5, <2>1, <2>2 DEF GaugeOK
  <2>3. CASE req'[w].pc = "reset" /\ req'[w].id \notin Live
    BY <1>2, <1>4, <1>5, <2>1, <2>3 DEF GaugeOK
  <2> QED  BY <1>1, <1>8, <1>13, <2>2, <2>3, LookupFlat
<1>14. CASE Reset(w)
  <2>1. req[w].pc = "reset" /\ gauge' = gauge
    BY <1>1, <1>14, ResetFlat
  <2>2. gauge <= Cardinality(Live \ {req[w].id})
    BY <1>2, <2>1 DEF GaugeOK
  <2>3. CASE req'[w].pc = "idle" /\ db' = db
    <3>1. gauge <= Cardinality(Live)
      BY <1>9, <2>2
    <3> QED  BY <1>5, <2>1, <2>3, <3>1 DEF GaugeOK
  <2>4. CASE /\ req'[w].pc = "createSource" /\ req'[w].id = req[w].id
             /\ db' = With(db, req[w].id, req[w].row)
    <3>1. req[w].id \in Live' /\ Live' \ {req[w].id} = Live \ {req[w].id}
      BY <1>6, <1>7, <2>1, <2>4 DEF CreatePcs
    <3> HIDE DEF Live
    <3> QED  BY <2>1, <2>2, <2>4, <3>1 DEF GaugeOK
  <2> QED  BY <1>1, <1>14, <2>3, <2>4, ResetFlat
<1>15. CASE CreateSource(w) \/ CreateCostModel(w)
  <2>1. /\ req[w].pc \in {"createSource", "createModel"} /\ gauge' = gauge /\ db' = db
        /\ \/ req'[w].pc \in {"createModel", "save"} /\ req'[w].id = req[w].id
           \/ req'[w].pc = "markFailed" /\ req'[w].id = req[w].id
           \/ req'[w].pc = "idle"
    BY <1>1, <1>15, CreateSourceFlat, CreateCostModelFlat
  <2>2. gauge <= Cardinality(Live \ {req[w].id}) /\ req[w].id \in Live
    BY <1>2, <2>1 DEF GaugeOK
  <2>3. gauge <= Cardinality(Live)
    BY <1>9, <2>2
  <2> QED  BY <1>5, <2>1, <2>2, <2>3 DEF GaugeOK
<1>16. CASE SaveInstance(w)
  <2>1. /\ req[w].pc = "save" /\ gauge' = gauge
        /\ req'[w].pc = "announce" /\ req'[w].id = req[w].id
        /\ db' = db \/ db' = With(db, req[w].id, req[w].row)
    BY <1>1, <1>16, SaveInstanceFlat
  <2>2. gauge <= Cardinality(Live \ {req[w].id}) /\ req[w].id \in Live
    BY <1>2, <2>1 DEF GaugeOK
  <2>3. req[w].id \in Live' /\ Live' \ {req[w].id} = Live \ {req[w].id}
    BY <1>5, <1>6, <1>7, <2>1, <2>2 DEF CreatePcs
  <2> HIDE DEF Live
  <2> QED  BY <2>1, <2>2, <2>3 DEF GaugeOK
<1>17. CASE AnnounceProvisioning(w)
  <2>1. req[w].pc = "announce" /\ req'[w].pc = "idle" /\ gauge' = gauge + 1 /\ db' = db
    BY <1>1, <1>17, AnnounceFlat
  <2>2. gauge <= Cardinality(Live \ {req[w].id}) /\ req[w].id \in Live
    BY <1>2, <2>1 DEF GaugeOK
  <2>3. gauge + 1 <= Cardinality(Live)
    <3>1. Cardinality(Live) = Cardinality(Live \ {req[w].id}) + 1
      BY <1>4, <2>2
    <3>2. Cardinality(Live \ {req[w].id}) \in Nat /\ gauge \in Int
      BY <1>1, <1>4
    <3> QED  BY <2>2, <3>1, <3>2
  <2> QED  BY <1>5, <2>1, <2>3 DEF GaugeOK
<1>18. CASE DropCostModel(w) \/ PauseSource(w)
  <2>1. /\ req[w].pc \in {"dropModel", "pause"} /\ req'[w].pc \in {"pause", "markDeleted"}
        /\ req'[w].id = req[w].id /\ gauge' = gauge /\ db' = db
    BY <1>1, <1>18, DropCostModelFlat, PauseSourceFlat
  <2> QED  BY <1>2, <1>5, <2>1 DEF GaugeOK
<1>19. CASE MarkDeleted(w)
  <2>1. /\ req[w].pc = "markDeleted" /\ req'[w].pc = "announceDeleted" /\ gauge' = gauge
        /\ db' = db \/ db' = UpdateStatus(db, req[w].id, "DELETED")
    BY <1>1, <1>19, MarkDeletedFlat
  <2>2. gauge <= Cardinality(Live)
    BY <1>2, <2>1 DEF GaugeOK
  <2>3. Live' = Live \/ Live' = Live \ {req[w].id}
    BY <1>5, <1>10, <2>1
  <2>4. gauge <= Cardinality(Live') + 1
    <3>1. CASE Live' = Live
      BY <1>1, <1>4, <2>2, <3>1
    <3>2. CASE Live' = Live \ {req[w].id} /\ req[w].id \in Live
      BY <1>1, <1>4, <2>2, <3>2
    <3>3. CASE Live' = Live \ {req[w].id} /\ req[w].id \notin Live
      BY <1>1, <1>4, <2>2, <3>3
    <3> QED  BY <2>3, <3>1, <3>2, <3>3
  <2> QED  BY <2>1, <2>4 DEF GaugeOK
<1>20. CASE AnnounceDeleted(w)
  <2>1. /\ req[w].pc = "announceDeleted" /\ req'[w].pc = "idle"
        /\ gauge' = gauge - 1 /\ db' = db
    BY <1>1, <1>20, AnnounceDeletedFlat
  <2>2. gauge <= Cardinality(Live) + 1
    BY <1>2, <2>1 DEF GaugeOK
  <2>3. gauge - 1 <= Cardinality(Live)
    BY <1>1, <1>4, <2>2
  <2> QED  BY <1>5, <2>1, <2>3 DEF GaugeOK
<1>21. CASE MarkFailed(w)
  <2>1. /\ req[w].pc = "markFailed" /\ req'[w].pc = "idle" /\ gauge' = gauge
        /\ db' = db \/ db' = UpdateStatus(db, req[w].id, "ERROR")
    BY <1>1, <1>21, MarkFailedFlat
  <2>2. gauge <= Cardinality(Live \ {req[w].id})
    BY <1>2, <2>1 DEF GaugeOK
  <2>3. gauge <= Cardinality(Live)
    BY <1>9, <2>2
  <2>4. Live' = Live \/ Live' = Live \ {req[w].id}
    BY <1>5, <1>10, <2>1
  <2>5. gauge <= Cardinality(Live')
    BY <2>2, <2>3, <2>4
  <2> QED  BY <2>1, <2>5 DEF GaugeOK
<1> QED  BY <1>11, <1>12, <1>13, <1>14, <1>15, <1>16, <1>17, <1>18, <1>19, <1>20, <1>21
            DEF Moves

\* The rest can only add to the live rows: where nothing times out, the reconciler
\* writes READY (reconciler.go:117), and a restart counts from zero.
LEMMA GaugeStep ==
  ASSUME Inv, GaugeInv, [Next]_vars, NEW w, Workers = {w}, ~TimeoutOn
  PROVE  GaugeInv'
<1>1. TypeOK /\ IsTable(db) /\ CopiesConsistent
  BY DEF Inv, TypeOK
<1>2. IsFiniteSet(DOMAIN db) /\ verdict # "ERROR"
  BY DEF GaugeInv
<1>3. IsFiniteSet(DOMAIN db') /\ verdict' # "ERROR"
  BY <1>1, <1>2, FiniteStep, NoTimeout
<1> SUFFICES GaugeOK(w)'
  BY <1>3 DEF GaugeInv
<1>4. CASE Live \subseteq Live' /\ gauge' = gauge /\ req' = req
  BY <1>1, <1>3, <1>4, GaugeKept
<1>5. CASE Moves(w)
  BY <1>5, GaugeMoves
<1>6. CASE Reconcile
  <2>1. /\ gauge' = gauge /\ req' = req
        /\ \/ db' = db
           \/ db' = UpdateStatus(db, cur, verdict) /\ verdict = "READY"
    BY <1>1, <1>2, <1>6, ReconcileFlat
  <2>2. CASE db' = db
    BY <1>4, <2>1, <2>2 DEF Live
  <2>3. CASE db' = UpdateStatus(db, cur, verdict) /\ verdict = "READY"
    <3>1. /\ DOMAIN db' = DOMAIN db
          /\ \A j \in DOMAIN db : db'[j].status = IF j = cur THEN verdict ELSE db[j].status
      BY <1>1, <2>3, UpdateStatusTable DEF Status
    <3>2. Live \subseteq Live'
      BY <2>3, <3>1 DEF Live
    <3> QED  BY <1>4, <2>1, <3>2
  <2> QED  BY <2>1, <2>2, <2>3
<1>7. ASSUME NEW s \in SourceIds, KokuIngest(s)
      PROVE  GaugeOK(w)'
  BY <1>4, <1>7 DEF KokuIngest, Live
<1>8. CASE Crash
  <2>1. req'[w].pc = "idle" /\ gauge' = 0 /\ db' = db
    BY <1>8 DEF Crash, IdleRequest
  <2>2. Cardinality(Live) \in Nat /\ Live' = Live
    BY <1>2, <2>1, LiveCount DEF Live
  <2> QED  BY <2>1, <2>2 DEF GaugeOK
<1>9. CASE UNCHANGED <<db, sources, models, req, verdict, gauge>>
  BY <1>4, <1>9 DEF Live
<1> QED  BY <1>5, <1>6, <1>7, <1>8, <1>9, SoleStep

\* As long as requests come one at a time and no instance times out, the gauge
\* does not exceed the number of live rows between two requests, although calls
\* to Koku and statements fail, the process restarts and the reconciler revives
\* deleted rows (metrics.go:31).
THEOREM GaugeBounded ==
  ASSUME NEW w, Workers = {w}, ~TimeoutOn
  PROVE  Spec => []GaugeNeverOvercounts
<1>1. Init => GaugeInv
  <2> SUFFICES ASSUME Init PROVE GaugeInv
    OBVIOUS
  <2>1. DOMAIN db = {} /\ Live = {} /\ gauge = 0 /\ req[w].pc = "idle"
    BY DEF Init, NoRows, Live, IdleRequest
  <2>2. IsFiniteSet(DOMAIN db) /\ Cardinality(Live) = 0
    BY <2>1, FS_EmptySet
  <2>3. verdict # "ERROR"
    BY NoneAssumption DEF Init, Status
  <2> QED  BY <2>1, <2>2, <2>3 DEF GaugeInv, GaugeOK
<1>2. Inv /\ GaugeInv /\ [Next]_vars => GaugeInv'
  BY GaugeStep
<1>3. Inv /\ GaugeInv => GaugeNeverOvercounts
  <2> DEFINE Counted == {i \in DOMAIN db : db[i].status # "DELETED"}
  <2> SUFFICES ASSUME Inv, GaugeInv, InFlight = {}
               PROVE  gauge <= Cardinality(Counted)
    BY DEF GaugeNeverOvercounts
  <2>1. req[w].pc = "idle"
    BY DEF InFlight, At
  <2>2. gauge <= Cardinality(Live)
    BY <2>1 DEF GaugeInv, GaugeOK
  <2>3. IsFiniteSet(DOMAIN db) /\ gauge \in Int
    BY DEF GaugeInv, Inv, TypeOK, RestTypeOK
  <2>4. Counted \subseteq DOMAIN db /\ Live \subseteq Counted
    BY DEF Live
  <2> HIDE DEF Counted
  <2>5. IsFiniteSet(Counted)
    BY <2>3, <2>4, FS_Subset
  <2>6. IsFiniteSet(Live) /\ Cardinality(Live) <= Cardinality(Counted)
    BY <2>4, <2>5, FS_Subset
  <2>7. Cardinality(Live) \in Nat /\ Cardinality(Counted) \in Nat
    BY <2>5, <2>6, FS_CardinalityType
  <2> QED  BY <2>2, <2>3, <2>6, <2>7
<1> QED  BY <1>1, <1>2, <1>3, InvAlways, PTL DEF Spec
================================================================================
