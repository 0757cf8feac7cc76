------------------------------ MODULE CostProvider ------------------------------
(****************************************************************************)
(* The cost provider's core: the create and delete handlers                 *)
(* (internal/handler), the reconciler (internal/reconciler), the table of   *)
(* instances they share (InstanceStore), the Koku service they call and the *)
(* status events and the gauge they emit.                                   *)
(*                                                                          *)
(* A worker is an HTTP handler goroutine.  Between two accesses to the      *)
(* store, to Koku or to the event bus it touches only memory of its own, so *)
(* one access is one action.  The workers and the single reconciler         *)
(* goroutine share nothing but the table, and no lock spans two accesses.   *)
(*                                                                          *)
(* Reads (get, list, usage, report and forecast handlers) and requests that *)
(* are refused before the first access to the store change no state: they   *)
(* are stuttering steps.                                                    *)
(****************************************************************************)
EXTENDS InstanceStore, Integers, FiniteSets

CONSTANTS Workers,      \* handler goroutines
          CostSpecs,    \* kinds of spec that requests carry: see CostSpecKinds
          MaxAttempts,  \* HTTP attempts of one call to Koku (maxRetries)
          MaxRequests,  \* bound: requests accepted
          MaxCrashes,   \* bound: crashes of the process
          KokuFaults,   \* calls to Koku may fail or lose their answer
          StoreFaults,  \* SQL statements may fail
          NatsFaults,   \* published events may be lost
          TimeoutOn     \* the provision timeout is positive

CostSpecKinds == {"noRates", "rates", "badCurrency"}

ASSUME CostSpecsAssumption == CostSpecs \subseteq CostSpecKinds
ASSUME BoundsAssumption == /\ MaxAttempts \in Nat \ {0}
                           /\ MaxRequests \in Nat
                           /\ MaxCrashes \in Nat
ASSUME SwitchesAssumption == {KokuFaults, StoreFaults, NatsFaults, TimeoutOn}
                               \subseteq BOOLEAN

VARIABLES db,         \* the table: durable
          sources,    \* Koku's sources:     [cluster, paused, data]
          models,     \* Koku's cost models: [source, live]
          req,        \* what each worker is doing
          rpc,        \* what the reconciler is doing
          batch,      \* its copies of the rows still to reconcile this tick
          cur,        \* the row it is at
          verdict,    \* the status it is about to write for cur
          lastEvent,  \* the status of the last event delivered for each id
          gauge,      \* the instances_managed gauge: process memory
          served,     \* requests accepted: the logical clock
          horizon,    \* rows stamped up to here are past the timeout
          crashes

koku   == <<sources, models>>
recon  == <<rpc, batch, cur, verdict>>
vars   == <<db, sources, models, req, rpc, batch, cur, verdict, lastEvent,
            gauge, served, horizon, crashes>>

Source == [cluster : Targets, paused : BOOLEAN, data : BOOLEAN]
Model  == [source : SourceIds, live : BOOLEAN]

CreatePcs == {"lookup", "reset", "createSource", "markFailed", "createModel",
              "save", "announce"}
DeletePcs == {"dropModel", "pause", "markDeleted", "announceDeleted"}

\* A handler goroutine is idle or holds its request's id and spec and, in
\* row, the CostInstance it built (create) or read (delete).
IdleRequest == [pc |-> "idle"]
BusyRequest == [pc   : CreatePcs \cup DeletePcs,
                id   : Ids,
                spec : CostSpecs \cup {None},
                row  : CostInstance]

Init == /\ db = NoRows
        /\ sources = NoRows
        /\ models = NoRows
        /\ req = [w \in Workers |-> IdleRequest]
        /\ rpc = "idle"
        /\ batch = NoRows
        /\ cur = None
        /\ verdict = None
        /\ lastEvent = [i \in Ids |-> None]
        /\ gauge = 0
        /\ served = 0
        /\ horizon = 0
        /\ crashes = 0

------------------------------------------------------------------------------
(* Steps that several handlers take. *)

At(w, pc)  == req[w].pc = pc
Become(w, h) == req' = [req EXCEPT ![w] = h]
Goto(w, pc) == Become(w, [req[w] EXCEPT !.pc = pc])
Reply(w)   == Become(w, IdleRequest)

\* The statement that turns the table into d succeeds, or fails and does
\* nothing.  Callers that go on whatever the outcome use only this.
TryStore(d) == \/ db' = d
               \/ StoreFaults /\ UNCHANGED db

\* publisher.Publish: the event reaches the bus, or is lost (no connection, or
\* the no-op publisher); no caller acts on the error.
Publish(i, s) == \/ lastEvent' = [lastEvent EXCEPT ![i] = s]
                 \/ NatsFaults /\ UNCHANGED lastEvent

\* What a POST to Koku may leave behind: each attempt may have been executed
\* even when its answer was lost, so a call can create several objects.
\* Without faults it creates exactly one.
Created(unused) == {F \in SUBSET unused :
                      IF KokuFaults THEN Cardinality(F) <= MaxAttempts
                                    ELSE Cardinality(F) = 1}

NewSource(t) == [cluster |-> t, paused |-> FALSE, data |-> FALSE]
NewModel(s)  == [source |-> s, live |-> TRUE]

WithSources(F, t) == [s \in DOMAIN sources \cup F |->
                        IF s \in F THEN NewSource(t) ELSE sources[s]]
WithModels(F, src) == [m \in DOMAIN models \cup F |->
                         IF m \in F THEN NewModel(src) ELSE models[m]]

------------------------------------------------------------------------------
(* CreateInstance *)

\* A fresh row for target t.
NewInstance(t) == [target    |-> t,
                   source    |-> None,
                   model     |-> None,
                   status    |-> "PROVISIONING",
                   createdAt |-> served + 1]

\* store.Create reserves the target; on a violated key the handler looks the
\* target up.  (Any other error of the statement is a 500 and no change.)
Reserve(w, i, t, s) ==
  /\ At(w, "idle")
  /\ served < MaxRequests
  /\ served' = served + 1
  /\ \/ /\ Vacant(db, i, t)
        /\ db' = Create(db, i, NewInstance(t))
        /\ Become(w, [pc |-> "createSource", id |-> i,
                      spec |-> s, row |-> NewInstance(t)])
     \/ /\ ~Vacant(db, i, t)
        /\ Become(w, [pc |-> "lookup", id |-> i,
                      spec |-> s, row |-> NewInstance(t)])
        /\ UNCHANGED db
  /\ UNCHANGED <<koku, recon, lastEvent, gauge, horizon, crashes>>

\* Bug: a live instance is taken over too.
ReusableReady(s) == s \in {"ERROR", "DELETED", "READY"}

\* Statuses whose row a create may take over.
Reusable(s) == s \in {"ERROR", "DELETED"}

\* The row of the target is taken over when reusable (the handler adopts its
\* id), refused with 409 otherwise; no such row (the id belongs to another
\* target) or an error of the query is a 500.
Lookup(w) ==
  /\ At(w, "lookup")
  /\ LET found == GetByTarget(db, req[w].row.target)
     IN  \/ \E i \in found :
              /\ Reusable(db[i].status)
              /\ Become(w, [req[w] EXCEPT !.pc = "reset", !.id = i])
         \/ \E i \in found : ~Reusable(db[i].status) /\ Reply(w)
         \/ found = {} /\ Reply(w)
         \/ StoreFaults /\ Reply(w)
  /\ UNCHANGED <<db, koku, recon, lastEvent, gauge, served, horizon, crashes>>

\* The row is overwritten with the new instance: UUIDs cleared, PROVISIONING,
\* the new request's created_at.
Reset(w) ==
  /\ At(w, "reset")
  /\ \/ /\ db' = Save(db, req[w].id, req[w].row)
        /\ Goto(w, "createSource")
     \/ StoreFaults /\ Reply(w) /\ UNCHANGED db
  /\ UNCHANGED <<koku, recon, lastEvent, gauge, served, horizon, crashes>>

\* Where a create goes once it has a source.  An unsupported currency is
\* found only now: a 400 that leaves the row and the source as they are.
AfterSource(s) == CASE s = "rates" -> "createModel"
                    [] s = "noRates" -> "save"
                    [] OTHER -> "idle"

CreateSource(w) ==
  /\ At(w, "createSource")
  /\ \E F \in Created(SourceIds \ DOMAIN sources) :
       /\ sources' = WithSources(F, req[w].row.target)
       /\ \/ \E s \in F :
               IF AfterSource(req[w].spec) = "idle"
               THEN Reply(w)
               ELSE Become(w, [req[w] EXCEPT
                                 !.pc = AfterSource(req[w].spec),
                                 !.row = [@ EXCEPT !.source = s]])
          \/ KokuFaults /\ Goto(w, "markFailed")
  /\ UNCHANGED <<db, models, recon, lastEvent, gauge, served, horizon, crashes>>

\* Bug: the failure leaves the reserved row as it is.
MarkFailedSilently(w) ==
  /\ At(w, "markFailed")
  /\ Reply(w)
  /\ UNCHANGED <<db, koku, recon, lastEvent, gauge, served, horizon, crashes>>

\* The call failed: the row, whatever it is by now, becomes ERROR; a 500.
MarkFailed(w) ==
  /\ At(w, "markFailed")
  /\ TryStore(UpdateStatus(db, req[w].id, "ERROR"))
  /\ Reply(w)
  /\ UNCHANGED <<koku, recon, lastEvent, gauge, served, horizon, crashes>>

\* A failure is only noted in the row's message.
CreateCostModel(w) ==
  /\ At(w, "createModel")
  /\ \E F \in Created(ModelIds \ DOMAIN models) :
       /\ models' = WithModels(F, req[w].row.source)
       /\ \/ \E m \in F : Become(w, [req[w] EXCEPT
                                     !.pc = "save",
                                     !.row = [@ EXCEPT !.model = m]])
          \/ KokuFaults /\ Goto(w, "save")
  /\ UNCHANGED <<db, sources, recon, lastEvent, gauge, served, horizon, crashes>>

\* Save writes every column of the instance in memory, status included, over
\* whatever the row has become; its failure is only logged.
SaveInstance(w) ==
  /\ At(w, "save")
  /\ TryStore(Save(db, req[w].id, req[w].row))
  /\ Goto(w, "announce")
  /\ UNCHANGED <<koku, recon, lastEvent, gauge, served, horizon, crashes>>

AnnounceProvisioning(w) ==
  /\ At(w, "announce")
  /\ Publish(req[w].id, "PROVISIONING")
  /\ gauge' = gauge + 1
  /\ Reply(w)
  /\ UNCHANGED <<db, koku, recon, served, horizon, crashes>>

------------------------------------------------------------------------------
(* DeleteInstance *)

\* The handler reads the row.  An unknown id (404), a failed query (500) and a
\* row already DELETED (204) end it with no change.
StartDelete(w, i) ==
  /\ At(w, "idle")
  /\ served < MaxRequests
  /\ i \in DOMAIN db
  /\ db[i].status # "DELETED"
  /\ served' = served + 1
  /\ Become(w, [pc |-> "dropModel", id |-> i, spec |-> None, row |-> db[i]])
  /\ UNCHANGED <<db, koku, recon, lastEvent, gauge, horizon, crashes>>

\* Bug: the source is left running.
PausedNever(s) == sources

\* Koku's objects after a DELETE of model m, or a PATCH pausing source s; None:
\* no call is made.
Dropped(m) == IF m = None THEN models ELSE [models EXCEPT ![m].live = FALSE]
Paused(s)  == IF s = None THEN sources
                          ELSE [sources EXCEPT ![s].paused = TRUE]

\* The handler goes on whether the call succeeded, failed, or succeeded with
\* its answer lost.
DropCostModel(w) ==
  /\ At(w, "dropModel")
  /\ \/ models' = Dropped(req[w].row.model)
     \/ KokuFaults /\ UNCHANGED models
  /\ Goto(w, "pause")
  /\ UNCHANGED <<db, sources, recon, lastEvent, gauge, served, horizon, crashes>>

PauseSource(w) ==
  /\ At(w, "pause")
  /\ \/ sources' = Paused(req[w].row.source)
     \/ KokuFaults /\ UNCHANGED sources
  /\ Goto(w, "markDeleted")
  /\ UNCHANGED <<db, models, recon, lastEvent, gauge, served, horizon, crashes>>

MarkDeleted(w) ==
  /\ At(w, "markDeleted")
  /\ TryStore(UpdateStatus(db, req[w].id, "DELETED"))
  /\ Goto(w, "announceDeleted")
  /\ UNCHANGED <<koku, recon, lastEvent, gauge, served, horizon, crashes>>

AnnounceDeleted(w) ==
  /\ At(w, "announceDeleted")
  /\ Publish(req[w].id, "DELETED")
  /\ gauge' = gauge - 1
  /\ Reply(w)
  /\ UNCHANGED <<db, koku, recon, served, horizon, crashes>>

------------------------------------------------------------------------------
(* The reconciler *)

\* A tick copies every PROVISIONING row; a tick that finds none, or whose
\* query fails, changes nothing.
ListProvisioning ==
  /\ rpc = "idle"
  /\ batch' = ListByStatus(db, "PROVISIONING")
  /\ DOMAIN batch' # {}
  /\ rpc' = "scan"
  /\ UNCHANGED <<db, koku, req, cur, verdict, lastEvent, gauge, served,
                 horizon, crashes>>

\* The reconciler is done with row i of its batch.
NextRow(i) == /\ batch' = Without(batch, i)
              /\ rpc' = IF DOMAIN batch = {i} THEN "idle" ELSE "scan"
              /\ cur' = None
              /\ verdict' = None

\* Bug: the timeout is never looked at.
TimedOutNever(r) == FALSE

\* time.Since(CreatedAt) > timeout, of the copy.
TimedOut(r) == TimeoutOn /\ r.createdAt <= horizon

\* A row without a source is skipped, before its age is looked at.
SkipUnsourced(i) ==
  /\ rpc = "scan"
  /\ i \in DOMAIN batch
  /\ batch[i].source = None
  /\ NextRow(i)
  /\ UNCHANGED <<db, koku, req, lastEvent, gauge, served, horizon, crashes>>

Examine(i) ==
  /\ rpc = "scan"
  /\ i \in DOMAIN batch
  /\ batch[i].source # None
  /\ cur' = i
  /\ IF TimedOut(batch[i]) THEN rpc' = "mark" /\ verdict' = "ERROR"
                           ELSE rpc' = "stats" /\ UNCHANGED verdict
  /\ UNCHANGED <<db, koku, req, batch, lastEvent, gauge, served, horizon, crashes>>

\* Bugs: any answer counts as data; data in a list is not seen.
HasDataAlways(s) == TRUE
HasDataNever(s) == FALSE

\* hasData of the answer of GetSourceStats for source s.
HasData(s) == sources[s].data

\* The answer says there is data, or there is none or it is an error.
SourceStats ==
  /\ rpc = "stats"
  /\ \/ /\ HasData(batch[cur].source)
        /\ rpc' = "mark" /\ verdict' = "READY"
        /\ UNCHANGED <<batch, cur>>
     \/ (KokuFaults \/ ~HasData(batch[cur].source)) /\ NextRow(cur)
  /\ UNCHANGED <<db, koku, req, lastEvent, gauge, served, horizon, crashes>>

\* UpdateStatus by id, whatever the row has become; an error ends the row's
\* turn without an event.
Mark ==
  /\ rpc = "mark"
  /\ \/ /\ db' = UpdateStatus(db, cur, verdict)
        /\ rpc' = "announce"
        /\ UNCHANGED <<batch, cur, verdict>>
     \/ StoreFaults /\ NextRow(cur) /\ UNCHANGED db
  /\ UNCHANGED <<koku, req, lastEvent, gauge, served, horizon, crashes>>

AnnounceVerdict ==
  /\ rpc = "announce"
  /\ Publish(cur, verdict)
  /\ NextRow(cur)
  /\ UNCHANGED <<db, koku, req, gauge, served, horizon, crashes>>

Reconcile == \/ ListProvisioning
             \/ \E i \in Ids : SkipUnsourced(i) \/ Examine(i)
             \/ SourceStats
             \/ Mark
             \/ AnnounceVerdict

------------------------------------------------------------------------------
(* The environment *)

\* Koku ingests the first metering data of a source that is not paused.
KokuIngest(s) ==
  /\ s \in DOMAIN sources
  /\ ~sources[s].paused /\ ~sources[s].data
  /\ sources' = [sources EXCEPT ![s].data = TRUE]
  /\ UNCHANGED <<db, models, req, recon, lastEvent, gauge, served, horizon, crashes>>

\* The rows of one more request are now older than the provision timeout.
Tick == /\ TimeoutOn
        /\ horizon < served
        /\ horizon' = horizon + 1
        /\ UNCHANGED <<db, koku, req, recon, lastEvent, gauge, served, crashes>>

\* The process stops at any point (killed, or out of its shutdown time) and
\* starts again on the same database: what was in memory is lost.
Crash == /\ crashes < MaxCrashes
         /\ crashes' = crashes + 1
         /\ req' = [w \in Workers |-> IdleRequest]
         /\ rpc' = "idle" /\ batch' = NoRows /\ cur' = None /\ verdict' = None
         /\ gauge' = 0
         /\ UNCHANGED <<db, koku, lastEvent, served, horizon>>

------------------------------------------------------------------------------
\* A step of a request that was accepted.
Proceed(w) == \/ Lookup(w) \/ Reset(w) \/ CreateSource(w) \/ MarkFailed(w)
              \/ CreateCostModel(w) \/ SaveInstance(w) \/ AnnounceProvisioning(w)
              \/ DropCostModel(w) \/ PauseSource(w) \/ MarkDeleted(w)
              \/ AnnounceDeleted(w)

Accept(w) == \/ \E i \in Ids, t \in Targets, s \in CostSpecs : Reserve(w, i, t, s)
             \/ \E i \in Ids : StartDelete(w, i)

Next == \/ \E w \in Workers : Accept(w) \/ Proceed(w)
        \/ Reconcile
        \/ \E s \in SourceIds : KokuIngest(s)
        \/ Tick
        \/ Crash

Spec == Init /\ [][Next]_vars

\* The scheduler runs every goroutine, the ticker keeps ticking, every call
\* ends (client.go:42 bounds each attempt, reconciler.go:106 each row) and time
\* passes.  Nothing obliges clients to send requests or Koku to get data.
FairSpec == /\ Spec
            /\ WF_vars(Reconcile)
            /\ WF_vars(Tick)
            /\ \A w \in Workers : WF_vars(Proceed(w))

------------------------------------------------------------------------------
(* Type invariant *)

InFlight == {w \in Workers : ~At(w, "idle")}

KokuTypeOK ==
  /\ DOMAIN sources \subseteq SourceIds /\ sources \in [DOMAIN sources -> Source]
  /\ DOMAIN models \subseteq ModelIds /\ models \in [DOMAIN models -> Model]

WorkerTypeOK ==
  /\ req \in [Workers -> {IdleRequest} \cup BusyRequest]
  /\ \A w \in Workers : req[w].pc \in CreatePcs => req[w].spec \in CostSpecs

\* Past the scan the reconciler is at a row of its batch that has a source.
ReconcilerTypeOK ==
  /\ IsTable(batch)
  /\ \/ rpc = "idle" /\ DOMAIN batch = {} /\ cur = None /\ verdict = None
     \/ rpc = "scan" /\ DOMAIN batch # {} /\ cur = None /\ verdict = None
     \/ /\ cur \in DOMAIN batch /\ batch[cur].source # None
        /\ \/ rpc = "stats" /\ verdict = None
           \/ rpc \in {"mark", "announce"} /\ verdict \in {"READY", "ERROR"}

RestTypeOK ==
  /\ lastEvent \in [Ids -> Status \cup {None}]
  /\ gauge \in Int
  /\ served \in Nat /\ horizon \in Nat /\ crashes \in Nat

\* Every variable holds what the code can put there.
TypeOK == /\ IsTable(db)
          /\ KokuTypeOK
          /\ WorkerTypeOK
          /\ ReconcilerTypeOK
          /\ RestTypeOK

------------------------------------------------------------------------------
(* Safety *)

\* The unique index on target_resource_id (models.go:7) with the handler's
\* look-up and take-over: whatever requests, faults and crashes interleave, a
\* cluster never has two rows.
OneInstancePerTarget ==
  \A i, j \in DOMAIN db : db[i].target = db[j].target => i = j

\* The Koku objects an instance record names were created for it: its source
\* reports its cluster, its cost model is attached to that very source.
Provenance(r) ==
  /\ r.source # None => /\ r.source \in DOMAIN sources
                        /\ sources[r.source].cluster = r.target
  /\ r.model # None => /\ r.model \in DOMAIN models
                       /\ models[r.model].source = r.source
                       /\ r.source # None

\* True of every row, although rows are reset, overwritten by the Save of a
\* create that was overtaken, and left half-made by faults and crashes.
KokuProvenance == \A i \in DOMAIN db : Provenance(db[i])

\* Some source Koku has for the cluster has metering data.
ClusterHasData(t) ==
  \E s \in DOMAIN sources : sources[s].cluster = t /\ sources[s].data

\* What the goroutines' copies may be trusted for, however stale the rest: a
\* worker past its look-up and the reconciler hold rows that exist, of the same
\* clusters and with true UUIDs.  A create holds PROVISIONING, and has a source
\* from CreateSource on; READY is about to be written for a cluster with data.
WorkerConsistent(w) ==
  /\ Provenance(req[w].row)
  /\ req[w].pc # "lookup" => /\ req[w].id \in DOMAIN db
                            /\ db[req[w].id].target = req[w].row.target
  /\ req[w].pc \in CreatePcs =>
       /\ req[w].row.status = "PROVISIONING"
       /\ (req[w].row.source # None)
             <=> (req[w].pc \in {"createModel", "save", "announce"})

BatchConsistent ==
  \A i \in DOMAIN batch : /\ Provenance(batch[i])
                         /\ i \in DOMAIN db
                         /\ db[i].target = batch[i].target

CopiesConsistent ==
  /\ \A w \in InFlight : WorkerConsistent(w)
  /\ BatchConsistent
  /\ verdict = "READY" => ClusterHasData(batch[cur].target)

\* READY is only ever written for a cluster that has metering data, although
\* the reconciler writes it from a copy of a row that may since have been
\* deleted, reset or taken over (reconciler.go:115-117).
ReadyOnlyWithClusterData ==
  \A i \in DOMAIN db : db[i].status = "READY" => ClusterHasData(db[i].target)

\* The same of what subscribers were last told (reconciler.go:121): the event
\* is sent after the write, when the row may have changed again.
ReadyEventBacked ==
  \A i \in Ids : lastEvent[i] = "READY" => /\ i \in DOMAIN db
                                          /\ ClusterHasData(db[i].target)

\* Instances are deleted softly (ADR 002): no step removes a row or gives its
\* id to another target, so an id a client was given means its cluster forever.
RowsPersist ==
  [][\A i \in DOMAIN db : i \in DOMAIN db' /\ db'[i].target = db[i].target]_db

\* Create requests that hold the reservation of row i.
Creators(i) == {w \in InFlight : req[w].id = i /\ req[w].pc \in
                  {"createSource", "markFailed", "createModel", "save"}}

\* A reserved row without a source, which the reconciler never looks at, is
\* never left behind: some create still works on it (handler.go:163-211).
\* What strands one is a crash, a failed statement, or a bad currency.
NoStrandedReservation ==
  \A i \in DOMAIN db : db[i].status = "PROVISIONING" /\ db[i].source = None
                        => Creators(i) # {}

\* "DELETED -> Metering/cost tracking removed (source paused/deleted)", design
\* document line 512: once a delete has marked its row, Koku's objects are off.
\* It is so as long as no call to Koku fails: a failed call is only logged, and
\* a second delete of the row does nothing.
DeletedIsReleased ==
  \A i \in DOMAIN db : db[i].status = "DELETED" =>
     /\ db[i].source # None => sources[db[i].source].paused
     /\ db[i].model # None => ~models[db[i].model].live

\* "Strict 1:1 ... avoids double-counting", design document line 1398: Koku
\* never meters a cluster through two sources at once.
NoDoubleMetering ==
  \A s, u \in DOMAIN sources :
     /\ ~sources[s].paused /\ ~sources[u].paused
     /\ sources[s].cluster = sources[u].cluster
     => s = u

\* A DELETED row, design document line 512, comes back only when a create
\* resets it, which clears its source; never because a write that was decided
\* before the deletion lands after it (reconciler.go:117, handler.go:209).
NoResurrection ==
  [][\A i \in DOMAIN db :
       db[i].status = "DELETED" /\ db'[i].status # "DELETED"
         => db'[i].status = "PROVISIONING" /\ db'[i].source = None]_db

\* "Number of cost instances currently tracked.", metrics.go:31: when no request
\* is under way the gauge does not exceed the number of rows that are not DELETED.
\* It is so as long as requests come one at a time and no instance times out, since
\* an instance that did is in ERROR and counted, and counts twice when it is taken
\* over; one whose create failed was never counted.  The gauge may fall below: a
\* restart counts from zero, and a row that a stale write revives is not counted.
GaugeNeverOvercounts ==
  InFlight = {} => gauge <= Cardinality({i \in DOMAIN db : db[i].status # "DELETED"})

------------------------------------------------------------------------------
(* Liveness *)

Provisioning(i) == i \in DOMAIN db /\ db[i].status = "PROVISIONING"

ProvisioningWith(i, s) == Provisioning(i) /\ db[i].source = s

\* An instance does not stay PROVISIONING with the source it got: the
\* reconciler makes it READY or, past the timeout, ERROR, across restarts and
\* whatever Koku answers (reconciler.go:89-125), unless a request changes it.
ProvisioningResolves ==
  \A i \in Ids, s \in SourceIds : ProvisioningWith(i, s) ~> ~ProvisioningWith(i, s)

\* The package comment and the README promise it of every instance.
EveryInstanceResolves == \A i \in Ids : Provisioning(i) ~> ~Provisioning(i)

\* Without the timeout, as long as Koku answers, an instance whose source has
\* data does not wait for ever (reconciler.go:109-117).
MeteredIsNoticed ==
  \A i \in Ids, s \in SourceIds :
     ProvisioningWith(i, s) /\ s \in DOMAIN sources /\ sources[s].data
       ~> ~ProvisioningWith(i, s)
================================================================================
