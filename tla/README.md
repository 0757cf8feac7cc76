# A verification project for koku-cost-provider

koku-cost-provider is a service provider of DCM: clients create and delete *cost
instances*, each of which stands for the metering of one OpenShift cluster by
Koku (the cost-management service). This directory holds TLA+ models of the
provider, the TLC runs that check them on small instances, and TLAPS proofs of
the main results for instances of any size. Paths and line numbers below are
those of the repository (`internal/...`, `cmd/...`, `docs/...`).

    tlc -config CostProvider_faults.cfg MCCostProvider.tla
    tlapm CostProviderProofs.tla

## 1. Inventory

| Part | State | Operations | Talks to |
|---|---|---|---|
| instance store (`internal/store`) | SQLite table, primary key `id`, unique index on `target_resource_id`; survives a restart | Create, Update (gorm `Save`), Get, GetByTarget, UpdateStatus, List, ListByStatus | - |
| create and delete handlers (`internal/handler`) | one goroutine per request, its `CostInstance` in memory | CreateInstance, DeleteInstance | store, Koku, event bus, gauge |
| read handlers (`internal/handler`) | none; a list's position is an offset that the client holds as a token | get, list, usage, cost report, forecast | store, Koku |
| reconciler (`internal/reconciler`) | one goroutine; the copies of the rows it lists at each tick | reconcile, reconcileOne | store, Koku, event bus |
| Koku client (`internal/koku`) | per call: attempt, backoff, context | doWithRetry and the typed calls on it | Koku |
| status events (`internal/monitoring`) | - | Publish over NATS, or nothing | event bus |
| health checker (`internal/health`) | cached result and its time, under a RW mutex | Check | Koku |
| HTTP server (`internal/apiserver`) | listener, readiness prober, middleware | Run, waitForReady, Shutdown; body limit and validation | all handlers |
| registration (`internal/registration`) | one goroutine, its backoff | Start, Register | DCM |
| main (`cmd/koku-cost-provider`) | the context of the signals | run: load, listen, open, serve, drain | all |
| metrics (`internal/metrics`) | gauge and counters | middleware, label normalisation | - |
| configuration (`internal/config`) | constants of the process | Load | - |
| generated API (`internal/api/server`, `api/v1alpha1`) and client (`pkg/client`) | none | requests, routes, binding of parameters, the statuses that are written and parsed | handlers |

Koku, DCM, the event bus and the clients are outside the repository; they are
modelled from how the code uses them.

**How they interact.** Handlers and the reconciler share nothing but the table,
and there is neither a lock nor a transaction that spans two statements. Each
reads a row, spends up to a minute and a half in calls to Koku, and then writes: the create
handler a whole row (`handler.go:148, 209`), the others a status by id
(`handler.go:166, 315`, `reconciler.go:96, 117`). What keeps that sound is
subtle: the unique index, the fact that rows are never removed, that Koku's
objects are never removed, and that only the reconciler writes READY.

**What is hard.** Stale copies meet new rows: a create overtaken by a delete
and a second create, a tick that decides on a row that was reset since. Calls
to Koku fail, run twice, or run without their answer arriving. The process may
stop between a reservation and the write that completes it. Retries, backoffs
and contexts race. The start of the process depends on a probe which itself
depends on Koku. PROJECT.json lists each of these as a hazard with its line.

**What makes each part correct.**

- store and handlers: one row per cluster; an id means its cluster for ever;
  UUIDs in a row are those of objects made for it; a reservation is completed,
  failed, or still being worked on; a deletion turns Koku's objects off; a
  cluster is not metered twice.
- reconciler: READY (in the table and in events) only with data; every
  instance leaves PROVISIONING; data is noticed.
- Koku client: a call ends, by its context's deadline or by a fixed bound; it
  runs at most three times at Koku; success means it ran.
- health checker: "healthy" is never older than one cache life and one probe.
- server, registration, main: registered only once answering; started up
  although probes, DCM and signals interleave; stopped in bounded time.
- read handlers, API and client: an answer is about the instance that was asked
  for; whatever a handler answers can be read by the generated client; the id of a 201
  goes on to mean its cluster, even when the 201 was lost; a reader that pages through
  the list misses nothing but what was moved meanwhile or cut off by a bad count.

## 2. Modules

| Module | Models | Kind |
|---|---|---|
| `InstanceStore` | `internal/store`: the table and its statements, as operators | data |
| `CostProvider` | handlers, reconciler, Koku, events, gauge around one table | system |
| `MCCostProvider` | symmetry sets for TLC | instance |
| `CostProviderProofs` | theorems about `CostProvider`, whatever fails | proofs |
| `CostProviderConditionalProofs` | what holds of `CostProvider` as long as certain things do not happen | proofs |
| `CostRegistry` | what the provider promises of its rows | abstract specification |
| `CostProviderRefines` | `CostProvider` implements `CostRegistry` | refinement mapping |
| `CostProviderRefinesProofs` | the proof of that | proofs |
| `ApiContract` | client, routes, binding and answers of the eight operations | data |
| `CostApi` | every operation, as its clients see it, on `CostRegistry` and `ApiContract` | system |
| `MCCostApi` | ids, inherited table, view and symmetry for TLC | instance |
| `CostApiProofs` | `CostRegistry` keeps its promises, `CostApi` is built on it | proofs |
| `CostApiReaderProofs` | what the clients of `CostApi` are told | proofs |
| `KokuCall` | what one client call promises | abstract specification |
| `KokuRetry` | `doWithRetry` with time; implements `KokuCall` | component |
| `KokuRetryProofs` | theorems about `KokuRetry` | proofs |
| `HealthCache` | the health checker under concurrent requests | component |
| `HealthCacheProofs` | theorems about `HealthCache` | proofs |
| `ServerLifecycle` | server, prober, registrar and main over one life of the process | system |
| `ServerLifecycleProofs` | theorems about `ServerLifecycle` | proofs |

### InstanceStore and CostProvider

`db` is a function from the ids of the rows there are to records
`[target, source, model, status, createdAt]`. `cluster_id` always equals
`target_resource_id` (`handler.go:108`) and is not kept twice. Names, messages,
the spec's text and `updated_at` are left out: nothing decides on them.
`createdAt` is the number of the request that stamped it. `None` is the empty
string of a UUID column.

A worker is a handler goroutine: idle, or at a program point with the id, the
kind of spec and the `CostInstance` it holds in memory. One action is one access
to the store, Koku or the bus, with what the code then decides in memory:

| Code | Actions |
|---|---|
| `CreateInstance`, 74-133: INSERT, or look-up on a violated key | `Reserve`, `Lookup` |
| 134-154: 409, or take-over of an ERROR or DELETED row | `Lookup`, `Reset` |
| 163-186: source, currency check | `CreateSource`, `MarkFailed` |
| 187-207: cost model | `CreateCostModel` |
| 209-227: Save, event, gauge | `SaveInstance`, `AnnounceProvisioning` |
| `DeleteInstance`, 286-332 | `StartDelete`, `DropCostModel`, `PauseSource`, `MarkDeleted`, `AnnounceDeleted` |
| `reconcile`, 70-87 | `ListProvisioning`, `NextRow` |
| `reconcileOne`, 89-124 | `SkipUnsourced`, `Examine`, `SourceStats`, `Mark`, `AnnounceVerdict` |
| process stops and starts | `Crash` |
| Koku gets data; time passes | `KokuIngest`, `Tick` |

Requests that change nothing (reads, and those refused before the first
statement) are stuttering steps here; `CostApi` has them. A call to Koku is one step here whose outcomes
are those of `KokuCall`: it may leave up to `MaxAttempts` objects behind whether
it reports success or failure. That this is what `doWithRetry` does is checked
on `KokuRetry`.

Four switches separate causes: `KokuFaults`, `StoreFaults`, `NatsFaults`,
`TimeoutOn`; `MaxCrashes` and `MaxRequests` are bounds. The reconciler's
batch is a copy of rows; a row is taken from it in any order.

### CostRegistry and CostProviderRefines

`CostRegistry` keeps of a row its cluster, status and stamp, and forgets Koku, the
UUIDs, the events and the gauge. A request that has decided on a write *owes* it:
a create owes its whole row, twice when it takes a row over; a delete owes a
status. A debt is settled on the row as it then is, or dropped (`Abandon`: a
failed statement, a refusal, a crash). Apart from that only the reconciler's
verdict (`Judge`) changes a row. This is what is stale in the code and no more:
rows are never removed, a cluster has one, a take-over is decided only
on an ERROR or DELETED row.

The mapping of `CostProviderRefines` reads the rows off `db` and a worker's debt
off its program point: `reset` owes the reset, `createSource` to `save` the
closing Save, `dropModel` to `markDeleted` the DELETED status, any other nothing.

### ApiContract and CostApi

`ApiContract` is four tables taken from the generated code and the middleware, as
operators: what the client sends for each operation, the routes and how chi picks one
(a static segment before a parameter), what binding, validation, the body limit and the
strict server's decoding may refuse, with the status and Content-Type of the refusal,
and which statuses each operation's response types write and the client's parsers fill in.

`CostApi` puts every operation on the table of `CostRegistry`. An action is a
statement, or a call to Koku, with all that a request meets before or after it
without touching anything shared: middleware, router, binding, encoding, the
client's parsing. The list is two statements, `CountRows` and `FindRows`
(`store.go:73-79`); usage, report and forecast read the row (`ReadCluster`) and then
call Koku for its cluster (`Proxy`).

| Code | Actions |
|---|---|
| middleware and binding refuse | `Refuse` |
| `GetHealth`, `GetInstance` | `GetHealth`, `GetInstance` |
| `ListInstances`, 249-282 | `CountRows`, `FindRows` |
| `GetUsage`, `GetCostReport`, `GetCostForecast`, 337-440 | `ReadCluster`, `Proxy` |
| `CreateInstance`, 74-232, with its answers | `RefuseTarget`, `Insert`, `LookUpTarget`, `Reset`, `FailCreate`, `RefuseCurrency`, `FinishCreate` |
| `DeleteInstance`, 286-332, with its answers | `StartDelete`, `FinishDelete` |
| reconciler; process stops and starts | `Reconcile`, `Restart` |

The middle of a walk is a page token: an offset. One that does not decode is taken for
0 (`DecodePageToken`), which is a reader that begins anew, as it may at any time.

Three variables are the clients' memory, not the program's.

- `known`: the ids of 201s with their clusters, those of 201s that never arrived included.
- `complaints`, by kind. Of a handler's answer: "unreadable" (undeclared, or in no typed
  field of the client), "hidden" (another operation's handler gave it, to a request that
  looks the same), "misrouted" (to one that does not), "misplaced" (it is about another
  instance, or a cluster that is no longer the instance's). Of a refusal: "refused" (it is
  undeclared or untyped). "hidden" and "refused" do arise, see section 6; the others are
  shown not to.
- `walk`, with `due`, the rows that the reader must still see. `due` starts as the table at
  the first page and loses what a page shows. It also loses what the code gives away, each by an
  operator of its own: rows that a Save moves in the order, or that a row
  moved back passes (`Displaced`); everything, when an INSERT comes between the count and the
  page that it made the last (`Pushed`), or the count fails and is taken for 0. `WalkComplete` says
  that nothing else is missed; that these can be missed is in section 6.

A handler that outlasts the server's write timeout (`SlowKoku`) has done its work,
but its client sees a closed connection (`Late`; for a create, `FinishCreate`).

### KokuCall and KokuRetry

`KokuRetry` follows one call through `doWithRetry`: attempts that are
answered, fail before or after Koku executed them, or are cut by the context or by the client's
timeout, and the backoff that the context may end; a body that breaks off or
does not decode is a failure of a call that was executed. Its clock is in
seconds. `KokuCall` forgets time and attempts: the request is executed at most
`MaxRetries` times and the call ends at most once, successfully only if it was executed.

### HealthCache

Requests read the cache, and on a miss probe Koku with no lock held and store
what they got in any order. `answer` records the last answer and when Koku was last
up. Time is in model units.

### ServerLifecycle

main loads its configuration and listens (`Load`), waits for the database and NATS
for a time from `OpenLatencies`, then goes on to serve (`Open`), or fails at either
(`StartFails`); a signal kills it before main has asked for signals and is only noted
while it waits. `exitIn` is history: how long main may still take once the signal has come,
which is what is left of the opening, the shutdown timeout and the drain timeout. The prober (`waitForReady`) sends requests to the process's own health endpoint,
whose handler calls Koku when the cache is cold; on success the callback starts
the registrar and the reconciler; a signal or a broken listener ends it all.
Timers count down in seconds and a second passes only when nothing is due. What
is due at once happens in any order, which is what Go's `select` promises.
The health handlers that still wait are a set of remaining
times: two that end together are one, since both store the same thing at the same moment.

## 3. Runs

| Run | Shows | Bounds and why they are enough |
|---|---|---|
| `concurrent` | two handlers and the reconciler: one row per cluster, true UUIDs, sound copies, READY backed in table and events, no reservation left behind, rows kept | 2 ids, 2 clusters, 2 sources, 3 requests: two creates and a delete overlap on one row or on two, and collide on id, on cluster or both |
| `faults` | types and the same invariants under failing calls, failing SQL, lost events, a bad currency and a crash | 1 handler (two are in `concurrent`), 2 attempts per call, so that one call leaves two objects; one crash at any point |
| `sequential` | without faults and timeout, one request at a time: deleted means released, no double metering, the gauge never overcounts, data is noticed | 4 requests: create, delete, create again, delete again |
| `resolves` | liveness: an instance with a source leaves PROVISIONING through failures and a restart; and every change of the table is one of `CostRegistry` | 2 handlers that may reset the row meanwhile, 3 requests, 1 crash |
| `api` | types; known ids resolve, answers are about what was asked, handlers' answers can be read, walks miss nothing, tokens lead somewhere | an ordinary id and "health", 2 clusters, 2 writers, 1 reader with pages of one row; an inherited DELETED row that is taken over; 3 more creates, so that the table grows and rows move while a walk goes on; failing SQL, a Koku slower than the write timeout, restarts at any point. `Focus` limits reports and verdicts to the ordinary id. The view leaves out the two kinds of complaints that do arise; no guard depends on complaints |
| `retry` | types, ends by the deadline, ends in time, implements `KokuCall` | the client's constants (3 attempts, 1 s, 30 s); contexts of 3 s, 30 s and none; attempts of 0, 1, 2, 9 or 30 s |
| `health_race` | healthy is recent, and why | 2 requests, cache life 3, probe 2, 8 units of time: the cache expires twice while probes overlap |
| `start` | types, registered once answering, exits, exits in time, starts up | the server's timeouts (5 s, 1 s, 15 s, 5 s); the database and NATS open in 0, 3 or 10 s (each waits for up to 5 s: `store.go:28`, `publisher.go:29`); Koku's status takes 0, 1 or 3 s; DCM fails three times, and the backoff cap is lowered from 5 min to 3 s so that three failures reach it |
| `double_metering`, `resurrection`, `every_instance`, `hung_koku` | section 6 | the least that shows it |

Deadlock is checked for `retry`, `health_race` and `api`. The others may stop: requests
are bounded by `MaxRequests`, and a process that has exited does nothing more.

**Fairness.** `CostProvider!FairSpec`: every goroutine that can go on does
(each call is bounded: `client.go:42`, `reconciler.go:106`), the ticker
ticks, time passes. Clients owe nothing, nor does Koku owe data.
`MeteredIsNoticed` is checked without Koku's failures because with a Koku that
always fails it is false, and rightly so.
`ServerLifecycle!FairSpec`: goroutines run, and time passes (strongly, because
the 50 ms prober can always be given something to do in between); `select`, which
chooses at random among what is due, does not ignore the due deadline for ever
(strong fairness of `GiveUp`); DCM answers or the connection breaks. The last is
an assumption about DCM, since the registrar's client has no timeout.

Every property of a passing run has a mutant: a plausible slip in one mapped
definition (`Bug:` in the modules) under which TLC finds the property violated.

## 4. Proofs

`CostProviderProofs` proves, for all sets, bounds and faults:

| Theorem | Property |
|---|---|
| `TypeCorrect` | `TypeOK` |
| `Uniqueness` | `OneInstancePerTarget` |
| `TrueUUIDs` | `KokuProvenance` |
| `CopiesTrusted` | `CopiesConsistent` |
| `ReadyBacked` | `ReadyOnlyWithClusterData` |
| `ReadyEvents` | `ReadyEventBacked` |
| `RowsForever` | `RowsPersist` |

All rest on `InvAlways`: the conjunction `Inv` of the six invariants is
inductive. None of them is inductive by itself. That saved rows carry true UUIDs
follows only from what the worker holds (`CopiesConsistent`), that a copy's row
still belongs to its cluster follows from rows never changing theirs, and READY is backed because
the verdict in the reconciler's memory is. The argument is laid out by effect:

- `DbStep`: a step leaves the table alone, reserves a vacant target, saves the
  row of a worker at `reset` or `save`, or writes a status.
- `KokuStep`: no step takes anything from Koku; objects keep their cluster, their
  source and their data.
- one lemma per invariant from these two (`UniqueStep`, `ProvenanceStep`,
  `ReadyStep`, `EventStep`, `RowsStep`), and for `CopiesConsistent` one per actor
  (`AcceptStep`, `ProceedStep`, `WorkersStep`, `BatchStep`, `VerdictStep`).

`CostProviderConditionalProofs` proves what holds only under conditions; these are
hypotheses of the theorems. None in the table can be dropped: with the constant changed, a
run like `sequential` finds the property violated.

| Theorem | Property | As long as |
|---|---|---|
| `NoneStranded` | `NoStrandedReservation` | SQL does not fail, the process lives, currencies are known; any number of handlers, any failures of Koku |
| `DeletedReleased` | `DeletedIsReleased` | requests come one at a time and no call to Koku fails; SQL may fail, the process may crash, instances may time out |
| `MeteredOnce` | `NoDoubleMetering` | requests come one at a time, nothing fails, crashes or times out, currencies are known |
| `GaugeBounded` | `GaugeNeverOvercounts` | requests come one at a time and no instance times out; Koku and SQL may fail, the process may crash |

"One at a time" is `Workers = {w}`: the reconciler still interleaves with that request.
Each has an inductive invariant of its own on top of `Inv`:

- `NoStrandedReservation` is inductive with `Inv`: who else writes the row of a
  create writes a status other than PROVISIONING (`StrandedStep`), and the create goes on until it
  has written ERROR or a source (`CreatorStep`).
- `ReleaseInv` adds what a delete on its way holds (`DeletingOK`): its copy of the
  UUIDs is still that of the row, and what it has called for is off. `StaysOff` keeps it
  off: no call of the client turns anything on again.
- `MeteringInv` adds that every source that is not paused is named by a row or held
  by the create that made it (`Covered`), that a create starts from a row that names none or a paused
  one (`CreatingOK`), and that no row is in ERROR (`NoErrors`), which only a failure or
  the timeout writes. A call that succeeds at the first attempt makes one source; that is a
  statement about the cardinality of the set of new UUIDs, hence the hypothesis
  that `SourceIds` is finite, as UUIDs are.
- `GaugeInv` says by how much the gauge may fall short of the live rows at each
  point of a request (`GaugeOK`), over a table of finitely many rows. Live are the rows in
  neither DELETED nor ERROR: where nothing times out (`NoTimeout`), only a failed
  create leaves ERROR, and it was never counted.

`CostProviderRefinesProofs` proves `Implements`: `Spec => ImplementsRegistry`. One
lemma per action (`ReserveBar` ... `CrashBar`) shows that its step is a step of the
registry or leaves the mapped variables alone; they rest on `WithBar`, `UpdateBar`
and `OwedBar` (what a write of the table or of a worker's memory does to the
mapping) and on `DebtAt` (what a program point owes). The invariant is `Inv`, which
gives the reconciler a row that exists, with `LookUpsStamped`: a create that is
about to look its cluster up has a stamp within the bound.

`CostApiProofs` proves

| Theorem | States |
|---|---|
| `RegistrySound` | in `CostRegistry` a cluster has one row, and a write that is owed hits a row of its own cluster (`RegistryInv`) |
| `ApiImplementsRegistry` | every step of `CostApi` is one of `CostRegistry` or none of its business |
| `IdsMeanTheirClusters` | `KnownIdsResolve` |

The last follows from the other two: a 201 names a row that its create owes, so
the row exists and is of the create's cluster; `RegistryKeeps` shows that no step
removes a row or changes its cluster.

`CostApiReaderProofs` proves the other invariants of `CostApi`, for any ids (also
"health"), clusters, readers, writers and sizes of pages, with failing SQL, a slow Koku
and restarts. The last two are about the kinds of complaints that do arise, and say when:

| Theorem | Property |
|---|---|
| `AnswersReadable` | `AnswersAreReadable` |
| `AnswersAboutAsked` | `AnswerIsAboutAsked` |
| `WalksMissNothing` | `WalkComplete` |
| `TokensLead` | `TokensLeadSomewhere` |
| `ApiTypeCorrect` | `TypeOK` |
| `OnlyHealthHidden` | `ServedAsMeant`, if no instance is named "health": every call is served by the handler it was meant for |
| `UnreadableRefusals` | of all refusals, clients can read the 400s of validation to `listInstances` and `createInstance` alone |

- *Answers.* `HomeFits` and `OthersDoNotFit` show for every id which routes a
  request fits, `RoutedHome` that chi's choice among them is the operation's own (except
  for the GET of an instance "health"), and `ServedAlike` that it is always one whose
  requests look the same. `HandlersReadable` compares the statuses that the handlers say
  (`Answers`) with the tables of `ApiContract`. Together they leave no complaints but `Known`:
  "refused", and "hidden" if there is an id "health". None of this says anything about a report
  whose cluster was read before the call to Koku: for that, `ReadersInv` has
  `Reported` (what a waiting reader holds is what the row has), which rests on `RowsKept`.
- *Walks.* `WalkComplete` is far from inductive. `Onward` relates a reader's token, what is
  owed to it, its count and the table: every row that is owed is in the table at a
  place not before the token (`Ahead`), and when rows are owed on what the count made the
  last page, there are no more rows than were counted (`Counted`). Places only
  rise for a row that is owed (`PlaceRises`): an INSERT comes before all others
  (`PushedWalks`), and a Save moves a row past those it is `Displaced` by (`SavedWalks`). The
  latter needs that no two rows are stamped alike, which needs the same of the
  creates on their way: `StampsInv` says that a create's stamp is its own, before it looks
  for its cluster's row (`PendingStamped`) and while it owes a write (`WritesStamped`).
- *Tokens.* The count is at most the number of rows, which never falls (`TableGrows`).

`HealthCacheProofs` proves that `TypeOK` and `CacheEvidence` are inductive
(`EvidenceAlways`) and that "healthy" is therefore recent (`RecentAlways`), for
any number of concurrent requests and any durations.

`KokuRetryProofs` proves `EndsByDeadline` (`NeverOutlivesContext`) and the refinement
of `KokuCall` (`RetryImplementsCall`), both from `CountInv`, which counts executions: at most
one per attempt, the present one included. It also proves `TypeOK` (`RetryTypeCorrect`)
and `EndsInTime` (`EndsByItself`), for any base and number of attempts: `TimeInv` bounds the
clock by the attempts and backoffs so far (`OverBy`). The provers know no exponentiation;
that 2^(n+1) is twice 2^n comes from the subsets of a set of n elements (`PowerDoubles`).

`ServerLifecycleProofs` proves `TypeOK` (`LifeTypes`), `RegisteredOnceAnswering`
(`ToldOnceAnswering`) and `ExitsInTime` (`GoneInTime`). `TypeOK` alone is not inductive: `PhaseInv` says when
a probe can be under way. `ProbeInv` says what the prober waits for: a cached
result or a handler that will store one when the answer comes. `StopInv` holds what main
may still take (`exitIn`) against what it still does, from the opening to the drain. No bound
on the opening itself is assumed: what is proved is that nothing is added to it.

Assumptions: `None` is none of the ids, UUIDs and statuses, and no page token; the kinds of spec are
the three there are; bounds are naturals and switches Booleans; the cache's life
and the number of attempts are positive; an inherited table is one an earlier life
can have left: finite, and with no stamp later than the clock (a host's clock that was
set back in between is not considered). TLC evaluates them in the runs.

**Only model-checked.** Every invariant that a passing run checks is proved, and so are
`RowsPersist` and the refinements. What is left is liveness (`ProvisioningResolves`, `MeteredIsNoticed`,
`Exits`, `StartsUp`): fairness and ENABLED are beyond the prover. The four disagreements of section 6
are counterexamples, which TLC finds and a proof could not.

## 5. What is not modelled

- Encoding, wording and logging. The patterns and schemas that validation compares
  with are one flaw each (`Flaws`); what they accept is not modelled.
- SQLite itself: it is taken as a table whose statements are atomic.
- A panic in a handler: the recovery middleware answers 500 and the request ends as a
  crash of that goroutine would. No handler of the models panics.
- Counters and labels of the metrics: they only grow, or are a function of one
  string. The gauge is in `CostProvider`.
- The parsing of the configuration: its values are CONSTANTS, and a bad one ends
  the process (`StartFails`).
- Of the generated code, the types and the embedded document (data), and what differs
  between operations only in the names of parameters.
- The bodies of Koku's and DCM's answers.

## 6. Where code and documents disagree

Each has a run whose counterexample shows it.

- `double_metering`: a provision that timed out is retried; the first source is
  never paused, and Koku meters the cluster through two.
- `resurrection`: a Save or a status decided before a deletion revives the row.
- `every_instance`: a bad currency is refused after the reservation; the row stays
  PROVISIONING for ever, and the cluster is answered 409.
- `hung_koku`: with a Koku that accepts and does not answer, the readiness probe
  gives up; the process serves for good without registrar and reconciler. (The
  deadline and the ticker fall due together; `select` may also pick the ticker and
  succeed.)

Others need no run, being plain from the code or from a property that holds:

- ADR 002 line 16 says a deleted row retains its UUIDs and creation time; a
  take-over overwrites both (`handler.go:145-148`).
- ADR 004 line 22 says a call's latency stays under 10 s; that counts the backoffs
  alone. The bound that holds (`EndsInTime`) is 97 s.
- A pause that fails is only logged, and a second delete does nothing
  (`handler.go:299-313`); `DeletedIsReleased` therefore holds only without
  Koku's failures.
- The gauge counts a row twice when one that timed out is taken over, and starts from
  zero with the process. A failed create was never counted. `GaugeNeverOvercounts` says what is left of it.
- A row in PROVISIONING can be deleted while its create still runs, and taken
  over by another: two creates then work on one row. The invariants of
  `concurrent` are what survives.
- READY, decided on a copy, can be written over a row that was deleted and
  reset in between: the instance then has no source or one without data.
  `ReadyOnlyWithClusterData` is what survives; the cause is that of `resurrection`.
- `openapi.yaml` line 101 promises a list of "all cost instances". Pages are cut by offset, newest first: a
  row that a take-over restamps between two pages can be missed (`handler.go:145-148`, 249-282), and so can the
  rest of the list when a count fails (`store.go:76`), or the last row of a page that was the last one
  when an INSERT follows the count (`store.go:73`). `WalkComplete` gives these away; that nothing
  else is missed is what it shows.
- A client that names an id is given another one when its create takes a row over
  (`handler.go:145-154`); a second create under the name it chose then finds that id free or another's.
- The pattern of ids (`openapi.yaml:368`) allows "health", and the static route
  (`server.gen.go:847`) hides that instance's GET, which line 145 of `openapi.yaml` describes as
  returning "the details of a specific cost instance". `ServedAsMeant` is therefore false of
  such an instance, and of no other (`OnlyHealthHidden`).
- Validation answers 400 to operations that declare none, `getInstance` for one
  (`openapi.yaml` lines 150-168; `middleware.go:104`); the body limit answers `createInstance`
  with an undeclared 413 (`middleware.go:84-86`); the strict server answers a body that it cannot
  decode in plain text (`server.gen.go:1345-1346`, 1397). The generated client has no field for
  any of them (`UnreadableRefusals`).
- With a write timeout of 15 s and a request timeout of 30 s (`config.go:17-19`) a
  client can lose the answer to a create that succeeds. The id it was to be told still means its
  cluster (`KnownIdsResolve`).
- A signal that comes while the database or NATS opens is only noted (`main.go:60`): the process
  then stops later than its timeouts of 15 s and 5 s alone would say, by the rest of the opening.
- Two retries that meet an ERROR row together can both take it over, each with a
  source of its own.
- The comment and the table of known routes (`metrics.go:79, 106`) name `cost-report`; the route is
  `cost-reports`, which is labelled as an id. A request whose handler panics is
  counted by neither metric, since `Middleware` (`metrics.go:58-66`) counts without `defer`. The
  label of a call to Koku may contain the query of a report, cluster included.
- A poll interval that is not positive makes `NewTicker` panic (`reconciler.go:55`).
- `docs/audit/adversarial-review-v2.md` lists as known: an invalid page token starts
  again at the first page (NEW-04, line 122; `DecodePageToken`), an oversized answer is a 502 (NEW-07,
  line 164), a timed-out source stays active (NEW-09, line 192; see `double_metering`).

## 7. Plan

1. **Done.** The core (`InstanceStore`, `CostProvider`) with its safety, its
   liveness and its proofs; the abstract registry that it implements, with the proof; every
   operation of the interface on that registry, from the generated client to its
   answers, with the proofs of what its clients are told; the client's retry, the health cache and the
   life of the process with the proofs of their safety; the conditional results on the core.
2. **More of the system**: several lives of the process in one, `ServerLifecycle`
   restarting on the table of `CostProvider`; the recovery of panics.
3. **More proofs**: what survives of the conditional results when requests overlap
   (which deletions still release, by how much the gauge can be off); that requests which are refused
   change nothing.
