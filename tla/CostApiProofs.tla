------------------------------ MODULE CostApiProofs ------------------------------
(****************************************************************************)
(* What CostRegistry promises follows from its steps, for all sets of ids,  *)
(* clusters and workers; CostApi is built on it and keeps those promises,   *)
(* and so an id that a client was given means its cluster for ever.         *)
(****************************************************************************)
EXTENDS CostApi, TLAPS

\* A write that is owed will hit a row that exists, with the cluster it has.
Placed(d, debt) ==
  debt.kind \in {"reset", "create"} => /\ debt.id \in DOMAIN d
                                       /\ d[debt.id].target = debt.row.target

Debts == {NoDebt} \cup CreateDebt \cup DeleteDebt

RegistryInv == /\ IsRegistry(rows)
               /\ owed \in [Workers -> Debts]
               /\ \A w \in Workers : Placed(rows, owed[w])

\* Rows stay, and keep their clusters.
RowsKept == \A i \in DOMAIN rows : /\ i \in DOMAIN rows'
                                   /\ rows'[i].target = rows[i].target

------------------------------------------------------------------------------
(* The registry *)

\* The row of a vacant cluster is added.
LEMMA CreateKeeps ==
  ASSUME IsRegistry(rows), NEW i \in Ids, NEW t \in Targets, NEW r \in Entry,
         r.target = t, Vacant(rows, i, t), rows' = Create(rows, i, r)
  PROVE  IsRegistry(rows') /\ RowsKept /\ i \in DOMAIN rows' /\ rows'[i] = r
  BY DEF IsRegistry, Vacant, Create, With, RowsKept

\* A row is overwritten by one of its own cluster.
LEMMA SaveKeeps ==
  ASSUME IsRegistry(rows), NEW i \in DOMAIN rows, NEW r \in Entry,
         r.target = rows[i].target, rows' = Save(rows, i, r)
  PROVE  IsRegistry(rows') /\ RowsKept
<1>1. DOMAIN rows' = DOMAIN rows /\ \A j \in DOMAIN rows : rows'[j] \in Entry
  BY DEF IsRegistry, Save, With
<1>2. \A j \in DOMAIN rows : rows'[j].target = rows[j].target
  BY DEF Save, With
<1>3. rows' \in [DOMAIN rows' -> Entry]
  BY <1>1 DEF Save, With
<1> QED  BY <1>1, <1>2, <1>3 DEF IsRegistry, RowsKept

\* A status changes nothing else.
LEMMA UpdateKeeps ==
  ASSUME IsRegistry(rows), NEW i, NEW s \in Status, rows' = UpdateStatus(rows, i, s)
  PROVE  IsRegistry(rows') /\ RowsKept
<1>1. DOMAIN rows' = DOMAIN rows /\ \A j \in DOMAIN rows : rows[j] \in Entry
  BY DEF IsRegistry, UpdateStatus
<1>2. \A j \in DOMAIN rows : rows'[j] \in Entry /\ rows'[j].target = rows[j].target
  BY <1>1 DEF UpdateStatus, Entry
<1>3. rows' \in [DOMAIN rows' -> Entry]
  BY <1>1, <1>2 DEF UpdateStatus
<1> QED  BY <1>1, <1>2, <1>3 DEF IsRegistry, RowsKept

\* What is owed is well placed after a step of w that keeps the rows.
LEMMA OweKeeps ==
  ASSUME RegistryInv, IsRegistry(rows'), RowsKept, NEW w \in Workers,
         NEW debt \in Debts, Owe(w, debt), Placed(rows', debt)
  PROVE  RegistryInv'
<1>1. owed' \in [Workers -> Debts]
  BY DEF RegistryInv, Owe
<1>2. \A v \in Workers : Placed(rows, owed[v]) => Placed(rows', owed[v])
  BY DEF RowsKept, Placed
<1>3. \A v \in Workers : owed'[v] = IF v = w THEN debt ELSE owed[v]
  BY DEF RegistryInv, Owe
<1>4. \A v \in Workers : Placed(rows', owed'[v])
  BY <1>2, <1>3 DEF RegistryInv
<1> QED  BY <1>1, <1>4 DEF RegistryInv

\* The debts of creates and deletes, by kind.
LEMMA DebtType ==
  ASSUME RegistryInv, NEW w \in Workers
  PROVE  /\ owed[w].kind \in {"reset", "create"} =>
              /\ owed[w] \in CreateDebt
              /\ owed[w].id \in DOMAIN rows
              /\ owed[w].row \in Entry
              /\ owed[w].row.target = rows[owed[w].id].target
         /\ owed[w].kind = "delete" => owed[w] \in DeleteDebt
<1>1. owed[w] \in Debts /\ Placed(rows, owed[w])
  BY DEF RegistryInv
<1> QED  BY <1>1 DEF Debts, NoDebt, CreateDebt, DeleteDebt, Placed

\* No debt is always well placed.
LEMMA NoDebtPlaced == NoDebt \in Debts /\ \A d : Placed(d, NoDebt)
  BY DEF Debts, NoDebt, Placed

\* A worker's step.
LEMMA WorkerKeeps ==
  ASSUME RegistryInv, NEW w \in Workers, WorkerStep(w)
  PROVE  RegistryInv' /\ RowsKept
<1>1. IsRegistry(rows)
  BY DEF RegistryInv
<1>2. UNCHANGED rows => IsRegistry(rows') /\ RowsKept
  BY <1>1 DEF RowsKept
<1>3. ASSUME NEW i \in Ids, NEW t \in Targets, NEW s \in Stamps, ReserveRow(w, i, t, s)
      PROVE  RegistryInv' /\ RowsKept
  <2> DEFINE r    == Fresh(t, s)
             debt == [kind |-> "create", id |-> i, row |-> r]
  <2>1. r \in Entry /\ r.target = t
    BY DEF Fresh, Entry, Status
  <2>2. IsRegistry(rows') /\ RowsKept /\ i \in DOMAIN rows' /\ rows'[i] = r
    BY <1>1, <1>3, <2>1, CreateKeeps DEF ReserveRow
  <2>3. debt \in Debts /\ Placed(rows', debt)
    BY <2>1, <2>2 DEF Debts, CreateDebt, Placed
  <2> QED  BY <1>3, <2>2, <2>3, OweKeeps DEF ReserveRow
<1>4. ASSUME NEW i \in Ids, NEW t \in Targets, NEW s \in Stamps, TakeOver(w, i, t, s)
      PROVE  RegistryInv' /\ RowsKept
  <2> DEFINE r    == Fresh(t, s)
             debt == [kind |-> "reset", id |-> i, row |-> r]
  <2>1. r \in Entry /\ r.target = t
    BY DEF Fresh, Entry, Status
  <2>2. i \in DOMAIN rows' /\ rows'[i].target = t
    BY <1>4 DEF TakeOver, GetByTarget
  <2>3. debt \in Debts /\ Placed(rows', debt)
    BY <2>1, <2>2 DEF Debts, CreateDebt, Placed
  <2> QED  BY <1>2, <1>4, <2>3, OweKeeps DEF TakeOver
<1>5. ASSUME NEW i \in Ids, Condemn(w, i)
      PROVE  RegistryInv' /\ RowsKept
  <2> DEFINE debt == [kind |-> "delete", id |-> i]
  <2>1. debt \in Debts /\ Placed(rows', debt)
    BY DEF Debts, DeleteDebt, Placed
  <2> QED  BY <1>2, <1>5, <2>1, OweKeeps DEF Condemn
<1>6. CASE ResetRow(w)
  <2> DEFINE debt == [owed[w] EXCEPT !.kind = "create"]
  <2>1. /\ owed[w] \in CreateDebt /\ owed[w].id \in DOMAIN rows
        /\ owed[w].row \in Entry /\ owed[w].row.target = rows[owed[w].id].target
    BY <1>6, DebtType DEF ResetRow, Owes
  <2>2. IsRegistry(rows') /\ RowsKept
    BY <1>1, <1>6, <2>1, SaveKeeps DEF ResetRow
  <2>3. debt \in CreateDebt /\ debt.id = owed[w].id /\ debt.row = owed[w].row
    BY <2>1 DEF CreateDebt
  <2>4. Owe(w, debt)
    BY <1>6 DEF ResetRow
  <2> HIDE DEF debt
  <2>5. debt \in Debts /\ Placed(rows', debt)
    BY <2>1, <2>2, <2>3 DEF Debts, Placed, RowsKept
  <2> QED  BY <2>2, <2>4, <2>5, OweKeeps
<1>7. CASE Complete(w)
  <2>1. /\ owed[w].id \in DOMAIN rows /\ owed[w].row \in Entry
        /\ owed[w].row.target = rows[owed[w].id].target
    BY <1>7, DebtType DEF Complete, Owes
  <2>2. IsRegistry(rows') /\ RowsKept
    BY <1>1, <1>7, <2>1, SaveKeeps DEF Complete
  <2> QED  BY <1>7, <2>2, NoDebtPlaced, OweKeeps DEF Complete
<1>8. CASE Fail(w) \/ Remove(w)
  <2>1. IsRegistry(rows') /\ RowsKept
    BY <1>1, <1>8, UpdateKeeps DEF Fail, Remove, Status
  <2> QED  BY <1>8, <2>1, NoDebtPlaced, OweKeeps DEF Fail, Remove
<1> QED  BY <1>3, <1>4, <1>5, <1>6, <1>7, <1>8 DEF WorkerStep

\* Every step.
LEMMA RegistryKeeps ==
  ASSUME RegistryInv, [RegistryNext]_registryVars
  PROVE  RegistryInv' /\ RowsKept
<1>1. ASSUME NEW i \in Ids, NEW s \in {"READY", "ERROR"}, Judge(i, s)
      PROVE  RegistryInv' /\ RowsKept
  <2>1. IsRegistry(rows') /\ RowsKept
    BY <1>1, UpdateKeeps DEF Judge, RegistryInv, Status
  <2>2. \A w \in Workers : Placed(rows', owed[w])
    BY <2>1 DEF RegistryInv, RowsKept, Placed
  <2> QED  BY <1>1, <2>1, <2>2 DEF Judge, RegistryInv
<1>2. ASSUME NEW S \in SUBSET Workers, Abandon(S)
      PROVE  RegistryInv' /\ RowsKept
  <2>1. owed' \in [Workers -> Debts]
    BY <1>2, NoDebtPlaced DEF Abandon, RegistryInv
  <2>2. \A w \in Workers : Placed(rows, owed'[w])
    BY <1>2, NoDebtPlaced DEF Abandon, RegistryInv
  <2> QED  BY <1>2, <2>1, <2>2 DEF Abandon, RegistryInv, RowsKept
<1>3. CASE UNCHANGED registryVars
  BY <1>3 DEF registryVars, RegistryInv, RowsKept
<1> QED  BY <1>1, <1>2, <1>3, WorkerKeeps DEF RegistryNext

\* Any table the registry may start with will do.
LEMMA RegistryStarts == RegistryInit => RegistryInv
  BY NoDebtPlaced DEF RegistryInit, RegistryInv

\* The abstract specification keeps at most one row per cluster and places every
\* write it owes, whatever its workers do (handler.go:125-213).
THEOREM RegistrySound == RegistrySpec => []RegistryInv
<1>1. RegistryInv /\ [RegistryNext]_registryVars => RegistryInv'
  BY RegistryKeeps
<1> QED  BY <1>1, RegistryStarts, PTL DEF RegistrySpec

------------------------------------------------------------------------------
(* The interface *)

\* A create whose INSERT failed goes on with a row of its own.
LookupTyped == clock \in Nat /\ lookup \in [Workers -> {NoRow} \cup Entry]

ApiInv == RegistryInv /\ LookupTyped /\ KnownIdsResolve

\* A bare status tells no id.
LEMMA SayStatusTells ==
  ASSUME NEW op, NEW id, NEW status, SayStatus(op, id, status)
  PROVE  known' = known
  BY DEF SayStatus, Say

\* The requests that do not touch the registry.
LEMMA ReadersTell ==
  ASSUME \/ \E op \in Operations : \E refusal \in Refusals(op) : Refuse(op, refusal)
         \/ \E op \in InstanceOps, i \in Ids : GetHealth(op, i) \/ GetInstance(op, i)
         \/ \E c \in Readers :
              \/ \E op \in ReportOps, i \in Focus : ReadCluster(c, op, i)
              \/ Proxy(c) \/ CountRows(c) \/ FindRows(c)
         \/ \E w \in Workers : RefuseTarget(w)
         \/ UNCHANGED vars
  PROVE  UNCHANGED <<registryVars, clock, lookup>> /\ known' = known
<1> USE DEF readVars, callVars, registryVars, Silent, Late, SayStatus, Say
<1>1. ASSUME NEW op, NEW refusal, Refuse(op, refusal)
      PROVE  UNCHANGED <<registryVars, clock, lookup>> /\ known' = known
  BY <1>1 DEF Refuse
<1>2. ASSUME NEW op, NEW i, GetHealth(op, i) \/ GetInstance(op, i)
      PROVE  UNCHANGED <<registryVars, clock, lookup>> /\ known' = known
  BY <1>2 DEF GetHealth, GetInstance
<1>3. ASSUME NEW c, NEW op, NEW i, ReadCluster(c, op, i)
      PROVE  UNCHANGED <<registryVars, clock, lookup>> /\ known' = known
  BY <1>3 DEF ReadCluster
<1>4. ASSUME NEW c, Proxy(c)
      PROVE  UNCHANGED <<registryVars, clock, lookup>> /\ known' = known
  BY <1>4 DEF Proxy
<1>5. ASSUME NEW c, CountRows(c)
      PROVE  UNCHANGED <<registryVars, clock, lookup>> /\ known' = known
  BY <1>5 DEF CountRows
<1>6. ASSUME NEW c, FindRows(c)
      PROVE  UNCHANGED <<registryVars, clock, lookup>> /\ known' = known
  BY <1>6 DEF FindRows
<1>7. ASSUME NEW w, RefuseTarget(w)
      PROVE  UNCHANGED <<registryVars, clock, lookup>> /\ known' = known
  BY <1>7 DEF RefuseTarget
<1>8. CASE UNCHANGED vars
  BY <1>8 DEF vars
<1> QED  BY <1>1, <1>2, <1>3, <1>4, <1>5, <1>6, <1>7, <1>8

\* An INSERT reserves, is followed by a look-up, or fails.
LEMMA InsertStep ==
  ASSUME ApiInv, NEW w \in Workers, NEW i \in Ids, NEW t \in Targets, Insert(w, i, t)
  PROVE  [RegistryNext]_registryVars /\ LookupTyped' /\ known' = known
<1>1. clock + 1 \in Stamps /\ clock' = clock + 1 /\ clock' \in Nat
  BY StampsAreTimes, ClockAssumption DEF ApiInv, LookupTyped, Insert
<1>2. CASE ReserveRow(w, i, t, clock + 1) /\ Silent /\ UNCHANGED lookup
  <2>1. RegistryNext
    BY <1>1, <1>2 DEF RegistryNext, WorkerStep
  <2> QED  BY <1>1, <1>2, <2>1 DEF Silent, ApiInv, LookupTyped
<1>3. CASE /\ lookup' = [lookup EXCEPT ![w] = Fresh(t, clock + 1)]
           /\ Silent /\ UNCHANGED <<rows, owed>>
  <2>1. Fresh(t, clock + 1) \in Entry
    BY <1>1 DEF Fresh, Entry, Status
  <2> QED  BY <1>1, <1>3, <2>1 DEF Silent, ApiInv, LookupTyped, registryVars
<1>4. CASE SayStatus("createInstance", i, 500) /\ UNCHANGED <<rows, owed, lookup>>
  BY <1>1, <1>4, SayStatusTells DEF ApiInv, LookupTyped, registryVars
<1> QED  BY <1>2, <1>3, <1>4 DEF Insert

\* The look-up takes over or refuses.
LEMMA LookUpTargetStep ==
  ASSUME ApiInv, NEW w \in Workers, LookUpTarget(w)
  PROVE  [RegistryNext]_registryVars /\ LookupTyped' /\ known' = known
<1>1. lookup[w] \in Entry
  BY DEF ApiInv, LookupTyped, LookUpTarget
<1>2. lookup[w].target \in Targets /\ lookup[w].createdAt \in Stamps
  BY <1>1 DEF Entry
<1>3. LookupTyped'
  BY DEF ApiInv, LookupTyped, LookUpTarget
<1>4. ASSUME NEW i \in GetByTarget(rows, lookup[w].target),
             TakeOver(w, i, lookup[w].target, lookup[w].createdAt), Silent
      PROVE  RegistryNext /\ known' = known
  <2>1. i \in Ids
    BY DEF GetByTarget, ApiInv, RegistryInv, IsRegistry
  <2> QED  BY <1>2, <1>4, <2>1 DEF RegistryNext, WorkerStep, Silent
<1>5. ASSUME NEW status \in {409, 500}, SayStatus("createInstance", None, status),
             UNCHANGED <<rows, owed>>
      PROVE  [RegistryNext]_registryVars /\ known' = known
  BY <1>5, SayStatusTells DEF registryVars
<1> QED  BY <1>3, <1>4, <1>5 DEF LookUpTarget

\* Creates and deletes settle what they owe; only a 201 tells an id.
LEMMA SettleStep ==
  ASSUME ApiInv, NEW w \in Workers,
         Reset(w) \/ FailCreate(w) \/ RefuseCurrency(w) \/ FinishDelete(w)
  PROVE  [RegistryNext]_registryVars /\ LookupTyped' /\ known' = known
<1>1. LookupTyped'
  BY DEF ApiInv, LookupTyped, Reset, FailCreate, RefuseCurrency, FinishDelete, callVars
<1>2. known' = known
  BY DEF Reset, FailCreate, RefuseCurrency, FinishDelete, Late, Silent, SayStatus, Say
<1>3. ResetRow(w) \/ Fail(w) \/ Remove(w) \/ Abandon({w})
  BY DEF Reset, FailCreate, RefuseCurrency, FinishDelete, Unsettled
<1>4. RegistryNext
  BY <1>3 DEF RegistryNext, WorkerStep
<1> QED  BY <1>1, <1>2, <1>4

\* The id of a 201 is that of the row that the create owes.
LEMMA FinishCreateStep ==
  ASSUME ApiInv, NEW w \in Workers, FinishCreate(w)
  PROVE  /\ [RegistryNext]_registryVars
         /\ LookupTyped'
         /\ \A k \in known' : \/ k \in known
                              \/ /\ k[1] \in DOMAIN rows
                                 /\ rows[k[1]].target = k[2]
<1>1. LookupTyped'
  BY DEF ApiInv, LookupTyped, FinishCreate, callVars
<1>2. RegistryNext
  BY DEF FinishCreate, Unsettled, RegistryNext, WorkerStep
<1>3. known' \subseteq known \cup {<<owed[w].id, owed[w].row.target>>}
  BY DEF FinishCreate
<1>4. owed[w].id \in DOMAIN rows /\ owed[w].row.target = rows[owed[w].id].target
  BY DebtType DEF FinishCreate, Owes, ApiInv
<1> QED  BY <1>1, <1>2, <1>3, <1>4

\* A delete is decided or refused; verdicts and restarts tell nobody anything.
LEMMA OthersStep ==
  ASSUME ApiInv,
         \/ \E w \in Workers, i \in Ids : StartDelete(w, i)
         \/ Reconcile \/ Restart
  PROVE  [RegistryNext]_registryVars /\ LookupTyped' /\ known' = known
<1>1. ASSUME NEW w \in Workers, NEW i \in Ids, StartDelete(w, i)
      PROVE  [RegistryNext]_registryVars /\ LookupTyped' /\ known' = known
  BY <1>1 DEF StartDelete, SayStatus, Say, Silent, callVars, ApiInv, LookupTyped,
     RegistryNext, WorkerStep, registryVars
<1>2. CASE Reconcile
  BY <1>2, FocusAssumption DEF Reconcile, Silent, callVars, ApiInv, LookupTyped,
     RegistryNext
<1>3. CASE Restart
  BY <1>3 DEF Restart, Silent, ApiInv, LookupTyped, RegistryNext
<1> QED  BY <1>1, <1>2, <1>3

\* Every step of the interface is one of the registry's, and tells no more than
\* it should.
LEMMA ApiStep ==
  ASSUME ApiInv, [Next]_vars
  PROVE  /\ [RegistryNext]_registryVars
         /\ LookupTyped'
         /\ \A k \in known' : \/ k \in known
                              \/ /\ k[1] \in DOMAIN rows
                                 /\ rows[k[1]].target = k[2]
<1>1. CASE UNCHANGED <<registryVars, clock, lookup>> /\ known' = known
  BY <1>1 DEF ApiInv, LookupTyped
<1>2. CASE \E w \in Workers : \E i \in Ids, t \in Targets : Insert(w, i, t)
  BY <1>2, InsertStep
<1>3. CASE \E w \in Workers : LookUpTarget(w)
  BY <1>3, LookUpTargetStep
<1>4. CASE \E w \in Workers : Reset(w) \/ FailCreate(w) \/ RefuseCurrency(w) \/ FinishDelete(w)
  BY <1>4, SettleStep
<1>5. CASE \E w \in Workers : FinishCreate(w)
  BY <1>5, FinishCreateStep
<1>6. CASE \/ \E w \in Workers, i \in Ids : StartDelete(w, i)
           \/ Reconcile \/ Restart
  BY <1>6, OthersStep
<1> QED  BY <1>1, <1>2, <1>3, <1>4, <1>5, <1>6, ReadersTell DEF Next

\* The strengthening holds throughout.
LEMMA ApiAlways == Spec => []ApiInv
<1>1. Init => ApiInv
  BY RegistryStarts, ClockAssumption
  DEF Init, ApiInv, LookupTyped, KnownIdsResolve
<1>2. ASSUME ApiInv, [Next]_vars
      PROVE  ApiInv'
  <2>1. RegistryInv' /\ RowsKept
    BY <1>2, ApiStep, RegistryKeeps DEF ApiInv
  <2>2. KnownIdsResolve'
    BY <1>2, <2>1, ApiStep DEF ApiInv, KnownIdsResolve, RowsKept
  <2> QED  BY <1>2, <2>1, <2>2, ApiStep DEF ApiInv
<1> QED  BY <1>1, <1>2, PTL DEF Spec

\* The id of a 201, arrived or lost, means the same cluster for ever, whichever row a
\* create took over and whoever deletes, retries or restarts (handler.go:145-154,
\* 209-232, config.go:19).
THEOREM IdsMeanTheirClusters == Spec => []KnownIdsResolve
<1>1. ApiInv => KnownIdsResolve
  BY DEF ApiInv
<1> QED  BY <1>1, ApiAlways, PTL

\* What clients can do through the interface is what the registry allows.
THEOREM ApiImplementsRegistry == Spec => RegistrySpec
<1>1. Init => RegistryInit
  BY DEF Init
<1>2. ApiInv /\ [Next]_vars => [RegistryNext]_registryVars
  BY ApiStep
<1> QED  BY <1>1, <1>2, ApiAlways, PTL DEF Spec, RegistrySpec
================================================================================
