------------------------ MODULE CostProviderRefinesProofs ------------------------
(****************************************************************************)
(* CostProvider implements CostRegistry, for every set of ids, clusters and *)
(* workers, every bound and every choice of faults.  The mapping keeps of a *)
(* row its cluster, status and stamp, and of a worker the write its program *)
(* point commits it to; all that has to be known besides Inv is the stamp   *)
(* of a create that is about to look its cluster up.                        *)
(****************************************************************************)
EXTENDS CostProviderRefines, CostProviderProofs

\* A create at its look-up was accepted and stamped.
LookUpsStamped ==
  \A w \in Workers : At(w, "lookup") => req[w].row.createdAt \in 1 .. MaxRequests

RefInv == Inv /\ LookUpsStamped

------------------------------------------------------------------------------
(* The mapping *)

\* Writing a row and writing its listing are the same.
LEMMA WithBar ==
  ASSUME NEW i, NEW r, db' = With(db, i, r)
  PROVE  rowsBar' = Registry!With(rowsBar, i, Listing(r))
  BY DEF rowsBar, With, Registry!With

\* So are the two status updates.
LEMMA UpdateBar ==
  ASSUME IsTable(db), NEW i, NEW s, db' = UpdateStatus(db, i, s)
  PROVE  rowsBar' = Registry!UpdateStatus(rowsBar, i, s)
<1>1. \A j \in DOMAIN db : Listing([db[j] EXCEPT !.status = s]) =
                             [Listing(db[j]) EXCEPT !.status = s]
  BY DEF IsTable, CostInstance, Listing
<1>2. rowsBar' = [j \in DOMAIN db |-> Listing(IF j = i THEN [db[j] EXCEPT !.status = s]
                                                       ELSE db[j])]
  BY DEF rowsBar, UpdateStatus
<1>3. Registry!UpdateStatus(rowsBar, i, s) =
        [j \in DOMAIN db |-> IF j = i THEN [Listing(db[j]) EXCEPT !.status = s]
                                      ELSE Listing(db[j])]
  BY DEF rowsBar, Registry!UpdateStatus
<1> QED  BY <1>1, <1>2, <1>3

\* A step of w changes what w owes, and no one else's debt.
LEMMA OwedBar ==
  ASSUME TypeOK, NEW w \in Workers, NEW h, req' = [req EXCEPT ![w] = h]
  PROVE  owedBar' = [owedBar EXCEPT ![w] = Debt(h)]
<1>1. req \in [Workers -> {IdleRequest} \cup BusyRequest]
  BY DEF TypeOK, WorkerTypeOK
<1>2. \A v \in Workers : req'[v] = IF v = w THEN h ELSE req[v]
  BY <1>1
<1>3. \A v \in Workers : Debt(req'[v]) = IF v = w THEN Debt(h) ELSE Debt(req[v])
  BY <1>2
<1>4. owedBar = [v \in Workers |-> Debt(req[v])]
  BY DEF owedBar
<1>5. owedBar' = [v \in Workers |-> IF v = w THEN Debt(h) ELSE Debt(req[v])]
  BY <1>3 DEF owedBar
<1> QED  BY <1>4, <1>5

\* What is mapped of an unchanged table or request is unchanged.
LEMMA BarsUnchanged ==
  /\ UNCHANGED db => UNCHANGED rowsBar
  /\ UNCHANGED req => UNCHANGED owedBar
  BY DEF rowsBar, owedBar

\* A step of w on its own memory alone, which leaves its debt or drops it.
LEMMA Quiet ==
  ASSUME TypeOK, NEW w \in Workers, NEW h,
         req' = [req EXCEPT ![w] = h], UNCHANGED db,
         Debt(h) = Debt(req[w]) \/ Debt(h) = Registry!NoDebt
  PROVE  Registry!RegistryNext \/ UNCHANGED <<rowsBar, owedBar>>
<1>1. rowsBar' = rowsBar
  BY BarsUnchanged
<1>2. owedBar' = [owedBar EXCEPT ![w] = Debt(h)]
  BY OwedBar
<1>3. owedBar = [v \in Workers |-> Debt(req[v])]
  BY DEF owedBar
<1>4. CASE Debt(h) = Debt(req[w])
  BY <1>1, <1>2, <1>3, <1>4
<1>5. CASE Debt(h) = Registry!NoDebt
  <2>1. Registry!Abandon({w})
    BY <1>1, <1>2, <1>3, <1>5 DEF Registry!Abandon
  <2> QED  BY <2>1 DEF Registry!RegistryNext
<1> QED  BY <1>4, <1>5

\* What a worker holds stays its own when it moves on, and what is mapped of it.
LEMMA DebtAt ==
  ASSUME NEW h
  PROVE  /\ h.pc = "reset" =>
              Debt(h) = [kind |-> "reset", id |-> h.id, row |-> Listing(h.row)]
         /\ h.pc \in {"createSource", "markFailed", "createModel", "save"} =>
              Debt(h) = [kind |-> "create", id |-> h.id, row |-> Listing(h.row)]
         /\ h.pc \in {"dropModel", "pause", "markDeleted"} =>
              Debt(h) = [kind |-> "delete", id |-> h.id]
         /\ h.pc \in {"idle", "lookup", "announce", "announceDeleted"} =>
              Debt(h) = Registry!NoDebt
  BY DEF Debt, Registry!NoDebt

\* The memory of a busy worker that goes to pc.
LEMMA Gone ==
  ASSUME TypeOK, NEW w \in Workers, req[w].pc # "idle", NEW pc
  PROVE  /\ [req[w] EXCEPT !.pc = pc].pc = pc
         /\ [req[w] EXCEPT !.pc = pc].id = req[w].id
         /\ [req[w] EXCEPT !.pc = pc].row = req[w].row
<1>1. req[w] \in BusyRequest
  BY BusyType
<1> QED  BY <1>1 DEF BusyRequest

\* The debt of a busy worker that goes to pc.
LEMMA DebtGoto ==
  ASSUME TypeOK, NEW w \in Workers, req[w].pc # "idle", NEW pc
  PROVE  LET h == [req[w] EXCEPT !.pc = pc]
             b == req[w]
         IN  /\ pc \in {"createSource", "markFailed", "createModel", "save"} =>
                   Debt(h) = [kind |-> "create", id |-> b.id, row |-> Listing(b.row)]
             /\ pc \in {"dropModel", "pause", "markDeleted"} =>
                   Debt(h) = [kind |-> "delete", id |-> b.id]
             /\ pc \in {"idle", "lookup", "announce", "announceDeleted"} =>
                   Debt(h) = Registry!NoDebt
<1> DEFINE h == [req[w] EXCEPT !.pc = pc]
<1>1. h.pc = pc /\ h.id = req[w].id /\ h.row = req[w].row
  BY Gone
<1> HIDE DEF h
<1>2. /\ pc \in {"createSource", "markFailed", "createModel", "save"} =>
           Debt(h) = [kind |-> "create", id |-> req[w].id, row |-> Listing(req[w].row)]
      /\ pc \in {"dropModel", "pause", "markDeleted"} =>
           Debt(h) = [kind |-> "delete", id |-> req[w].id]
      /\ pc \in {"idle", "lookup", "announce", "announceDeleted"} =>
           Debt(h) = Registry!NoDebt
  BY <1>1, DebtAt
<1> QED  BY <1>2 DEF h

------------------------------------------------------------------------------
(* The steps of a create *)

\* An accepted create reserves its row, or owes nothing yet.
LEMMA ReserveBar ==
  ASSUME Inv, NEW w \in Workers, NEW i \in Ids, NEW t \in Targets, NEW s \in CostSpecs,
         Reserve(w, i, t, s)
  PROVE  Registry!RegistryNext \/ UNCHANGED <<rowsBar, owedBar>>
<1> DEFINE r    == NewInstance(t)
           h(pc) == [pc |-> pc, id |-> i, spec |-> s, row |-> r]
           n    == served + 1
<1>1. TypeOK
  BY DEF Inv
<1>2. Debt(req[w]) = Registry!NoDebt /\ owedBar[w] = Debt(req[w])
  BY DebtAt DEF Reserve, At, owedBar
<1>3. n \in 1 .. MaxRequests
  BY <1>1, BoundsAssumption DEF Reserve, TypeOK, RestTypeOK
<1>4. Listing(r) = Registry!Fresh(t, n)
  BY DEF Listing, NewInstance, Registry!Fresh
<1>5. CASE /\ Vacant(db, i, t) /\ db' = Create(db, i, r)
           /\ Become(w, h("createSource"))
  <2>1. owedBar' = [owedBar EXCEPT ![w] = Debt(h("createSource"))]
    BY <1>1, <1>5, OwedBar DEF Become
  <2>2. Debt(h("createSource")) =
          [kind |-> "create", id |-> i, row |-> Registry!Fresh(t, n)]
    BY <1>4, DebtAt
  <2>3. rowsBar' = Registry!Create(rowsBar, i, Registry!Fresh(t, n))
    BY <1>4, <1>5, WithBar DEF Create, Registry!Create
  <2>4. Registry!Vacant(rowsBar, i, t)
    BY <1>5 DEF Vacant, Registry!Vacant, rowsBar, Listing
  <2>5. Registry!Owes(w, "none")
    BY <1>2 DEF Registry!Owes, Registry!NoDebt
  <2>6. Registry!Owe(w, [kind |-> "create", id |-> i, row |-> Registry!Fresh(t, n)])
    BY <2>1, <2>2 DEF Registry!Owe
  <2>7. Registry!ReserveRow(w, i, t, n)
    BY <2>3, <2>4, <2>5, <2>6 DEF Registry!ReserveRow
  <2> QED  BY <1>3, <2>7 DEF Registry!RegistryNext, Registry!WorkerStep
<1>6. CASE Become(w, h("lookup")) /\ UNCHANGED db
  <2>1. Debt(h("lookup")) = Registry!NoDebt
    BY DebtAt
  <2> QED  BY <1>1, <1>6, <2>1, Quiet DEF Become
<1> QED  BY <1>5, <1>6 DEF Reserve

\* A reply owes nothing.
LEMMA ReplyBar ==
  ASSUME TypeOK, NEW w \in Workers, Reply(w), UNCHANGED db
  PROVE  Registry!RegistryNext \/ UNCHANGED <<rowsBar, owedBar>>
<1>1. Debt(IdleRequest) = Registry!NoDebt
  BY DebtAt DEF IdleRequest
<1> QED  BY <1>1, Quiet DEF Reply, Become

\* The look-up takes a row over, or the create is refused.
LEMMA LookupBar ==
  ASSUME RefInv, NEW w \in Workers, Lookup(w)
  PROVE  Registry!RegistryNext \/ UNCHANGED <<rowsBar, owedBar>>
<1> DEFINE b == req[w]
<1>1. TypeOK /\ b.pc = "lookup" /\ UNCHANGED db
  BY DEF RefInv, Inv, Lookup, At
<1>2. b \in BusyRequest /\ b.row \in CostInstance
  BY <1>1, BusyType
<1>3. b.row.status = "PROVISIONING" /\ b.row.createdAt \in 1 .. MaxRequests
  BY <1>1 DEF RefInv, Inv, LookUpsStamped, At, CopiesConsistent, InFlight,
     WorkerConsistent, CreatePcs
<1>4. ASSUME NEW i \in GetByTarget(db, b.row.target), Reusable(db[i].status),
             Become(w, [b EXCEPT !.pc = "reset", !.id = i])
      PROVE  Registry!RegistryNext
  <2> DEFINE h == [b EXCEPT !.pc = "reset", !.id = i]
             t == b.row.target
             n == b.row.createdAt
  <2>1. h.pc = "reset" /\ h.id = i /\ h.row = b.row
    BY <1>2 DEF BusyRequest
  <2>2. Listing(b.row) = Registry!Fresh(t, n)
    BY <1>3 DEF Listing, Registry!Fresh
  <2> HIDE DEF h
  <2>3. Debt(h) = [kind |-> "reset", id |-> i, row |-> Registry!Fresh(t, n)]
    BY <2>1, <2>2, DebtAt
  <2>4. owedBar' = [owedBar EXCEPT ![w] = Debt(h)]
    BY <1>1, <1>4, OwedBar DEF Become, h
  <2>5. /\ i \in Registry!GetByTarget(rowsBar, t)
        /\ rowsBar[i].status \in {"ERROR", "DELETED"}
    BY <1>4 DEF GetByTarget, Registry!GetByTarget, rowsBar, Listing, Reusable
  <2>6. i \in Ids /\ t \in Targets
    BY <1>1, <1>2, <1>4 DEF GetByTarget, TypeOK, IsTable, CostInstance
  <2>7. owedBar[w] = Registry!NoDebt
    BY <1>1, DebtAt DEF owedBar
  <2>8. Registry!TakeOver(w, i, t, n)
    BY <1>1, <2>3, <2>4, <2>5, <2>7, BarsUnchanged
    DEF Registry!TakeOver, Registry!Owes, Registry!Owe, Registry!NoDebt
  <2> QED  BY <1>3, <2>6, <2>8 DEF Registry!RegistryNext, Registry!WorkerStep
<1> QED  BY <1>1, <1>4, ReplyBar DEF Lookup

\* The reset writes the owed row and goes on owing it, or is given up.
LEMMA ResetBar ==
  ASSUME Inv, NEW w \in Workers, Reset(w)
  PROVE  Registry!RegistryNext \/ UNCHANGED <<rowsBar, owedBar>>
<1> DEFINE b == req[w]
           h == [b EXCEPT !.pc = "createSource"]
<1>1. TypeOK /\ b.pc = "reset"
  BY DEF Inv, Reset, At
<1>2. owedBar[w] = [kind |-> "reset", id |-> b.id, row |-> Listing(b.row)]
  BY <1>1, DebtAt DEF owedBar
<1>3. CASE db' = Save(db, b.id, b.row) /\ Goto(w, "createSource")
  <2>1. rowsBar' = Registry!Save(rowsBar, b.id, Listing(b.row))
    BY <1>3, WithBar DEF Save, Registry!Save
  <2>2. Debt(h) = [kind |-> "create", id |-> b.id, row |-> Listing(b.row)]
    BY <1>1, DebtGoto
  <2>3. owedBar' = [owedBar EXCEPT ![w] = Debt(h)]
    BY <1>1, <1>3, OwedBar DEF Goto, Become
  <2>4. Debt(h) = [owedBar[w] EXCEPT !.kind = "create"]
    BY <1>2, <2>2
  <2>5. Registry!Owe(w, [owedBar[w] EXCEPT !.kind = "create"])
    BY <2>3, <2>4 DEF Registry!Owe
  <2>6. /\ Registry!Owes(w, "reset")
        /\ rowsBar' = Registry!Save(rowsBar, owedBar[w].id, owedBar[w].row)
    BY <1>2, <2>1 DEF Registry!Owes
  <2>7. Registry!ResetRow(w)
    BY <2>5, <2>6 DEF Registry!ResetRow
  <2> QED  BY <2>7 DEF Registry!RegistryNext, Registry!WorkerStep
<1>4. CASE Reply(w) /\ UNCHANGED db
  BY <1>1, <1>4, ReplyBar
<1> QED  BY <1>3, <1>4 DEF Reset

\* Neither a source nor the way to an error changes what is owed.
LEMMA CreateSourceBar ==
  ASSUME TypeOK, NEW w \in Workers, CreateSource(w)
  PROVE  Registry!RegistryNext \/ UNCHANGED <<rowsBar, owedBar>>
<1> DEFINE b == req[w]
<1>1. b.pc = "createSource" /\ UNCHANGED db
  BY DEF CreateSource, At
<1>2. b \in BusyRequest /\ b.row \in CostInstance
  BY <1>1, BusyType
<1>3. Debt(b) = [kind |-> "create", id |-> b.id, row |-> Listing(b.row)]
  BY <1>1, DebtAt
<1>4. ASSUME NEW s, AfterSource(b.spec) # "idle",
             Become(w, [b EXCEPT !.pc = AfterSource(b.spec),
                                 !.row = [@ EXCEPT !.source = s]])
      PROVE  Registry!RegistryNext \/ UNCHANGED <<rowsBar, owedBar>>
  <2> DEFINE h == [b EXCEPT !.pc = AfterSource(b.spec),
                            !.row = [@ EXCEPT !.source = s]]
             r == [b.row EXCEPT !.source = s]
  <2>1. AfterSource(b.spec) \in {"createModel", "save"}
    BY <1>4 DEF AfterSource
  <2>2. Listing(r) = Listing(b.row)
    BY <1>2 DEF Listing, CostInstance
  <2>3. h.pc \in {"createModel", "save"} /\ h.id = b.id /\ h.row = r
    BY <1>2, <2>1 DEF BusyRequest
  <2> HIDE DEF h, r
  <2>4. Debt(h) = Debt(b)
    BY <1>3, <2>2, <2>3, DebtAt
  <2>5. req' = [req EXCEPT ![w] = h]
    BY <1>4 DEF Become, h
  <2> QED  BY <1>1, <2>4, <2>5, Quiet
<1>5. CASE Goto(w, "markFailed")
  <2>1. Debt([b EXCEPT !.pc = "markFailed"]) = Debt(b)
    BY <1>1, <1>3, DebtGoto
  <2> QED  BY <1>1, <1>5, <2>1, Quiet DEF Goto, Become
<1>6. CASE Reply(w)
  BY <1>1, <1>6, ReplyBar
<1> QED  BY <1>4, <1>5, <1>6 DEF CreateSource

\* ERROR is written to the owed row, or not at all.
LEMMA MarkFailedBar ==
  ASSUME TypeOK, NEW w \in Workers, MarkFailed(w)
  PROVE  Registry!RegistryNext \/ UNCHANGED <<rowsBar, owedBar>>
<1> DEFINE b == req[w]
<1>1. b.pc = "markFailed" /\ Reply(w) /\ IsTable(db)
  BY DEF MarkFailed, At, TypeOK
<1>2. owedBar[w] = [kind |-> "create", id |-> b.id, row |-> Listing(b.row)]
  BY <1>1, DebtAt DEF owedBar
<1>3. CASE db' = UpdateStatus(db, b.id, "ERROR")
  <2>1. rowsBar' = Registry!UpdateStatus(rowsBar, b.id, "ERROR")
    BY <1>1, <1>3, UpdateBar
  <2>2. Debt(IdleRequest) = Registry!NoDebt
    BY DebtAt DEF IdleRequest
  <2>3. owedBar' = [owedBar EXCEPT ![w] = Registry!NoDebt]
    BY <1>1, <2>2, OwedBar DEF Reply, Become
  <2>4. Registry!Fail(w)
    BY <1>2, <2>1, <2>3 DEF Registry!Fail, Registry!Owes, Registry!Owe
  <2> QED  BY <2>4 DEF Registry!RegistryNext, Registry!WorkerStep
<1>4. CASE UNCHANGED db
  BY <1>1, <1>4, ReplyBar
<1> QED  BY <1>3, <1>4 DEF MarkFailed, TryStore

\* A cost model changes nothing of what is owed.
LEMMA CreateCostModelBar ==
  ASSUME TypeOK, NEW w \in Workers, CreateCostModel(w)
  PROVE  Registry!RegistryNext \/ UNCHANGED <<rowsBar, owedBar>>
<1> DEFINE b == req[w]
<1>1. b.pc = "createModel" /\ UNCHANGED db
  BY DEF CreateCostModel, At
<1>2. b \in BusyRequest /\ b.row \in CostInstance
  BY <1>1, BusyType
<1>3. Debt(b) = [kind |-> "create", id |-> b.id, row |-> Listing(b.row)]
  BY <1>1, DebtAt
<1>4. ASSUME NEW m, Become(w, [b EXCEPT !.pc = "save",
                                        !.row = [@ EXCEPT !.model = m]])
      PROVE  Registry!RegistryNext \/ UNCHANGED <<rowsBar, owedBar>>
  <2> DEFINE h == [b EXCEPT !.pc = "save", !.row = [@ EXCEPT !.model = m]]
             r == [b.row EXCEPT !.model = m]
  <2>1. Listing(r) = Listing(b.row)
    BY <1>2 DEF Listing, CostInstance
  <2>2. h.pc = "save" /\ h.id = b.id /\ h.row = r
    BY <1>2 DEF BusyRequest
  <2> HIDE DEF h, r
  <2>3. Debt(h) = Debt(b)
    BY <1>3, <2>1, <2>2, DebtAt
  <2>4. req' = [req EXCEPT ![w] = h]
    BY <1>4 DEF Become, h
  <2> QED  BY <1>1, <2>3, <2>4, Quiet
<1>5. CASE Goto(w, "save")
  <2>1. Debt([b EXCEPT !.pc = "save"]) = Debt(b)
    BY <1>1, <1>3, DebtGoto
  <2> QED  BY <1>1, <1>5, <2>1, Quiet DEF Goto, Become
<1> QED  BY <1>4, <1>5 DEF CreateCostModel

\* The closing Save writes the owed row, or fails and is only logged.
LEMMA SaveInstanceBar ==
  ASSUME TypeOK, NEW w \in Workers, SaveInstance(w)
  PROVE  Registry!RegistryNext \/ UNCHANGED <<rowsBar, owedBar>>
<1> DEFINE b == req[w]
           h == [b EXCEPT !.pc = "announce"]
<1>1. b.pc = "save" /\ req' = [req EXCEPT ![w] = h]
  BY DEF SaveInstance, At, Goto, Become
<1>2. owedBar[w] = [kind |-> "create", id |-> b.id, row |-> Listing(b.row)]
  BY <1>1, DebtAt DEF owedBar
<1>3. Debt(h) = Registry!NoDebt
  BY <1>1, DebtGoto
<1>4. CASE db' = Save(db, b.id, b.row)
  <2>1. rowsBar' = Registry!Save(rowsBar, b.id, Listing(b.row))
    BY <1>4, WithBar DEF Save, Registry!Save
  <2>2. owedBar' = [owedBar EXCEPT ![w] = Debt(h)]
    BY <1>1, OwedBar
  <2>3. Registry!Owe(w, Registry!NoDebt)
    BY <1>3, <2>2 DEF Registry!Owe
  <2>4. Registry!Complete(w)
    BY <1>2, <2>1, <2>3 DEF Registry!Complete, Registry!Owes
  <2> QED  BY <2>4 DEF Registry!RegistryNext, Registry!WorkerStep
<1>5. CASE UNCHANGED db
  BY <1>1, <1>3, <1>5, Quiet
<1> QED  BY <1>4, <1>5 DEF SaveInstance, TryStore

------------------------------------------------------------------------------
(* The steps of a delete *)

\* A delete is decided on a row that is there and not DELETED.
LEMMA StartDeleteBar ==
  ASSUME TypeOK, NEW w \in Workers, NEW i \in Ids, StartDelete(w, i)
  PROVE  Registry!RegistryNext \/ UNCHANGED <<rowsBar, owedBar>>
<1> DEFINE h == [pc |-> "dropModel", id |-> i, spec |-> None, row |-> db[i]]
<1>1. Debt(h) = [kind |-> "delete", id |-> i]
  BY DebtAt
<1>2. owedBar' = [owedBar EXCEPT ![w] = Debt(h)]
  BY OwedBar DEF StartDelete, Become
<1>3. owedBar[w] = Registry!NoDebt
  BY DebtAt DEF StartDelete, At, owedBar
<1>4. i \in DOMAIN rowsBar /\ rowsBar[i].status # "DELETED" /\ UNCHANGED rowsBar
  BY DEF StartDelete, rowsBar, Listing
<1>5. Registry!Owes(w, "none")
  BY <1>3 DEF Registry!Owes, Registry!NoDebt
<1>6. Registry!Owe(w, [kind |-> "delete", id |-> i])
  BY <1>1, <1>2 DEF Registry!Owe
<1>7. Registry!Condemn(w, i)
  BY <1>4, <1>5, <1>6 DEF Registry!Condemn
<1> QED  BY <1>7 DEF Registry!RegistryNext, Registry!WorkerStep

\* The calls to Koku leave the delete as it is.
LEMMA ReleaseBar ==
  ASSUME TypeOK, NEW w \in Workers, DropCostModel(w) \/ PauseSource(w)
  PROVE  Registry!RegistryNext \/ UNCHANGED <<rowsBar, owedBar>>
<1>1. /\ req[w].pc \in {"dropModel", "pause"}
      /\ UNCHANGED db
      /\ Goto(w, "pause") \/ Goto(w, "markDeleted")
  BY DEF DropCostModel, PauseSource, At
<1>2. Debt(req[w]) = [kind |-> "delete", id |-> req[w].id]
  BY <1>1, DebtAt
<1>3. ASSUME NEW pc \in {"pause", "markDeleted"}, Goto(w, pc)
      PROVE  Registry!RegistryNext \/ UNCHANGED <<rowsBar, owedBar>>
  <2>1. Debt([req[w] EXCEPT !.pc = pc]) = Debt(req[w])
    BY <1>1, <1>2, DebtGoto
  <2> QED  BY <1>1, <1>3, <2>1, Quiet DEF Goto, Become
<1> QED  BY <1>1, <1>3

\* DELETED is written to the owed row, or not at all.
LEMMA MarkDeletedBar ==
  ASSUME TypeOK, NEW w \in Workers, MarkDeleted(w)
  PROVE  Registry!RegistryNext \/ UNCHANGED <<rowsBar, owedBar>>
<1> DEFINE b == req[w]
           h == [b EXCEPT !.pc = "announceDeleted"]
<1>1. b.pc = "markDeleted" /\ req' = [req EXCEPT ![w] = h] /\ IsTable(db)
  BY DEF MarkDeleted, At, Goto, Become, TypeOK
<1>2. owedBar[w] = [kind |-> "delete", id |-> b.id]
  BY <1>1, DebtAt DEF owedBar
<1>3. Debt(h) = Registry!NoDebt
  BY <1>1, DebtGoto
<1>4. CASE db' = UpdateStatus(db, b.id, "DELETED")
  <2>1. rowsBar' = Registry!UpdateStatus(rowsBar, b.id, "DELETED")
    BY <1>1, <1>4, UpdateBar
  <2>2. owedBar' = [owedBar EXCEPT ![w] = Debt(h)]
    BY <1>1, OwedBar
  <2>3. Registry!Owe(w, Registry!NoDebt)
    BY <1>3, <2>2 DEF Registry!Owe
  <2>4. Registry!Remove(w)
    BY <1>2, <2>1, <2>3 DEF Registry!Remove, Registry!Owes
  <2> QED  BY <2>4 DEF Registry!RegistryNext, Registry!WorkerStep
<1>5. CASE UNCHANGED db
  BY <1>1, <1>3, <1>5, Quiet
<1> QED  BY <1>4, <1>5 DEF MarkDeleted, TryStore

------------------------------------------------------------------------------
(* Every step *)

\* The last step of a request is an event and the gauge.
LEMMA AnnounceBar ==
  ASSUME TypeOK, NEW w \in Workers, AnnounceProvisioning(w) \/ AnnounceDeleted(w)
  PROVE  Registry!RegistryNext \/ UNCHANGED <<rowsBar, owedBar>>
  BY ReplyBar DEF AnnounceProvisioning, AnnounceDeleted

\* A verdict reaches a row that exists; nothing else of the reconciler is seen.
LEMMA ReconcileBar ==
  ASSUME Inv, Reconcile
  PROVE  Registry!RegistryNext \/ UNCHANGED <<rowsBar, owedBar>>
<1>1. TypeOK /\ IsTable(db)
  BY DEF Inv, TypeOK
<1>2. UNCHANGED req
  BY DEF Reconcile, ListProvisioning, SkipUnsourced, Examine, SourceStats, Mark,
     AnnounceVerdict
<1>3. CASE rpc = "mark" /\ db' = UpdateStatus(db, cur, verdict)
  <2>1. cur \in DOMAIN db /\ verdict \in {"READY", "ERROR"}
    BY <1>1, <1>3 DEF Inv, TypeOK, ReconcilerTypeOK, CopiesConsistent, BatchConsistent
  <2>2. cur \in Ids /\ cur \in DOMAIN rowsBar
    BY <1>1, <2>1 DEF IsTable, rowsBar
  <2>3. rowsBar' = Registry!UpdateStatus(rowsBar, cur, verdict)
    BY <1>1, <1>3, UpdateBar
  <2>4. Registry!Judge(cur, verdict)
    BY <1>2, <2>2, <2>3, BarsUnchanged DEF Registry!Judge
  <2> QED  BY <2>1, <2>2, <2>4 DEF Registry!RegistryNext
<1>4. CASE UNCHANGED db
  BY <1>2, <1>4, BarsUnchanged
<1> QED  BY <1>3, <1>4 DEF Reconcile, ListProvisioning, SkipUnsourced, Examine,
            SourceStats, Mark, AnnounceVerdict

\* What was owed when the process stopped is never written.
LEMMA CrashBar ==
  ASSUME Crash
  PROVE  Registry!RegistryNext
<1>1. rowsBar' = rowsBar
  BY BarsUnchanged DEF Crash
<1>2. Debt(IdleRequest) = Registry!NoDebt
  BY DebtAt DEF IdleRequest
<1>3. \A w \in Workers : req'[w] = IdleRequest
  BY DEF Crash
<1>4. owedBar' = [w \in Workers |-> Registry!NoDebt]
  BY <1>2, <1>3 DEF owedBar
<1>5. Registry!Abandon(Workers)
  BY <1>1, <1>4 DEF Registry!Abandon
<1> QED  BY <1>5 DEF Registry!RegistryNext

\* Every step is one of the registry's, or none of its business.
LEMMA StepBar ==
  ASSUME RefInv, [Next]_vars
  PROVE  [Registry!RegistryNext]_Registry!registryVars
<1> SUFFICES Registry!RegistryNext \/ UNCHANGED <<rowsBar, owedBar>>
  BY DEF Registry!registryVars
<1>1. Inv /\ TypeOK
  BY DEF RefInv, Inv
<1>2. ASSUME NEW w \in Workers, Accept(w) \/ Proceed(w)
      PROVE  Registry!RegistryNext \/ UNCHANGED <<rowsBar, owedBar>>
  <2>1. CASE Accept(w)
    BY <1>1, <2>1, ReserveBar, StartDeleteBar DEF Accept
  <2>2. CASE Lookup(w) \/ Reset(w)
    BY <1>1, <2>2, LookupBar, ResetBar
  <2>3. CASE CreateSource(w) \/ MarkFailed(w) \/ CreateCostModel(w) \/ SaveInstance(w)
    BY <1>1, <2>3, CreateSourceBar, MarkFailedBar, CreateCostModelBar, SaveInstanceBar
  <2>4. CASE DropCostModel(w) \/ PauseSource(w) \/ MarkDeleted(w)
    BY <1>1, <2>4, ReleaseBar, MarkDeletedBar
  <2>5. CASE AnnounceProvisioning(w) \/ AnnounceDeleted(w)
    BY <1>1, <2>5, AnnounceBar
  <2> QED  BY <1>2, <2>1, <2>2, <2>3, <2>4, <2>5 DEF Proceed
<1>3. CASE Reconcile
  BY <1>1, <1>3, ReconcileBar
<1>4. CASE Crash
  BY <1>4, CrashBar
<1>5. CASE Tick \/ (\E s \in SourceIds : KokuIngest(s)) \/ UNCHANGED vars
  <2>1. UNCHANGED db /\ UNCHANGED req
    BY <1>5 DEF Tick, KokuIngest, vars
  <2> QED  BY <2>1, BarsUnchanged
<1> QED  BY <1>2, <1>3, <1>4, <1>5 DEF Next

\* The empty table of a first start is one the registry may inherit.
LEMMA InitBar == Init => Registry!RegistryInit
<1> SUFFICES ASSUME Init
             PROVE  Registry!RegistryInit
  OBVIOUS
<1>1. db = NoRows /\ req = [w \in Workers |-> IdleRequest]
  BY DEF Init
<1>2. Debt(IdleRequest) = Registry!NoDebt
  BY DebtAt DEF IdleRequest
<1>3. owedBar = [w \in Workers |-> Registry!NoDebt]
  BY <1>1, <1>2 DEF owedBar
<1>4. DOMAIN rowsBar = {}
  BY <1>1 DEF rowsBar, NoRows
<1>5. Registry!IsRegistry(rowsBar)
  BY <1>4 DEF Registry!IsRegistry, rowsBar
<1> QED  BY <1>3, <1>5 DEF Registry!RegistryInit

\* Only Reserve brings a create to its look-up, with the next free stamp.
LEMMA LookUpsInit == Init => LookUpsStamped
  BY DEF Init, LookUpsStamped, At, IdleRequest

LEMMA LookUpsStep ==
  ASSUME RefInv, [Next]_vars
  PROVE  LookUpsStamped'
<1>1. TypeOK /\ LookUpsStamped /\ req \in [Workers -> {IdleRequest} \cup BusyRequest]
  BY DEF RefInv, Inv, TypeOK, WorkerTypeOK
<1>2. ASSUME NEW w \in Workers, NEW h, Become(w, h),
             h.pc = "lookup" => h.row.createdAt \in 1 .. MaxRequests
      PROVE  LookUpsStamped'
  BY <1>1, <1>2 DEF Become, LookUpsStamped, At
<1>3. ASSUME NEW w \in Workers, NEW i \in Ids, NEW t \in Targets, NEW s \in CostSpecs,
             Reserve(w, i, t, s)
      PROVE  LookUpsStamped'
  <2>1. served + 1 \in 1 .. MaxRequests
    BY <1>1, <1>3, BoundsAssumption DEF Reserve, TypeOK, RestTypeOK
  <2>2. NewInstance(t).createdAt \in 1 .. MaxRequests
    BY <2>1 DEF NewInstance
  <2> HIDE DEF NewInstance
  <2> QED  BY <1>2, <1>3, <2>2 DEF Reserve
<1>4. ASSUME NEW w \in Workers, NEW i \in Ids, StartDelete(w, i)
      PROVE  LookUpsStamped'
  BY <1>2, <1>4 DEF StartDelete
<1>5. ASSUME NEW w \in Workers, Proceed(w)
      PROVE  LookUpsStamped'
  <2>1. req[w].pc # "idle" /\ req[w] \in BusyRequest
    BY <1>1, <1>5, BusyType
    DEF Proceed, Lookup, Reset, CreateSource, MarkFailed, CreateCostModel, SaveInstance,
        AnnounceProvisioning, DropCostModel, PauseSource, MarkDeleted, AnnounceDeleted, At
  <2>2. ASSUME NEW pc, Goto(w, pc), pc # "lookup"
        PROVE  LookUpsStamped'
    BY <1>1, <2>1, <2>2, Gone, <1>2 DEF Goto
  <2>3. CASE Reply(w)
    BY <1>2, <2>3 DEF Reply, IdleRequest
  <2>4. CASE Lookup(w)
    <3>1. \A i : [req[w] EXCEPT !.pc = "reset", !.id = i].pc # "lookup"
      BY <2>1 DEF BusyRequest
    <3> QED  BY <1>2, <2>3, <2>4, <3>1 DEF Lookup
  <2>5. CASE CreateSource(w)
    <3>1. \A s : LET h == [req[w] EXCEPT !.pc = AfterSource(req[w].spec),
                                         !.row = [@ EXCEPT !.source = s]]
                 IN  h.pc # "lookup"
      BY <2>1 DEF BusyRequest, AfterSource
    <3> QED  BY <1>2, <2>2, <2>3, <2>5, <3>1 DEF CreateSource
  <2>6. CASE CreateCostModel(w)
    <3>1. \A m : LET h == [req[w] EXCEPT !.pc = "save",
                                         !.row = [@ EXCEPT !.model = m]]
                 IN  h.pc # "lookup"
      BY <2>1 DEF BusyRequest
    <3> QED  BY <1>2, <2>2, <2>6, <3>1 DEF CreateCostModel
  <2> QED  BY <1>5, <2>2, <2>3, <2>4, <2>5, <2>6
           DEF Proceed, Reset, MarkFailed, SaveInstance, AnnounceProvisioning,
               DropCostModel, PauseSource, MarkDeleted, AnnounceDeleted
<1>6. CASE Crash
  BY <1>6 DEF Crash, LookUpsStamped, At, IdleRequest
<1>7. CASE UNCHANGED req
  BY <1>1, <1>7 DEF LookUpsStamped, At
<1>8. Reconcile \/ Tick \/ (\E s \in SourceIds : KokuIngest(s)) \/ UNCHANGED vars
        => UNCHANGED req
  BY DEF Reconcile, ListProvisioning, SkipUnsourced, Examine, SourceStats, Mark,
     AnnounceVerdict, Tick, KokuIngest, vars
<1> QED  BY <1>3, <1>4, <1>5, <1>6, <1>7, <1>8 DEF Next, Accept

------------------------------------------------------------------------------
\* Whatever handlers, reconciler, faults and crashes do to the table is what the
\* registry allows: a row is taken over only when it was ERROR or DELETED, and a
\* status or a Save that reaches a row was decided on by a request still under way,
\* or is a verdict of the reconciler (handler.go:125-213 and 286-315,
\* reconciler.go:94-120).
THEOREM Implements == Spec => ImplementsRegistry
<1>1. Init => RefInv
  BY InvInit, LookUpsInit DEF RefInv
<1>2. RefInv /\ [Next]_vars => RefInv'
  BY InvStep, LookUpsStep DEF RefInv
<1>3. Init => Registry!RegistryInit
  BY InitBar
<1>4. RefInv /\ [Next]_vars => [Registry!RegistryNext]_Registry!registryVars
  BY StepBar
<1> QED  BY <1>1, <1>2, <1>3, <1>4, PTL
         DEF Spec, ImplementsRegistry, Registry!RegistrySpec
================================================================================
