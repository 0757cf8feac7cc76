------------------------------ MODULE CostRegistry ------------------------------
(****************************************************************************)
(* What the provider promises of its instances, whoever calls it and        *)
(* whatever fails: rows come into being one per cluster and are never       *)
(* removed; a row changes only through a verdict of the reconciler or a     *)
(* write that a request decided on before.  Such a decision is remembered   *)
(* as a debt, and is carried out on the row as it then is, or never.        *)
(*                                                                          *)
(* Koku, its UUIDs, the events and the gauge are forgotten: CostProvider    *)
(* has them and implements this; CostApi is built on it.                    *)
(****************************************************************************)
EXTENDS InstanceStore

CONSTANTS Workers,  \* handler goroutines
          Stamps    \* values of created_at

ASSUME StampsAssumption == Stamps \subseteq Nat

VARIABLES rows,  \* the table
          owed   \* the write that each worker has decided on

registryVars == <<rows, owed>>

Entry == [target : Targets, status : Status, createdAt : Stamps]

\* A create owes the write of its whole row, twice if it takes a row over; a
\* delete owes a status.
NoDebt     == [kind |-> "none"]
CreateDebt == [kind : {"reset", "create"}, id : Ids, row : Entry]
DeleteDebt == [kind : {"delete"}, id : Ids]

IsRegistry(d) == /\ DOMAIN d \subseteq Ids
                 /\ d \in [DOMAIN d -> Entry]
                 /\ \A i, j \in DOMAIN d : d[i].target = d[j].target => i = j

\* The table outlives the process, and is as an earlier life left it.
RegistryInit == /\ IsRegistry(rows)
                /\ owed = [w \in Workers |-> NoDebt]

Owe(w, debt) == owed' = [owed EXCEPT ![w] = debt]
Owes(w, kind) == owed[w].kind = kind

\* The row of a create for cluster t that was accepted at time s.
Fresh(t, s) == [target |-> t, status |-> "PROVISIONING", createdAt |-> s]

\* store.Create reserves a vacant cluster.
ReserveRow(w, i, t, s) ==
  /\ Owes(w, "none")
  /\ Vacant(rows, i, t)
  /\ rows' = Create(rows, i, Fresh(t, s))
  /\ Owe(w, [kind |-> "create", id |-> i, row |-> Fresh(t, s)])

\* A create finds the row of its cluster in ERROR or DELETED.
TakeOver(w, i, t, s) ==
  /\ Owes(w, "none")
  /\ i \in GetByTarget(rows, t)
  /\ rows[i].status \in {"ERROR", "DELETED"}
  /\ Owe(w, [kind |-> "reset", id |-> i, row |-> Fresh(t, s)])
  /\ UNCHANGED rows

\* It writes its row over the one it found.
ResetRow(w) ==
  /\ Owes(w, "reset")
  /\ rows' = Save(rows, owed[w].id, owed[w].row)
  /\ Owe(w, [owed[w] EXCEPT !.kind = "create"])

\* A create ends with a Save of its row, or marks the row ERROR.
Complete(w) ==
  /\ Owes(w, "create")
  /\ rows' = Save(rows, owed[w].id, owed[w].row)
  /\ Owe(w, NoDebt)

Fail(w) ==
  /\ Owes(w, "create")
  /\ rows' = UpdateStatus(rows, owed[w].id, "ERROR")
  /\ Owe(w, NoDebt)

\* A delete is decided on a row that is not DELETED yet.
Condemn(w, i) ==
  /\ Owes(w, "none")
  /\ i \in DOMAIN rows
  /\ rows[i].status # "DELETED"
  /\ Owe(w, [kind |-> "delete", id |-> i])
  /\ UNCHANGED rows

Remove(w) ==
  /\ Owes(w, "delete")
  /\ rows' = UpdateStatus(rows, owed[w].id, "DELETED")
  /\ Owe(w, NoDebt)

\* The reconciler's verdict reaches a row, whatever that has become since the
\* copy it was decided on was made.
Judge(i, s) ==
  /\ i \in DOMAIN rows
  /\ rows' = UpdateStatus(rows, i, s)
  /\ UNCHANGED owed

\* What was decided is dropped: a statement failed, a request was refused after
\* all, or the process stopped.
Abandon(S) ==
  /\ owed' = [w \in Workers |-> IF w \in S THEN NoDebt ELSE owed[w]]
  /\ UNCHANGED rows

WorkerStep(w) ==
  \/ \E i \in Ids, t \in Targets, s \in Stamps :
       ReserveRow(w, i, t, s) \/ TakeOver(w, i, t, s)
  \/ \E i \in Ids : Condemn(w, i)
  \/ ResetRow(w) \/ Complete(w) \/ Fail(w) \/ Remove(w)

RegistryNext == \/ \E w \in Workers : WorkerStep(w)
                \/ \E i \in Ids, s \in {"READY", "ERROR"} : Judge(i, s)
                \/ \E S \in SUBSET Workers : Abandon(S)

RegistrySpec == RegistryInit /\ [][RegistryNext]_registryVars
================================================================================
