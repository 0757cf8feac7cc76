----------------------------- MODULE InstanceStore -----------------------------
(****************************************************************************)
(* internal/store: the SQLite table of cost instances, and the operations   *)
(* the handlers and the reconciler use on it.                               *)
(*                                                                          *)
(* The table is a function from the ids of the rows it holds to the rows;   *)
(* every operation is one SQL statement, hence one atomic change of the     *)
(* table. cluster_id always equals target_resource_id (handler.go:108) and  *)
(* is not kept twice; name, message, spec text and updated_at are abstract. *)
(****************************************************************************)
EXTENDS Naturals

CONSTANTS Ids,        \* instance ids: client-assigned, or a fresh UUID
          Targets,    \* well-formed target resource ids (clusters)
          SourceIds,  \* UUIDs Koku may give to a source
          ModelIds,   \* UUIDs Koku may give to a cost model
          None        \* the empty string in a UUID column; no row; no event

Status == {"PROVISIONING", "READY", "ERROR", "DELETED"}

ASSUME NoneAssumption == None \notin Ids \cup SourceIds \cup ModelIds \cup Status

\* createdAt is the number of the request that stamped created_at: a logical
\* time, later requests having later stamps.
CostInstance == [target    : Targets,
                 source    : SourceIds \cup {None},
                 model     : ModelIds \cup {None},
                 status    : Status,
                 createdAt : Nat]

IsTable(d) == /\ DOMAIN d \subseteq Ids
              /\ d \in [DOMAIN d -> CostInstance]

NoRows == [i \in {} |-> None]

\* A table like d except that row i is r.
With(d, i, r) == [j \in DOMAIN d \cup {i} |-> IF j = i THEN r ELSE d[j]]

\* A table like d without row i.
Without(d, i) == [j \in DOMAIN d \ {i} |-> d[j]]

\* Bug: the table without its unique index.
VacantById(d, i, t) == i \notin DOMAIN d

\* Create succeeds unless the primary key or the unique index on
\* target_resource_id is violated (ErrAlreadyExists).
Vacant(d, i, t) == /\ i \notin DOMAIN d
                   /\ \A j \in DOMAIN d : d[j].target # t

Create(d, i, r) == With(d, i, r)

\* Bug: gorm's Updates in place of Save, which skips empty fields.
SaveNonZero(d, i, r) ==
  With(d, i, [r EXCEPT !.source = IF @ = None THEN d[i].source ELSE @,
                       !.model  = IF @ = None THEN d[i].model ELSE @])

\* Update: gorm's Save, an UPDATE of every column of row i (an upsert when
\* no row has that id).
Save(d, i, r) == With(d, i, r)

\* Bug: the query without its WHERE clause.
GetAny(d, t) == DOMAIN d

\* The rows GetByTarget finds: none (ErrNotFound) or, by the unique index, one.
GetByTarget(d, t) == {i \in DOMAIN d : d[i].target = t}

\* Bugs: a status outside the lifecycle; a hard delete.
UpdateStatusFailed(d, i, s) ==
  [j \in DOMAIN d |-> IF j = i
     THEN [d[j] EXCEPT !.status = IF s = "ERROR" THEN "FAILED" ELSE s] ELSE d[j]]
UpdateStatusHard(d, i, s) ==
  IF s = "DELETED" THEN Without(d, i)
  ELSE [j \in DOMAIN d |-> IF j = i THEN [d[j] EXCEPT !.status = s] ELSE d[j]]

\* UpdateStatus changes only status (and message) of the row with that id,
\* whatever its present status; no row, no effect (ErrNotFound).
UpdateStatus(d, i, s) ==
  [j \in DOMAIN d |-> IF j = i THEN [d[j] EXCEPT !.status = s] ELSE d[j]]

\* A copy of every row with that status, as of now.
ListByStatus(d, s) == [i \in {j \in DOMAIN d : d[j].status = s} |-> d[i]]
================================================================================
