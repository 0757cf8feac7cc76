--------------------------- MODULE CostProviderRefines ---------------------------
(* CostProvider implements CostRegistry.                                       *)
EXTENDS CostProvider

Listing(r) == [target |-> r.target, status |-> r.status, createdAt |-> r.createdAt]

\* The write that a worker's program point commits it to.
Debt(h) ==
  CASE h.pc = "reset" -> [kind |-> "reset", id |-> h.id, row |-> Listing(h.row)]
    [] h.pc \in {"createSource", "markFailed", "createModel", "save"} ->
         [kind |-> "create", id |-> h.id, row |-> Listing(h.row)]
    [] h.pc \in {"dropModel", "pause", "markDeleted"} ->
         [kind |-> "delete", id |-> h.id]
    [] OTHER -> [kind |-> "none"]

rowsBar == [i \in DOMAIN db |-> Listing(db[i])]
owedBar == [w \in Workers |-> Debt(req[w])]

Registry == INSTANCE CostRegistry WITH
  Stamps <- 1 .. MaxRequests,
  rows   <- rowsBar,
  owed   <- owedBar

\* Whatever handlers, reconciler, faults and crashes do to the table is one of
\* the few changes CostRegistry allows: each status and each Save that reaches a
\* row was decided on by a request that is still under way, or is a verdict of the
\* reconciler, and a row is taken over only when it was ERROR or DELETED (handler.go:125-213, 286-315;
\* reconciler.go:94-120).
ImplementsRegistry == Registry!RegistrySpec
================================================================================
