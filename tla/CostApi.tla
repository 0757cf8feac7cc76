--------------------------------- MODULE CostApi ---------------------------------
(****************************************************************************)
(* The provider as its clients see it: every operation of the interface     *)
(* (ApiContract) on the instances (CostRegistry), and what each call is     *)
(* answered.  Clients walk through the pages of the list while others       *)
(* create and delete.                                                       *)
(*                                                                          *)
(* Between a client and the handler's first statement, and between its last *)
(* statement and the client, a call meets nothing shared: what middleware,  *)
(* router, binding, encoding and parsing do is part of the action of that   *)
(* statement.  A reader and a worker are the two sides of a client.         *)
(****************************************************************************)
EXTENDS CostRegistry, ApiContract

CONSTANTS Readers,      \* clients that read
          PageSize,     \* max_page_size of their lists
          Focus,        \* bound: the ids that reports are asked for and that
                        \* verdicts are given on
          Inherited,    \* tables that an earlier life of the process left
          Now,          \* the clock when this one starts
          MaxClock,     \* bound: the clock, hence creates
          StoreFaults,  \* SQL statements may fail
          SlowKoku      \* Koku may take longer than the server waits to write

ASSUME PageSizeAssumption == PageSize \in Nat \ {0}
ASSUME ClockAssumption == Now \in Nat /\ MaxClock \in Nat
ASSUME StampsAreTimes == Stamps = 0 .. MaxClock
ASSUME InheritedAssumption ==
  \A d \in Inherited : /\ IsRegistry(d)
                       /\ IsFiniteSet(DOMAIN d)
                       /\ \A i \in DOMAIN d : d[i].createdAt <= Now
ASSUME SwitchesAssumption == {StoreFaults, SlowKoku} \subseteq BOOLEAN
ASSUME FocusAssumption == Focus \subseteq Ids
ASSUME NoTokenAssumption == None \notin Nat

VARIABLES clock,    \* time.Now: the creates so far
          lookup,   \* the row of a create whose INSERT failed
          reading,  \* the read that each reader's handler is in the middle of
          walk,     \* how far each reader is through the list
          known,    \* the ids of 201s, arrived or lost, with their clusters
          complaints  \* what clients have to complain of: see Complaints

vars == <<rows, owed, clock, lookup, reading, walk, known, complaints>>

NoRow  == [target |-> None]
NoRead == [op |-> "none"]

\* next: the token the reader holds, or None past the last page.
\* due: the rows still owed to the reader, of those there were when the walk
\* began.
Walk == [next : Nat \cup {None}, due : SUBSET Ids]

Init == /\ rows \in Inherited
        /\ RegistryInit
        /\ clock = Now
        /\ lookup = [w \in Workers |-> NoRow]
        /\ reading = [c \in Readers |-> NoRead]
        /\ walk = [c \in Readers |-> [next |-> None, due |-> {}]]
        /\ known = {}
        /\ complaints = {}

------------------------------------------------------------------------------
(* Answers *)

\* The operation whose handler a client's call of op for i ends up in.
HandledBy(op, i) == Serves(Request(op, i, "compute"))

\* A handler answers a call of op for id with a status, describing the instance
\* about (if not None) of cluster t.  The client may find
\* - that it is not what the operation declares or not in a typed field;
\* - that it comes from the handler of another operation, whose requests look
\*   alike (an instance named "health" has such a GET), or do not even;
\* - that it describes another instance or a cluster that is not that instance's.
Complaints(op, id, status, about, t) ==
  LET handler == HandledBy(op, id)
  IN  {c \in {"unreadable", "hidden", "misrouted", "misplaced"} :
         \/ c = "unreadable" /\ ~Readable(op, Answer(status))
         \/ c = "hidden" /\ handler # op
         \/ c = "misrouted" /\ Request(handler, id, "compute") # Request(op, id, "compute")
         \/ /\ c = "misplaced"
            /\ op # "createInstance" /\ about # None
            /\ ~(about = id /\ id \in DOMAIN rows /\ t = rows[id].target)}

\* The strict handler writes the answer, the client's caller gets it.
Tell(op, id, status, about, t) ==
  complaints' = complaints \cup Complaints(op, id, status, about, t)

Say(op, id, status, about, t) == Tell(op, id, status, about, t) /\ UNCHANGED known

SayStatus(op, id, status) == Say(op, id, status, None, None)

Silent == UNCHANGED <<complaints, known>>

\* The handler of a slow call answers after the server's write timeout: the
\* client sees a closed connection, whatever was done (config.go:19).
Late == SlowKoku /\ Silent

\* A call that is refused on its way to the handler.
Refuse(op, refusal) ==
  /\ complaints' = complaints \cup IF Readable(op, refusal) THEN {} ELSE {"refused"}
  /\ UNCHANGED <<rows, owed, clock, lookup, reading, walk, known>>

------------------------------------------------------------------------------
(* Reads that take one statement *)

readVars == <<rows, owed, clock, lookup, walk>>

GetHealth(op, i) ==
  /\ HandledBy(op, i) = "getHealth"
  /\ SayStatus(op, i, 200)
  /\ UNCHANGED <<readVars, reading>>

GetInstance(op, i) ==
  /\ HandledBy(op, i) = "getInstance"
  /\ \/ i \in DOMAIN rows /\ Say(op, i, 200, i, rows[i].target)
     \/ i \notin DOMAIN rows /\ SayStatus(op, i, 404)
     \/ StoreFaults /\ SayStatus(op, i, 500)
  /\ UNCHANGED <<readVars, reading>>

------------------------------------------------------------------------------
(* Usage, reports and forecasts *)

\* The handler reads the row for its cluster ...
ReadCluster(c, op, i) ==
  /\ reading[c] = NoRead
  /\ HandledBy(op, i) \in ReportOps
  /\ \/ /\ i \in DOMAIN rows
        /\ reading' = [reading EXCEPT ![c] =
                         [op |-> op, id |-> i, target |-> rows[i].target]]
        /\ Silent
     \/ i \notin DOMAIN rows /\ SayStatus(op, i, 404) /\ UNCHANGED reading
     \/ StoreFaults /\ SayStatus(op, i, 500) /\ UNCHANGED reading
  /\ UNCHANGED readVars

\* ... and passes on what Koku answers for that cluster.  An error, a status
\* other than 200 and more than 10 MB are a 502; a body that is no JSON object
\* is passed on as null.
Proxy(c) ==
  /\ reading[c].op \in ReportOps
  /\ \/ Say(reading[c].op, reading[c].id, 200, reading[c].id, reading[c].target)
     \/ SayStatus(reading[c].op, reading[c].id, 502)
     \/ Late
  /\ reading' = [reading EXCEPT ![c] = NoRead]
  /\ UNCHANGED readVars

------------------------------------------------------------------------------
(* The list *)

\* The place of row i in the order of the list, newest first.
Place(i) == Cardinality({j \in DOMAIN rows : rows[j].createdAt > rows[i].createdAt})

Walking(c) == walk[c].next # None

\* encodePageToken and decodePageToken: a token is an offset, and one that is none
\* is taken for 0.
DecodePageToken(token) == IF token \in Nat THEN token ELSE 0

Offset(c) == DecodePageToken(walk[c].next)

\* The first statement of store.List counts the rows; its error is ignored, and
\* the count is then 0.  A reader goes on with its token, or begins, with none or
\* with one that does not decode.
CountRows(c) ==
  /\ reading[c] = NoRead
  /\ \E failed \in {FALSE, StoreFaults}, token \in {walk[c].next, None} :
       /\ reading' = [reading EXCEPT ![c] =
            [op |-> "listInstances",
             total |-> IF failed THEN 0 ELSE Cardinality(DOMAIN rows)]]
       /\ walk' = [walk EXCEPT ![c] =
            [next |-> DecodePageToken(token),
             due  |-> IF failed THEN {}
                      ELSE IF token = None THEN DOMAIN rows ELSE @.due]]
  /\ Silent
  /\ UNCHANGED <<rows, owed, clock, lookup>>

\* Bug: the last page is followed by another one.
NextTokenPastEnd(offset, total) ==
  IF offset + PageSize <= total THEN offset + PageSize ELSE None

\* The token of the answer.
NextToken(offset, total) ==
  IF offset + PageSize < total THEN offset + PageSize ELSE None

\* Bug: oldest first.
PageOldestFirst(offset) ==
  {i \in DOMAIN rows : LET last == Cardinality(DOMAIN rows) - 1
                       IN  last - Place(i) \in offset .. offset + PageSize - 1}

\* The rows of the page at an offset.
Page(offset) == {i \in DOMAIN rows : Place(i) \in offset .. offset + PageSize - 1}

\* The second statement cuts the page out of the table as it then is.  When it
\* fails the client keeps its token.
FindRows(c) ==
  /\ reading[c].op = "listInstances"
  /\ reading' = [reading EXCEPT ![c] = NoRead]
  /\ \/ /\ walk' = [walk EXCEPT ![c] =
                      [next |-> NextToken(Offset(c), reading[c].total),
                       due  |-> @.due \ Page(Offset(c))]]
        /\ SayStatus("listInstances", None, 200)
     \/ /\ StoreFaults
        /\ SayStatus("listInstances", None, 500)
        /\ UNCHANGED walk
  /\ UNCHANGED <<rows, owed, clock, lookup>>

\* A create's INSERT puts a row before all others.  It can push a row out of a
\* page that was the last one when the rows were counted.
Pushed == [c \in Readers |->
  IF reading[c].op = "listInstances" /\ reading[c].total <= Offset(c) + PageSize
  THEN [walk[c] EXCEPT !.due = {}] ELSE walk[c]]

\* The Save of row i with stamp s can move it.  If it moves back, the rows it
\* passes move up.
Displaced(i, s) ==
  IF s = rows[i].createdAt THEN {}
  ELSE {i} \cup {j \in DOMAIN rows : s < rows[j].createdAt
                                     /\ rows[j].createdAt < rows[i].createdAt}

Moved(i, s) == [c \in Readers |-> [walk[c] EXCEPT !.due = @ \ Displaced(i, s)]]

------------------------------------------------------------------------------
(* Create *)

Free(w) == Owes(w, "none") /\ lookup[w] = NoRow

callVars == <<lookup, reading>>

\* A target that is empty or has other than safe characters.
RefuseTarget(w) ==
  /\ Free(w)
  /\ SayStatus("createInstance", None, 400)
  /\ UNCHANGED <<rows, owed, clock, callVars, walk>>

Insert(w, i, t) ==
  /\ Free(w)
  /\ clock < MaxClock
  /\ clock' = clock + 1
  /\ \/ /\ ReserveRow(w, i, t, clock + 1)
        /\ walk' = Pushed
        /\ Silent
        /\ UNCHANGED lookup
     \/ /\ ~Vacant(rows, i, t)
        /\ lookup' = [lookup EXCEPT ![w] = Fresh(t, clock + 1)]
        /\ Silent
        /\ UNCHANGED <<rows, owed, walk>>
     \/ /\ StoreFaults
        /\ SayStatus("createInstance", i, 500)
        /\ UNCHANGED <<rows, owed, walk, lookup>>
  /\ UNCHANGED reading

\* The cluster's row: in a state to be taken over, live, or (when the id was the
\* trouble) none.
LookUpTarget(w) ==
  /\ lookup[w] # NoRow
  /\ lookup' = [lookup EXCEPT ![w] = NoRow]
  /\ LET found == GetByTarget(rows, lookup[w].target)
     IN  \/ /\ \E i \in found : TakeOver(w, i, lookup[w].target, lookup[w].createdAt)
            /\ Silent
         \/ /\ \E i \in found : rows[i].status \in {"PROVISIONING", "READY"}
            /\ SayStatus("createInstance", None, 409)
            /\ UNCHANGED <<rows, owed>>
         \/ /\ found = {} \/ StoreFaults
            /\ SayStatus("createInstance", None, 500)
            /\ UNCHANGED <<rows, owed>>
  /\ UNCHANGED <<clock, reading, walk>>

\* The statement that settles the debt of w fails.
Unsettled(w) == StoreFaults /\ Abandon({w}) /\ UNCHANGED walk

Reset(w) ==
  /\ \/ /\ ResetRow(w)
        /\ walk' = Moved(owed[w].id, owed[w].row.createdAt)
        /\ Silent
     \/ /\ Owes(w, "reset")
        /\ Unsettled(w)
        /\ SayStatus("createInstance", None, 500)
  /\ UNCHANGED <<clock, callVars>>

\* Koku does not give a source.
FailCreate(w) ==
  /\ Owes(w, "create")
  /\ (Fail(w) /\ UNCHANGED walk) \/ Unsettled(w)
  /\ SayStatus("createInstance", None, 500) \/ Late
  /\ UNCHANGED <<clock, callVars>>

\* An unsupported currency: a 400 that undoes nothing.
RefuseCurrency(w) ==
  /\ Owes(w, "create")
  /\ Abandon({w})
  /\ SayStatus("createInstance", None, 400) \/ Late
  /\ UNCHANGED <<clock, callVars, walk>>

\* The id of the 201 is that of the row, be it the client's or an older one; the
\* failure of the Save is only logged.  The 201 may be late, hence lost.
FinishCreate(w) ==
  /\ Owes(w, "create")
  /\ \/ Complete(w) /\ walk' = Moved(owed[w].id, owed[w].row.createdAt)
     \/ Unsettled(w)
  /\ known' = known \cup {<<owed[w].id, owed[w].row.target>>}
  /\ \/ Tell("createInstance", owed[w].id, 201, owed[w].id, owed[w].row.target)
     \/ SlowKoku /\ UNCHANGED complaints
  /\ UNCHANGED <<clock, callVars>>

------------------------------------------------------------------------------
(* Delete *)

StartDelete(w, i) ==
  /\ Free(w)
  /\ HandledBy("deleteInstance", i) = "deleteInstance"
  /\ \/ Condemn(w, i) /\ Silent
     \/ /\ \/ /\ i \notin DOMAIN rows
              /\ SayStatus("deleteInstance", i, 404)
           \/ /\ i \in DOMAIN rows /\ rows[i].status = "DELETED"
              /\ SayStatus("deleteInstance", i, 204)
           \/ StoreFaults /\ SayStatus("deleteInstance", i, 500)
        /\ UNCHANGED <<rows, owed>>
  /\ UNCHANGED <<clock, callVars, walk>>

FinishDelete(w) ==
  /\ Owes(w, "delete")
  /\ (Remove(w) /\ UNCHANGED walk) \/ Unsettled(w)
  /\ SayStatus("deleteInstance", owed[w].id, 204) \/ Late
  /\ UNCHANGED <<clock, callVars>>

------------------------------------------------------------------------------
(* The rest of the system *)

Reconcile ==
  /\ \E i \in Focus, s \in {"READY", "ERROR"} : Judge(i, s)
  /\ Silent
  /\ UNCHANGED <<clock, callVars, walk>>

\* The process stops and starts again.  Clients keep their tokens.
Restart ==
  /\ Abandon(Workers)
  /\ lookup' = [w \in Workers |-> NoRow]
  /\ reading' = [c \in Readers |-> NoRead]
  /\ Silent
  /\ UNCHANGED <<clock, walk>>

Next ==
  \/ \E op \in Operations : \E refusal \in Refusals(op) : Refuse(op, refusal)
  \/ \E op \in InstanceOps, i \in Ids : GetHealth(op, i) \/ GetInstance(op, i)
  \/ \E c \in Readers :
       \/ \E op \in ReportOps, i \in Focus : ReadCluster(c, op, i)
       \/ Proxy(c) \/ CountRows(c) \/ FindRows(c)
  \/ \E w \in Workers :
       \/ \E i \in Ids, t \in Targets : Insert(w, i, t)
       \/ \E i \in Ids : StartDelete(w, i)
       \/ RefuseTarget(w) \/ LookUpTarget(w) \/ Reset(w) \/ FailCreate(w)
       \/ RefuseCurrency(w) \/ FinishCreate(w) \/ FinishDelete(w)
  \/ Reconcile
  \/ Restart

Spec == Init /\ [][Next]_vars

------------------------------------------------------------------------------
(* Type invariant *)

ReadTypeOK ==
  \A c \in Readers :
    \/ reading[c] = NoRead
    \/ reading[c] \in [op : {"listInstances"}, total : Nat]
    \/ reading[c] \in [op : ReportOps, id : Ids, target : Targets]

\* Every variable holds what the code can put there.
TypeOK ==
  /\ IsRegistry(rows)
  /\ owed \in [Workers -> {NoDebt} \cup CreateDebt \cup DeleteDebt]
  /\ clock \in Nat
  /\ lookup \in [Workers -> {NoRow} \cup Entry]
  /\ DOMAIN reading = Readers /\ ReadTypeOK
  /\ walk \in [Readers -> Walk]
  /\ known \in SUBSET (Ids \X Targets)
  /\ complaints \subseteq {"unreadable", "refused", "hidden", "misrouted", "misplaced"}

------------------------------------------------------------------------------
(* Safety *)

\* The id of a 201 goes on to mean the same cluster, whether that answer arrived
\* or came too late: no later call for it is answered 404 or for another cluster,
\* although a create may be given the id of an older row (handler.go:145-154) and
\* rows are overwritten, deleted and taken over.
KnownIdsResolve ==
  \A k \in known : k[1] \in DOMAIN rows /\ rows[k[1]].target = k[2]

\* A call is served by an operation whose requests look like it, and what it is
\* told of an instance is of the one it asked for, and of its cluster as it is
\* when the answer is given: the row that usage, reports and forecasts read before
\* their call to Koku may have been deleted and taken over by then
\* (server.gen.go:841-864, handler.go:337-423).
AnswerIsAboutAsked == {"misrouted", "misplaced"} \cap complaints = {}

\* Whatever a handler answers is a response its operation declares, and the
\* client's caller finds it in a typed field, unless it is a 204.  Refusals on the
\* way to a handler are not meant: most are undeclared (UnreadableRefusals).
AnswersAreReadable == "unreadable" \notin complaints

\* "Returns the details of a specific cost instance", openapi.yaml line 145: a
\* call is served by the operation its client called, whatever the id.  It is not
\* so: the route of the health endpoint takes the GET of an instance "health"
\* (server.gen.go:847).  Without such an instance it is.
ServedAsMeant == "hidden" \notin complaints

\* A reader that has the last page has seen every row there was when it began,
\* but for those that were restamped meanwhile, those passed by a row that was
\* stamped back, and, when the last page was counted before an INSERT or not
\* counted at all, the rest: pages are cut by offset, newest first, and it is
\* because no row is ever removed that nothing else is missed
\* (handler.go:249-282, store.go:73-79).
WalkComplete == \A c \in Readers : ~Walking(c) => walk[c].due = {}

\* A token is always less than the number of rows: a reader with a token is
\* never given an empty page.
TokensLeadSomewhere ==
  \A c \in Readers : Walking(c) /\ walk[c].next > 0
                       => walk[c].next < Cardinality(DOMAIN rows)
================================================================================
