--------------------------- MODULE CostApiReaderProofs ---------------------------
(****************************************************************************)
(* What the clients of the interface are told, for all sets of ids,         *)
(* clusters, readers and workers and all sizes of pages: a handler is asked *)
(* what its operation's requests ask, and answers, readably, about the      *)
(* instance asked for; only an instance "health" is hidden by a route; and  *)
(* a walk through the list misses no row but for the reasons that           *)
(* WalkComplete names.                                                      *)
(****************************************************************************)
EXTENDS CostApiProofs, FiniteSetTheorems

------------------------------------------------------------------------------
(* Routing *)

\* A request that fits one route is served by it.
LEMMA OneFits ==
  ASSUME NEW request, NEW route \in Routes, Fits(request, route),
         \A other \in Routes : Fits(request, other) => other = route
  PROVE  Serves(request) = route.op
<1>1. {r \in Routes : Fits(request, r)} = {route}
  OBVIOUS
<1> QED  BY <1>1 DEF Serves

\* Of two routes that a request fits, the one with fewer parameters serves it.
LEMMA FewerParameters ==
  ASSUME NEW request, NEW route \in Routes, NEW second \in Routes,
         Fits(request, route), Fits(request, second),
         \A other \in Routes : Fits(request, other) => other \in {route, second},
         Params(route) \subseteq Params(second), ~(Params(second) \subseteq Params(route))
  PROVE  Serves(request) = route.op
<1> DEFINE fitting == {r \in Routes : Fits(request, r)}
           best(r) == \A other \in fitting : Params(r) \subseteq Params(other)
<1>1. fitting = {route, second}
  OBVIOUS
<1>2. best(route) /\ route \in fitting
  BY <1>1
<1>3. \A r \in fitting : best(r) => r = route
  BY <1>1
<1>4. (CHOOSE r \in fitting : best(r)) = route
  BY <1>2, <1>3
<1> QED  BY <1>4 DEF Serves

\* The table has one route per operation.
LEMMA RoutesByOp ==
  ASSUME NEW op \in Operations
  PROVE  \E route \in Routes : /\ route.op = op
                              /\ \A other \in Routes : other.op = op => other = route
  BY DEF Routes, Handle, Operations, CollectionOps, InstanceOps, ReportOps

\* The request for an operation fits the operation's route.
LEMMA HomeFits ==
  ASSUME NEW i, NEW route \in Routes
  PROVE  Fits(Request(route.op, i, "compute"), route)
<1> DEFINE q == Request(route.op, i, "compute")
<1>1. \/ q.path = <<"instances">> /\ route.path = <<"instances">>
      \/ q.path = <<"instances", "health">> /\ route.path = <<"instances", "health">>
      \/ q.path = <<"instances", i>> /\ route.path = <<"instances", Param>>
      \/ /\ q.path = <<"instances", i, "cost-reports">>
         /\ route.path = <<"instances", Param, "cost-reports">>
      \/ /\ q.path = <<"instances", i, "cost-reports", "forecast">>
         /\ route.path = <<"instances", Param, "cost-reports", "forecast">>
      \/ /\ q.path = <<"instances", i, "usage", "compute">>
         /\ route.path = <<"instances", Param, "usage", Param>>
  BY DEF Routes, Handle, Request, Ask, NewListInstancesRequest, NewCreateInstanceRequest,
     NewGetHealthRequest, NewDeleteInstanceRequest, NewGetInstanceRequest,
     NewGetCostReportRequest, NewGetCostForecastRequest, NewGetUsageRequest
<1>2. q.method = route.method
  BY DEF Routes, Handle, Request, Ask, NewListInstancesRequest, NewCreateInstanceRequest,
     NewGetHealthRequest, NewDeleteInstanceRequest, NewGetInstanceRequest,
     NewGetCostReportRequest, NewGetCostForecastRequest, NewGetUsageRequest
<1> HIDE DEF q
<1>3. Len(q.path) = Len(route.path)
  BY <1>1
<1>4. \A n \in DOMAIN route.path : route.path[n] \in {Param, q.path[n]}
  BY <1>1
<1> QED  BY <1>2, <1>3, <1>4 DEF Fits, q

\* ... and no other, but that "health" can be taken for an id.
LEMMA OthersDoNotFit ==
  ASSUME NEW i, NEW route \in Routes, NEW other \in Routes,
         Fits(Request(route.op, i, "compute"), other)
  PROVE  \/ other = route
         \/ route.op = "getHealth" /\ other.op = "getInstance"
         \/ route.op = "getInstance" /\ other.op = "getHealth" /\ i = "health"
<1> DEFINE q == Request(route.op, i, "compute")
<1>1. \/ q.path = <<"instances">> /\ route.path = <<"instances">> /\ Len(q.path) = 1
      \/ /\ q.path = <<"instances", "health">> /\ route.op = "getHealth"
         /\ route.path = <<"instances", "health">> /\ Len(q.path) = 2
      \/ /\ q.path = <<"instances", i>> /\ Len(q.path) = 2
         /\ route.path = <<"instances", Param>>
      \/ /\ q.path = <<"instances", i, "cost-reports">> /\ Len(q.path) = 3
         /\ route.path = <<"instances", Param, "cost-reports">>
      \/ /\ q.path = <<"instances", i, "cost-reports", "forecast">> /\ Len(q.path) = 4
         /\ route.path = <<"instances", Param, "cost-reports", "forecast">>
      \/ /\ q.path = <<"instances", i, "usage", "compute">> /\ Len(q.path) = 4
         /\ route.path = <<"instances", Param, "usage", Param>>
  BY DEF Routes, Handle, Request, Ask, NewListInstancesRequest, NewCreateInstanceRequest,
     NewGetHealthRequest, NewDeleteInstanceRequest, NewGetInstanceRequest,
     NewGetCostReportRequest, NewGetCostForecastRequest, NewGetUsageRequest
<1>2. q.method = route.method
  BY DEF Routes, Handle, Request, Ask, NewListInstancesRequest, NewCreateInstanceRequest,
     NewGetHealthRequest, NewDeleteInstanceRequest, NewGetInstanceRequest,
     NewGetCostReportRequest, NewGetCostForecastRequest, NewGetUsageRequest
<1>3. Fits(q, other)
  OBVIOUS
<1> HIDE DEF q
<1>4. other.method = route.method /\ Len(other.path) = Len(q.path)
  BY <1>2, <1>3 DEF Fits
<1>5. \A n \in DOMAIN other.path : other.path[n] \in {Param, q.path[n]}
  BY <1>3 DEF Fits
<1>6. CASE Len(q.path) = 1
  BY <1>6, <1>1, <1>4 DEF Routes, Handle
<1>7. CASE Len(q.path) = 2 /\ route.op = "getHealth" /\ q.path = <<"instances", "health">>
  BY <1>7, <1>1, <1>4 DEF Routes, Handle
<1>8. CASE /\ Len(q.path) = 2
           /\ q.path = <<"instances", i>> /\ route.path = <<"instances", Param>>
  <2>1. ASSUME other.op = "getHealth"
        PROVE  i = "health"
    <3>1. other.path = <<"instances", "health">>
      BY <2>1 DEF Routes, Handle
    <3>2. other.path[2] \in {Param, q.path[2]}
      BY <3>1, <1>5
    <3>3. other.path[2] = "health" /\ q.path[2] = i
      BY <3>1, <1>8
    <3> QED  BY <3>2, <3>3 DEF Param
  <2> QED  BY <2>1, <1>8, <1>4 DEF Routes, Handle
<1>9. CASE Len(q.path) = 3
  BY <1>9, <1>1, <1>4 DEF Routes, Handle
<1>10. CASE Len(q.path) = 4
  <2>1. \/ q.path[3] = "cost-reports" /\ route.op = "getCostForecast"
        \/ q.path[3] = "usage" /\ route.op = "getUsage"
    <3>1. CASE route.op = "getCostForecast"
      BY <3>1, <1>1, <1>10 DEF Routes, Handle
    <3>2. CASE route.op = "getUsage"
      BY <3>2, <1>1, <1>10 DEF Routes, Handle
    <3> QED  BY <3>1, <3>2, <1>1, <1>10 DEF Routes, Handle
  <2>2. \/ /\ other.path = <<"instances", Param, "cost-reports", "forecast">>
           /\ other.op = "getCostForecast"
        \/ /\ other.path = <<"instances", Param, "usage", Param>>
           /\ other.op = "getUsage"
    BY <1>10, <1>4 DEF Routes, Handle
  <2>3. other.path[3] \in {Param, q.path[3]}
    BY <1>10, <1>4, <1>5, <2>2
  <2>4. \/ other.path[3] = "cost-reports" /\ other.op = "getCostForecast"
        \/ other.path[3] = "usage" /\ other.op = "getUsage"
    BY <2>2
  <2>5. other.op = route.op
    BY <2>1, <2>4, <2>3 DEF Param
  <2> QED  BY <2>5, RoutesByOp DEF Routes, Handle
<1> QED  BY <1>1, <1>6, <1>7, <1>8, <1>9, <1>10

\* A call is served by the handler of its operation whatever the id, except that
\* of getInstance for an instance named "health" (server.gen.go:841-864).
LEMMA RoutedHome ==
  ASSUME NEW op \in Operations, NEW i, ~(op = "getInstance" /\ i = "health")
  PROVE  HandledBy(op, i) = op
<1> DEFINE q == Request(op, i, "compute")
<1>1. PICK route \in Routes : route.op = op
  BY RoutesByOp
<1>2. Fits(q, route)
  BY <1>1, HomeFits
<1>3. CASE op # "getHealth"
  <2>1. \A other \in Routes : Fits(q, other) => other = route
    BY <1>1, <1>3, OthersDoNotFit
  <2> QED  BY <1>1, <1>2, <2>1, OneFits DEF HandledBy
<1>4. CASE op = "getHealth"
  <2>1. PICK second \in Routes : second.op = "getInstance"
    BY DEF Routes, Handle
  <2>2. \A other \in Routes : Fits(q, other) => other \in {route, second}
    BY <1>1, <2>1, OthersDoNotFit, RoutesByOp DEF Operations, InstanceOps
  <2>3. Params(route) = {} /\ 2 \in Params(second)
    <3>1. route.path = <<"instances", "health">> /\ second.path = <<"instances", Param>>
      BY <1>1, <1>4, <2>1 DEF Routes, Handle
    <3>2. ASSUME NEW n \in DOMAIN route.path
          PROVE  route.path[n] # Param
      <4>1. n \in {1, 2}
        BY <3>1
      <4>2. route.path[1] = "instances" /\ route.path[2] = "health"
        BY <3>1
      <4> QED  BY <4>1, <4>2 DEF Param
    <3>3. 2 \in DOMAIN second.path /\ second.path[2] = Param
      BY <3>1
    <3> QED  BY <3>2, <3>3 DEF Params
  <2>4. Fits(q, second) => Serves(q) = op
    BY <1>1, <1>2, <2>2, <2>3, FewerParameters
  <2>5. ~Fits(q, second) => Serves(q) = op
    BY <1>1, <1>2, <2>2, OneFits
  <2> QED  BY <2>4, <2>5 DEF HandledBy
<1> QED  BY <1>3, <1>4

------------------------------------------------------------------------------
(* Answers *)

\* The statuses that the handlers answer an operation with.
Answers == [listInstances   |-> {200, 500},
            createInstance  |-> {201, 400, 409, 500},
            getHealth       |-> {200},
            deleteInstance  |-> {204, 404, 500},
            getInstance     |-> {200, 404, 500},
            getCostReport   |-> {200, 404, 500, 502},
            getCostForecast |-> {200, 404, 500, 502},
            getUsage        |-> {200, 404, 500, 502}]

\* The server can write such an answer, and the client can read it.
LEMMA HandlersReadable ==
  ASSUME NEW op \in Operations, NEW status \in Answers[op]
  PROVE  Readable(op, Answer(status))
<1>1. Visits(op) \subseteq Parses(op) \cup {204}
  BY DEF Operations, CollectionOps, InstanceOps, ReportOps, Visits, CollectionVisits,
     InstanceVisits, ReportVisits, UsageVisits, Parses, CollectionParses,
     InstanceParses, ReportParses, UsageParses
<1>2. status \in Visits(op)
  BY DEF Answers, Operations, CollectionOps, InstanceOps, ReportOps, Visits,
     CollectionVisits, InstanceVisits, ReportVisits, UsageVisits
<1>3. status \in Nat
  BY DEF Answers, Operations, CollectionOps, InstanceOps, ReportOps
<1>4. Answer(status).status = status
  BY <1>3 DEF Answer, Problem
<1>5. status # 204 => Answer(status).form \in {"application/json", "application/problem+json"}
  BY <1>3 DEF Answer, Problem
<1> QED  BY <1>1, <1>2, <1>4, <1>5 DEF Readable, Typed

\* Of what is refused before it reaches a handler, clients can read the 400s of the
\* two operations of the collection alone, and of createInstance not even all
\* (middleware.go:84-106, server.gen.go:1345-1346).
THEOREM UnreadableRefusals ==
  ASSUME NEW op \in Operations, NEW refusal \in Refusals(op)
  PROVE  Readable(op, refusal) <=> op \in CollectionOps /\ refusal = Problem(400)
<1>1. refusal \in {Problem(400), Problem(413), PlainText(400)}
  BY DEF Refusals, Refusal
<1>2. op \notin CollectionOps => 400 \notin Visits(op) /\ 413 \notin Visits(op)
  BY DEF Operations, CollectionOps, InstanceOps, ReportOps, Visits, InstanceVisits,
     ReportVisits, UsageVisits
<1>3. op \in CollectionOps => 400 \in Visits(op) /\ 400 \in Parses(op)
                              /\ 413 \notin Visits(op)
  BY DEF CollectionOps, InstanceOps, ReportOps, Visits, CollectionVisits, Parses,
     CollectionParses
<1> QED
  BY <1>1, <1>2, <1>3 DEF Readable, Typed, Problem, PlainText

\* The requests for the operation that serves a call look like that call: the GET
\* of an instance "health" is one of the health endpoint.
LEMMA ServedAlike ==
  ASSUME NEW op \in Operations, NEW i
  PROVE  Request(HandledBy(op, i), i, "compute") = Request(op, i, "compute")
<1>1. CASE ~(op = "getInstance" /\ i = "health")
  BY <1>1, RoutedHome
<1>2. CASE op = "getInstance" /\ i = "health"
  <2>1. Request(op, i, "compute") = Request("getHealth", i, "compute")
    BY <1>2 DEF Request, NewGetInstanceRequest, NewGetHealthRequest
  <2>2. HandledBy("getHealth", i) = "getHealth"
    BY RoutedHome DEF Operations, InstanceOps
  <2>3. HandledBy(op, i) = "getHealth"
    BY <2>1, <2>2 DEF HandledBy
  <2> QED  BY <2>1, <2>3
<1> QED  BY <1>1, <1>2

\* What clients may have to complain of: refusals, and a hidden instance if there
\* can be one.
Known == {"refused"} \cup {c \in {"hidden"} : "health" \in Ids}

\* There is nothing else in an answer that describes the instance asked for, with
\* its cluster, or none.
LEMMA NothingAmiss ==
  ASSUME NEW op \in Operations, NEW id, NEW about, NEW t,
         NEW status \in Answers[op],
         op = "getInstance" => id \in Ids,
         \/ op = "createInstance"
         \/ about = None
         \/ about = id /\ id \in DOMAIN rows /\ t = rows[id].target
  PROVE  Complaints(op, id, status, about, t) \subseteq Known
<1>1. Readable(op, Answer(status))
  BY HandlersReadable
<1>2. HandledBy(op, id) # op => "health" \in Ids
  BY RoutedHome
<1>3. Request(HandledBy(op, id), id, "compute") = Request(op, id, "compute")
  BY ServedAlike
<1> QED  BY <1>1, <1>2, <1>3, Zenon DEF Complaints, Known

------------------------------------------------------------------------------
(* What readers are in the middle of *)

\* A reader that waits for Koku holds the cluster that its instance has.
Reported ==
  \A c \in Readers : reading[c].op \in ReportOps =>
                       /\ reading[c].id \in DOMAIN rows
                       /\ reading[c].target = rows[reading[c].id].target

ReadersInv == /\ ApiInv
              /\ IsFiniteSet(DOMAIN rows)
              /\ DOMAIN reading = Readers
              /\ ReadTypeOK
              /\ Reported
              /\ complaints \subseteq Known

\* A step of the registry adds one row at most.
LEMMA OneRowMore ==
  ASSUME [RegistryNext]_registryVars
  PROVE  DOMAIN rows' = DOMAIN rows \/ \E i : DOMAIN rows' = DOMAIN rows \cup {i}
  BY DEF RegistryNext, WorkerStep, ReserveRow, TakeOver, ResetRow, Complete, Fail, Condemn,
     Remove, Judge, Abandon, registryVars, Create, Save, With, UpdateStatus

\* ... and takes none away.
LEMMA TableGrows ==
  ASSUME RegistryInv, IsFiniteSet(DOMAIN rows), [RegistryNext]_registryVars
  PROVE  /\ IsFiniteSet(DOMAIN rows')
         /\ Cardinality(DOMAIN rows) \in Nat
         /\ Cardinality(DOMAIN rows') \in Nat
         /\ Cardinality(DOMAIN rows) <= Cardinality(DOMAIN rows')
<1>1. IsFiniteSet(DOMAIN rows')
  BY OneRowMore, FS_AddElement
<1>2. DOMAIN rows \in SUBSET (DOMAIN rows')
  BY RegistryKeeps DEF RowsKept
<1> QED  BY <1>1, <1>2, FS_Subset, FS_CardinalityType

\* The reads of the steps of a reader.
LEMMA ReadingKept ==
  ASSUME ReadersInv, RowsKept, NEW c \in Readers, NEW read,
         reading' = [reading EXCEPT ![c] = read],
         \/ read = NoRead
         \/ read \in [op : {"listInstances"}, total : Nat]
         \/ /\ read \in [op : ReportOps, id : Ids, target : Targets]
            /\ read.id \in DOMAIN rows /\ read.target = rows[read.id].target
  PROVE  DOMAIN reading' = Readers /\ ReadTypeOK' /\ Reported'
<1>1. DOMAIN reading' = Readers
  BY DEF ReadersInv
<1>2. \A d \in Readers : reading'[d] = IF d = c THEN read ELSE reading[d]
  BY DEF ReadersInv
<1>3. ReadTypeOK'
  BY <1>2 DEF ReadersInv, ReadTypeOK
<1>4. Reported'
  BY <1>2 DEF ReadersInv, Reported, RowsKept, NoRead, ReportOps
<1> QED  BY <1>1, <1>3, <1>4

\* A reader's step leaves what the readers hold typed and true.
LEMMA ReaderReads ==
  ASSUME ReadersInv, RowsKept, NEW c \in Readers,
         \/ \E op \in ReportOps, i \in Focus : ReadCluster(c, op, i)
         \/ Proxy(c) \/ CountRows(c) \/ FindRows(c)
  PROVE  DOMAIN reading' = Readers /\ ReadTypeOK' /\ Reported'
<1>1. CASE UNCHANGED reading
  BY <1>1 DEF ReadersInv, ReadTypeOK, Reported, RowsKept
<1>2. ASSUME NEW op \in ReportOps, NEW i \in Focus, ReadCluster(c, op, i), ~UNCHANGED reading
      PROVE  DOMAIN reading' = Readers /\ ReadTypeOK' /\ Reported'
  <2> DEFINE read == [op |-> op, id |-> i, target |-> rows[i].target]
  <2>1. i \in DOMAIN rows /\ reading' = [reading EXCEPT ![c] = read]
    BY <1>2 DEF ReadCluster
  <2>2. rows[i].target \in Targets /\ i \in Ids
    BY <2>1, FocusAssumption DEF ReadersInv, ApiInv, RegistryInv, IsRegistry, Entry
  <2>3. /\ read \in [op : ReportOps, id : Ids, target : Targets]
        /\ read.id \in DOMAIN rows /\ read.target = rows[read.id].target
    BY <2>1, <2>2
  <2> HIDE DEF read
  <2> QED  BY <2>1, <2>3, ReadingKept
<1>3. CASE Proxy(c) \/ FindRows(c)
  BY <1>3, ReadingKept DEF Proxy, FindRows
<1>4. CASE CountRows(c)
  <2>1. Cardinality(DOMAIN rows) \in Nat
    BY FS_CardinalityType DEF ReadersInv
  <2>2. PICK read \in [op : {"listInstances"}, total : Nat] :
          reading' = [reading EXCEPT ![c] = read]
    BY <1>4, <2>1 DEF CountRows
  <2> QED  BY <2>2, ReadingKept
<1> QED  BY <1>1, <1>2, <1>3, <1>4

\* So does every step.
LEMMA ReadersStep ==
  ASSUME ReadersInv, [Next]_vars
  PROVE  DOMAIN reading' = Readers /\ ReadTypeOK' /\ Reported'
<1>1. RowsKept
  BY ApiStep, RegistryKeeps DEF ReadersInv, ApiInv
<1>2. CASE UNCHANGED reading
  BY <1>1, <1>2 DEF ReadersInv, ReadTypeOK, Reported, RowsKept
<1>3. CASE reading' = [c \in Readers |-> NoRead]
  BY <1>3 DEF ReadTypeOK, Reported, NoRead, ReportOps
<1>4. CASE \E c \in Readers :
             \/ \E op \in ReportOps, i \in Focus : ReadCluster(c, op, i)
             \/ Proxy(c) \/ CountRows(c) \/ FindRows(c)
  BY <1>1, <1>4, ReaderReads
<1>5. ASSUME NEW w \in Workers,
             \/ \E i \in Ids, t \in Targets : Insert(w, i, t)
             \/ \E i \in Ids : StartDelete(w, i)
             \/ RefuseTarget(w) \/ LookUpTarget(w) \/ Reset(w) \/ FailCreate(w)
             \/ RefuseCurrency(w) \/ FinishCreate(w) \/ FinishDelete(w)
      PROVE  UNCHANGED reading
  BY <1>5 DEF Insert, StartDelete, RefuseTarget, LookUpTarget, Reset, FailCreate,
     RefuseCurrency, FinishCreate, FinishDelete, callVars
<1>6. (Next \/ UNCHANGED vars) =>
        \/ UNCHANGED reading
        \/ reading' = [c \in Readers |-> NoRead]
        \/ \E c \in Readers :
             \/ \E op \in ReportOps, i \in Focus : ReadCluster(c, op, i)
             \/ Proxy(c) \/ CountRows(c) \/ FindRows(c)
  BY <1>5 DEF Next, Refuse, GetHealth, GetInstance, Reconcile, Restart, callVars, vars
<1> QED  BY <1>2, <1>3, <1>4, <1>6

------------------------------------------------------------------------------
(* Complaints *)

\* An answer about the instance asked for.
LEMMA TellClean ==
  ASSUME complaints \subseteq Known,
         NEW op \in Operations, NEW id, NEW status \in Answers[op],
         op = "getInstance" => id \in Ids,
         NEW about, NEW t, Tell(op, id, status, about, t),
         \/ op = "createInstance"
         \/ about = id /\ id \in DOMAIN rows /\ t = rows[id].target
  PROVE  complaints' \subseteq Known
  BY NothingAmiss DEF Tell

\* A bare status.
LEMMA SayStatusClean ==
  ASSUME complaints \subseteq Known,
         NEW op \in Operations, NEW id, NEW status \in Answers[op],
         op = "getInstance" => id \in Ids,
         SayStatus(op, id, status)
  PROVE  complaints' \subseteq Known
  BY NothingAmiss DEF SayStatus, Say, Tell

\* Calls that do not get as far as their handler, and reads of one statement.
LEMMA ReadsClean ==
  ASSUME ReadersInv,
         \/ \E op \in Operations : \E refusal \in Refusals(op) : Refuse(op, refusal)
         \/ \E op \in InstanceOps, i \in Ids : GetHealth(op, i) \/ GetInstance(op, i)
  PROVE  complaints' \subseteq Known
<1>1. ASSUME NEW op, NEW refusal, Refuse(op, refusal)
      PROVE  complaints' \subseteq Known
  BY <1>1 DEF Refuse, ReadersInv, Known
<1>2. ASSUME NEW op \in InstanceOps, NEW i \in Ids, GetHealth(op, i)
      PROVE  complaints' \subseteq Known
  <2>1. op \in Operations /\ 200 \in Answers[op]
    BY <1>2, RoutedHome DEF GetHealth, Operations, InstanceOps, Answers
  <2> QED  BY <1>2, <2>1, SayStatusClean DEF GetHealth, ReadersInv
<1>3. ASSUME NEW op \in InstanceOps, NEW i \in Ids, GetInstance(op, i)
      PROVE  complaints' \subseteq Known
  <2>1. op = "getInstance"
    BY <1>3, RoutedHome DEF GetInstance, Operations, InstanceOps
  <2>2. op \in Operations /\ {200, 404, 500} \subseteq Answers[op]
    BY <2>1 DEF Operations, InstanceOps, Answers
  <2>3. complaints \subseteq Known
    BY DEF ReadersInv
  <2>4. CASE i \in DOMAIN rows /\ Say(op, i, 200, i, rows[i].target)
    BY <2>2, <2>3, <2>4, TellClean DEF Say
  <2>5. CASE SayStatus(op, i, 404) \/ SayStatus(op, i, 500)
    BY <2>2, <2>3, <2>5, SayStatusClean
  <2> QED  BY <1>3, <2>4, <2>5 DEF GetInstance
<1> QED  BY <1>1, <1>2, <1>3

\* Reads of two: the list, and what Koku knows of a cluster.
LEMMA ReadersClean ==
  ASSUME ReadersInv, NEW c \in Readers,
         \/ \E op \in ReportOps, i \in Focus : ReadCluster(c, op, i)
         \/ Proxy(c) \/ CountRows(c) \/ FindRows(c)
  PROVE  complaints' \subseteq Known
<1>1. \A op \in ReportOps : /\ op \in Operations /\ op # "getInstance"
                            /\ {200, 404, 500, 502} \subseteq Answers[op]
  BY DEF Operations, ReportOps, Answers
<1>2. "listInstances" \in Operations /\ {200, 500} \subseteq Answers["listInstances"]
  BY DEF Operations, CollectionOps, Answers
<1>3. complaints \subseteq Known
  BY DEF ReadersInv
<1>4. ASSUME NEW op \in ReportOps, NEW i \in Focus, ReadCluster(c, op, i)
      PROVE  complaints' \subseteq Known
  BY <1>1, <1>3, <1>4, SayStatusClean DEF ReadCluster, Silent
<1>5. CASE Proxy(c)
  <2>1. /\ reading[c].id \in DOMAIN rows
        /\ reading[c].target = rows[reading[c].id].target
    BY <1>5 DEF Proxy, ReadersInv, Reported
  <2>2. reading[c].op \in ReportOps
    BY <1>5 DEF Proxy
  <2>3. CASE Tell(reading[c].op, reading[c].id, 200, reading[c].id, reading[c].target)
    BY <1>1, <1>3, <2>1, <2>2, <2>3, TellClean
  <2>4. CASE SayStatus(reading[c].op, reading[c].id, 502)
    BY <1>1, <1>3, <2>2, <2>4, SayStatusClean
  <2>5. CASE Late
    BY <1>3, <2>5 DEF Late, Silent
  <2> QED  BY <1>5, <2>3, <2>4, <2>5 DEF Proxy, Say
<1>6. CASE CountRows(c)
  BY <1>3, <1>6 DEF CountRows, Silent
<1>7. CASE FindRows(c)
  BY <1>2, <1>3, <1>7, SayStatusClean DEF FindRows
<1> QED  BY <1>4, <1>5, <1>6, <1>7

\* Creates, deletes, and what clients do not see.
LEMMA WritersClean ==
  ASSUME ReadersInv,
         \/ \E w \in Workers :
              \/ \E i \in Ids, t \in Targets : Insert(w, i, t)
              \/ \E i \in Ids : StartDelete(w, i)
              \/ RefuseTarget(w) \/ LookUpTarget(w) \/ Reset(w) \/ FailCreate(w)
              \/ RefuseCurrency(w) \/ FinishCreate(w) \/ FinishDelete(w)
         \/ Reconcile
         \/ Restart
  PROVE  complaints' \subseteq Known
<1> DEFINE create == "createInstance"
           delete == "deleteInstance"
<1>1. create \in Operations /\ {201, 400, 409, 500} \subseteq Answers[create]
  BY DEF Operations, CollectionOps, Answers
<1>2. delete \in Operations /\ {204, 404, 500} \subseteq Answers[delete]
  BY DEF Operations, InstanceOps, Answers
<1>3. complaints \subseteq Known
  BY DEF ReadersInv
<1> USE DEF Silent, Late
<1>4. ASSUME NEW w \in Workers, NEW i \in Ids, NEW t \in Targets, Insert(w, i, t)
      PROVE  complaints' \subseteq Known
  BY <1>1, <1>3, <1>4, SayStatusClean DEF Insert
<1>5. ASSUME NEW w \in Workers, RefuseTarget(w) \/ LookUpTarget(w) \/ Reset(w)
      PROVE  complaints' \subseteq Known
  BY <1>1, <1>3, <1>5, SayStatusClean DEF RefuseTarget, LookUpTarget, Reset
<1>6. ASSUME NEW w \in Workers, FailCreate(w) \/ RefuseCurrency(w) \/ FinishCreate(w)
      PROVE  complaints' \subseteq Known
  <2>1. CASE FailCreate(w) \/ RefuseCurrency(w)
    BY <1>1, <1>3, <2>1, SayStatusClean DEF FailCreate, RefuseCurrency
  <2>2. ASSUME Tell(create, owed[w].id, 201, owed[w].id, owed[w].row.target)
        PROVE  complaints' \subseteq Known
    BY <1>1, <1>3, <2>2, TellClean
  <2>3. CASE FinishCreate(w)
    BY <1>3, <2>2, <2>3 DEF FinishCreate
  <2> QED  BY <1>6, <2>1, <2>3
<1>7. ASSUME NEW w \in Workers, FinishDelete(w) \/ \E i \in Ids : StartDelete(w, i)
      PROVE  complaints' \subseteq Known
  BY <1>2, <1>3, <1>7, SayStatusClean DEF FinishDelete, StartDelete
<1>8. CASE Reconcile \/ Restart
  BY <1>3, <1>8 DEF Reconcile, Restart
<1> QED  BY <1>4, <1>5, <1>6, <1>7, <1>8

\* All of this holds throughout.
LEMMA ReadersAlways == Spec => []ReadersInv
<1>1. Init => ReadersInv
  BY RegistryStarts, ClockAssumption, InheritedAssumption
  DEF Init, ReadersInv, ApiInv, LookupTyped, KnownIdsResolve, ReadTypeOK, Reported, NoRead,
      ReportOps
<1>2. ASSUME ReadersInv, ApiInv', [Next]_vars
      PROVE  ReadersInv'
  <2>1. IsFiniteSet(DOMAIN rows')
    BY <1>2, ApiStep, TableGrows DEF ReadersInv, ApiInv
  <2>2. complaints' \subseteq Known
    BY <1>2, ReadsClean, ReadersClean, WritersClean DEF Next, vars, ReadersInv
  <2> QED  BY <1>2, <2>1, <2>2, ReadersStep DEF ReadersInv
<1> QED  BY <1>1, <1>2, ApiAlways, PTL DEF Spec

\* Whatever a handler answers, to whomever and after whatever, its operation
\* declares and the generated client has a typed field for, a 204 excepted
\* (handler.go:61-440, server.gen.go:868-1305).
THEOREM AnswersReadable == Spec => []AnswersAreReadable
<1>1. ReadersInv => AnswersAreReadable
  BY DEF ReadersInv, Known, AnswersAreReadable
<1> QED  BY <1>1, ReadersAlways, PTL

\* A call for an instance, whatever its id, is served by an operation that is asked
\* for by just such a request; what a handler says of an instance is of the one
\* asked for and of its cluster, although the cluster was read before Koku was asked
\* (handler.go:337-423, server.gen.go:841-864).
THEOREM AnswersAboutAsked == Spec => []AnswerIsAboutAsked
<1>1. ReadersInv => AnswerIsAboutAsked
  BY DEF ReadersInv, Known, AnswerIsAboutAsked
<1> QED  BY <1>1, ReadersAlways, PTL

\* Of all ids, only "health" can hide an instance from a client: without it, every
\* call is served by the operation that was called (server.gen.go:841-864).
THEOREM OnlyHealthHidden ==
  ASSUME "health" \notin Ids
  PROVE  Spec => []ServedAsMeant
<1>1. ReadersInv => ServedAsMeant
  BY DEF ReadersInv, Known, ServedAsMeant
<1> QED  BY <1>1, ReadersAlways, PTL

------------------------------------------------------------------------------
(* Stamps *)

\* A create that looks for its cluster's row, and one that will write a row.
Pending(w) == lookup[w] # NoRow
Writes(w)  == owed[w].kind \in {"reset", "create"}

\* created_at comes from the clock ...
RowsStamped == \A i \in DOMAIN rows : rows[i].createdAt <= clock

\* ... and is that of one create.  One that looks for its row has a stamp that no
\* row and no other create has,
PendingStamped ==
  \A w \in Workers : Pending(w) =>
    /\ lookup[w].createdAt <= clock
    /\ \A i \in DOMAIN rows : rows[i].createdAt # lookup[w].createdAt
    /\ \A v \in Workers :
         /\ v # w /\ Pending(v) => lookup[v].createdAt # lookup[w].createdAt
         /\ Writes(v) => owed[v].row.createdAt # lookup[w].createdAt

\* and one that will write a row has a stamp that at most that row has.
WritesStamped ==
  \A w \in Workers : Writes(w) =>
    /\ owed[w].row.createdAt <= clock
    /\ \A i \in DOMAIN rows : rows[i].createdAt = owed[w].row.createdAt => i = owed[w].id
    /\ \A v \in Workers :
         v # w /\ Writes(v) => owed[v].row.createdAt # owed[w].row.createdAt

StampsInv == RowsStamped /\ PendingStamped /\ WritesStamped

\* The stamps are numbers.
StampsTyped ==
  /\ clock \in Nat
  /\ \A i \in DOMAIN rows : rows[i].createdAt \in Nat
  /\ \A w \in Workers : /\ Pending(w) => lookup[w].createdAt \in Nat
                        /\ Writes(w) => owed[w].row.createdAt \in Nat

\* Rows and debts are typed, and so are their stamps.
LEMMA StampsAreTyped == ApiInv => StampsTyped
<1> SUFFICES ASSUME ApiInv PROVE StampsTyped
  OBVIOUS
<1>1. \A r \in Entry : r.createdAt \in Nat
  BY StampsAssumption DEF Entry
<1>2. \A i \in DOMAIN rows : rows[i] \in Entry
  BY DEF ApiInv, RegistryInv, IsRegistry
<1>3. \A w \in Workers : Pending(w) => lookup[w] \in Entry
  BY DEF ApiInv, LookupTyped, Pending
<1>4. \A w \in Workers : Writes(w) => owed[w].row \in Entry
  BY DebtType DEF ApiInv, Writes
<1> QED  BY <1>1, <1>2, <1>3, <1>4 DEF StampsTyped, ApiInv, LookupTyped

\* What a step may do: leave the stamps of the rows,
SameStamps ==
  /\ DOMAIN rows' = DOMAIN rows
  /\ \A i \in DOMAIN rows : rows'[i].createdAt = rows[i].createdAt

\* write the row that worker u owes,
OwedSaved(u) ==
  /\ DOMAIN rows' = DOMAIN rows
  /\ \A i \in DOMAIN rows :
       rows'[i].createdAt = IF i = owed[u].id THEN owed[u].row.createdAt
                                              ELSE rows[i].createdAt

\* and let creates go on as they were, or end.
CreatesGoOn ==
  \A w \in Workers :
    /\ Pending(w)' => Pending(w) /\ lookup'[w] = lookup[w]
    /\ Writes(w)' => Writes(w) /\ owed'[w].id = owed[w].id /\ owed'[w].row = owed[w].row

\* No stamp is new: the clock goes on, and creates go on or end.
LEMMA NoNewStamp ==
  ASSUME StampsInv, StampsTyped, clock' \in Nat, clock <= clock',
         SameStamps, CreatesGoOn
  PROVE  StampsInv'
<1>1. RowsStamped'
  BY DEF SameStamps, CreatesGoOn, StampsInv, StampsTyped, RowsStamped
<1>2. PendingStamped'
  BY DEF SameStamps, CreatesGoOn, StampsInv, StampsTyped, PendingStamped
<1>3. WritesStamped'
  BY DEF SameStamps, CreatesGoOn, StampsInv, StampsTyped, WritesStamped
<1> QED  BY <1>1, <1>2, <1>3 DEF StampsInv

\* A create writes the row it owes.
LEMMA OwedStamp ==
  ASSUME StampsInv, StampsTyped, NEW u \in Workers, Writes(u), UNCHANGED clock,
         OwedSaved(u), CreatesGoOn
  PROVE  StampsInv'
<1>1. RowsStamped'
  BY DEF OwedSaved, CreatesGoOn, StampsInv, StampsTyped, RowsStamped, WritesStamped
<1>2. PendingStamped'
  BY DEF OwedSaved, CreatesGoOn, StampsInv, StampsTyped, PendingStamped
<1>3. WritesStamped'
  BY DEF OwedSaved, CreatesGoOn, StampsInv, StampsTyped, WritesStamped
<1> QED  BY <1>1, <1>2, <1>3 DEF StampsInv

\* A create that has found its row will write it.
LEMMA PassedOnStamp ==
  ASSUME StampsInv, StampsTyped, NEW u \in Workers, Pending(u), ~Pending(u)',
         UNCHANGED <<clock, rows>>,
         \A w \in Workers \ {u} : lookup'[w] = lookup[w],
         owed'[u].row.createdAt = lookup[u].createdAt,
         \A w \in Workers \ {u} : owed'[w] = owed[w]
  PROVE  StampsInv'
<1>1. RowsStamped'
  BY DEF StampsInv, StampsTyped, RowsStamped
<1>2. PendingStamped'
  BY DEF StampsInv, StampsTyped, PendingStamped, Writes, Pending
<1>3. WritesStamped'
  BY DEF StampsInv, StampsTyped, WritesStamped, PendingStamped, Writes, Pending
<1> QED  BY <1>1, <1>2, <1>3 DEF StampsInv

\* A create that finds its cluster vacant stamps a row,
LEMMA RowStamp ==
  ASSUME StampsInv, StampsTyped, NEW u \in Workers, clock' = clock + 1, NEW i,
         i \notin DOMAIN rows, DOMAIN rows' = DOMAIN rows \cup {i},
         rows'[i].createdAt = clock + 1,
         \A j \in DOMAIN rows : rows'[j] = rows[j],
         UNCHANGED lookup,
         owed'[u].id = i, owed'[u].row.createdAt = clock + 1,
         \A w \in Workers \ {u} : owed'[w] = owed[w]
  PROVE  StampsInv'
<1>1. RowsStamped'
  BY DEF StampsInv, StampsTyped, RowsStamped
<1>2. PendingStamped'
  BY DEF StampsInv, StampsTyped, PendingStamped, Writes, Pending
<1>3. WritesStamped'
  BY DEF StampsInv, StampsTyped, WritesStamped, RowsStamped, Writes
<1> QED  BY <1>1, <1>2, <1>3 DEF StampsInv

\* and one that does not, looks for its row.
LEMMA LookupStamp ==
  ASSUME StampsInv, StampsTyped, NEW u \in Workers, clock' = clock + 1,
         UNCHANGED <<rows, owed>>,
         lookup'[u].createdAt = clock + 1,
         \A w \in Workers \ {u} : lookup'[w] = lookup[w]
  PROVE  StampsInv'
<1>1. RowsStamped'
  BY DEF StampsInv, StampsTyped, RowsStamped
<1>2. PendingStamped'
  BY DEF StampsInv, StampsTyped, PendingStamped, WritesStamped, RowsStamped, Writes, Pending
<1>3. WritesStamped'
  BY DEF StampsInv, StampsTyped, WritesStamped, Writes
<1> QED  BY <1>1, <1>2, <1>3 DEF StampsInv

\* Nothing is stamped.
NothingStamped ==
  SameStamps /\ CreatesGoOn /\ clock' \in Nat /\ clock <= clock'

\* A status changes no stamp,
LEMMA StatusStamps ==
  ASSUME RegistryInv, NEW i, NEW s, rows' = UpdateStatus(rows, i, s)
  PROVE  SameStamps
<1>1. \A j \in DOMAIN rows : rows[j] \in Entry
  BY DEF RegistryInv, IsRegistry
<1>2. DOMAIN rows' = DOMAIN rows
  BY DEF UpdateStatus
<1>3. \A j \in DOMAIN rows : rows'[j].createdAt = rows[j].createdAt
  BY <1>1 DEF UpdateStatus, Entry
<1> QED  BY <1>2, <1>3 DEF SameStamps

\* the Save of an owed row that of one row.
LEMMA SaveStamps ==
  ASSUME RegistryInv, NEW u \in Workers, Writes(u),
         rows' = Save(rows, owed[u].id, owed[u].row)
  PROVE  OwedSaved(u)
<1>1. owed[u].id \in DOMAIN rows
  BY DebtType DEF Writes
<1> QED  BY <1>1 DEF Save, With, OwedSaved

\* A create that has written its row, or given up, owes no other.
LEMMA CreateGoesOn ==
  ASSUME RegistryInv, UNCHANGED lookup, NEW u \in Workers, NEW debt, Owe(u, debt),
         \/ debt.kind \notin {"reset", "create"}
         \/ Writes(u) /\ debt.id = owed[u].id /\ debt.row = owed[u].row
  PROVE  CreatesGoOn
<1>1. \A w \in Workers : owed'[w] = IF w = u THEN debt ELSE owed[w]
  BY DEF RegistryInv, Owe
<1> QED  BY <1>1 DEF CreatesGoOn, Pending, Writes

\* So with those that are dropped.
LEMMA AbandonedEnd ==
  ASSUME NEW S, Abandon(S),
         \A w \in Workers : lookup'[w] \in {lookup[w], NoRow}
  PROVE  SameStamps /\ CreatesGoOn
<1>1. \A w \in Workers : owed'[w] \in {owed[w], NoDebt}
  BY DEF Abandon
<1> QED  BY <1>1 DEF Abandon, SameStamps, CreatesGoOn, Pending, Writes, NoDebt

\* The requests and verdicts that stamp nothing.
LEMMA QuietStep ==
  ASSUME ApiInv,
         \/ UNCHANGED <<registryVars, clock, lookup>>
         \/ \E w \in Workers :
              \/ \E i \in Ids : StartDelete(w, i)
              \/ FailCreate(w) \/ RefuseCurrency(w) \/ FinishDelete(w)
         \/ Reconcile
         \/ Restart
  PROVE  NothingStamped
<1> USE DEF ApiInv
<1>1. clock \in Nat
  BY DEF LookupTyped
<1>2. CASE UNCHANGED <<registryVars, clock, lookup>>
  BY <1>1, <1>2 DEF NothingStamped, SameStamps, CreatesGoOn, registryVars, Pending, Writes
<1>3. ASSUME NEW w \in Workers, NEW i \in Ids, StartDelete(w, i)
      PROVE  NothingStamped
  <2>1. CASE UNCHANGED <<rows, owed>>
    BY <1>1, <1>3, <2>1 DEF StartDelete, callVars, NothingStamped, SameStamps, CreatesGoOn,
       Pending, Writes
  <2>2. CASE Condemn(w, i)
    BY <1>1, <1>3, <2>2, CreateGoesOn DEF StartDelete, callVars, Condemn, NothingStamped,
       SameStamps
  <2> QED  BY <1>3, <2>1, <2>2 DEF StartDelete
<1>4. ASSUME NEW w \in Workers, Abandon({w}), UNCHANGED <<clock, lookup>>
      PROVE  NothingStamped
  BY <1>1, <1>4, AbandonedEnd DEF NothingStamped
<1>5. ASSUME NEW w \in Workers, Fail(w) \/ Remove(w), UNCHANGED <<clock, lookup>>
      PROVE  NothingStamped
  <2>1. SameStamps
    BY <1>5, StatusStamps DEF Fail, Remove
  <2>2. CreatesGoOn
    BY <1>5, CreateGoesOn DEF Fail, Remove, NoDebt
  <2> QED  BY <1>1, <1>5, <2>1, <2>2 DEF NothingStamped
<1>6. ASSUME NEW w \in Workers, FailCreate(w) \/ RefuseCurrency(w) \/ FinishDelete(w)
      PROVE  NothingStamped
  BY <1>4, <1>5, <1>6 DEF FailCreate, RefuseCurrency, FinishDelete, Unsettled, callVars
<1>7. CASE Reconcile
  <2>1. SameStamps
    BY <1>7, StatusStamps DEF Reconcile, Judge
  <2> QED  BY <1>1, <1>7, <2>1 DEF Reconcile, Judge, callVars, NothingStamped, CreatesGoOn,
           Pending, Writes
<1>8. CASE Restart
  BY <1>1, <1>8, AbandonedEnd DEF Restart, NothingStamped
<1> QED  BY <1>2, <1>3, <1>6, <1>7, <1>8

\* A create's later writes stamp its row, or nothing.
LEMMA SaveStep ==
  ASSUME ApiInv, NEW w \in Workers, Reset(w) \/ FinishCreate(w)
  PROVE  \/ NothingStamped /\ UNCHANGED walk
         \/ /\ Writes(w) /\ OwedSaved(w) /\ CreatesGoOn /\ UNCHANGED clock
            /\ walk' = Moved(owed[w].id, owed[w].row.createdAt)
<1> USE DEF ApiInv
<1>1. UNCHANGED <<clock, lookup>> /\ clock \in Nat
  BY DEF Reset, FinishCreate, callVars, LookupTyped
<1>2. CASE Unsettled(w)
  BY <1>1, <1>2, AbandonedEnd DEF Unsettled, NothingStamped
<1>3. ASSUME ResetRow(w)
      PROVE  Writes(w) /\ OwedSaved(w) /\ CreatesGoOn
  <2> DEFINE debt == [owed[w] EXCEPT !.kind = "create"]
  <2>1. Writes(w) /\ Owe(w, debt)
    BY <1>3 DEF ResetRow, Owes, Writes
  <2>2. owed[w] \in CreateDebt
    BY <2>1, DebtType DEF Writes
  <2>3. debt.id = owed[w].id /\ debt.row = owed[w].row
    BY <2>2 DEF CreateDebt
  <2> HIDE DEF debt
  <2>4. CreatesGoOn
    BY <1>1, <2>1, <2>3, CreateGoesOn
  <2>5. OwedSaved(w)
    BY <1>3, <2>1, SaveStamps DEF ResetRow
  <2> QED  BY <2>1, <2>4, <2>5
<1>4. ASSUME Complete(w)
      PROVE  Writes(w) /\ OwedSaved(w) /\ CreatesGoOn
  <2>1. Writes(w)
    BY <1>4 DEF Complete, Owes, Writes
  <2>2. CreatesGoOn
    BY <1>1, <1>4, CreateGoesOn DEF Complete, NoDebt
  <2>3. OwedSaved(w)
    BY <1>4, <2>1, SaveStamps DEF Complete
  <2> QED  BY <2>1, <2>2, <2>3
<1>5. CASE /\ ResetRow(w) \/ Complete(w)
           /\ walk' = Moved(owed[w].id, owed[w].row.createdAt)
  BY <1>1, <1>3, <1>4, <1>5
<1>6. CASE Unsettled(w) /\ UNCHANGED walk
  BY <1>2, <1>6
<1> QED  BY <1>5, <1>6, Zenon DEF Reset, FinishCreate, Unsettled

\* An INSERT puts a stamped row before the others, or stamps the row of a create
\* that will look for its cluster's, or fails.
LEMMA InsertStamps ==
  ASSUME ApiInv, NEW w \in Workers, NEW i \in Ids, NEW t \in Targets, Insert(w, i, t)
  PROVE  \/ /\ i \notin DOMAIN rows /\ DOMAIN rows' = DOMAIN rows \cup {i}
            /\ rows'[i].createdAt = clock + 1
            /\ \A j \in DOMAIN rows : rows'[j] = rows[j]
            /\ clock' = clock + 1 /\ UNCHANGED lookup
            /\ owed'[w].id = i /\ owed'[w].row.createdAt = clock + 1
            /\ \A v \in Workers \ {w} : owed'[v] = owed[v]
            /\ walk' = Pushed
         \/ /\ clock' = clock + 1 /\ UNCHANGED <<rows, owed, walk>>
            /\ lookup'[w].createdAt = clock + 1
            /\ \A v \in Workers \ {w} : lookup'[v] = lookup[v]
         \/ NothingStamped /\ UNCHANGED walk
<1> USE DEF ApiInv, RegistryInv, LookupTyped
<1>1. Fresh(t, clock + 1).createdAt = clock + 1
  BY DEF Fresh
<1>2. CASE ReserveRow(w, i, t, clock + 1) /\ UNCHANGED lookup /\ walk' = Pushed
  <2>1. /\ i \notin DOMAIN rows /\ DOMAIN rows' = DOMAIN rows \cup {i}
        /\ rows'[i].createdAt = clock + 1
        /\ \A j \in DOMAIN rows : rows'[j] = rows[j]
    BY <1>1, <1>2 DEF ReserveRow, Vacant, Create, With
  <2>2. /\ owed'[w] = [kind |-> "create", id |-> i, row |-> Fresh(t, clock + 1)]
        /\ \A v \in Workers \ {w} : owed'[v] = owed[v]
    BY <1>2 DEF ReserveRow, Owe
  <2>3. owed'[w].id = i /\ owed'[w].row.createdAt = clock + 1
    BY <1>1, <2>2
  <2>4. clock' = clock + 1
    BY DEF Insert
  <2> QED  BY <1>2, <2>1, <2>2, <2>3, <2>4
<1>3. CASE /\ lookup' = [lookup EXCEPT ![w] = Fresh(t, clock + 1)]
           /\ UNCHANGED <<rows, owed, walk>>
  BY <1>1, <1>3 DEF Insert
<1>4. CASE UNCHANGED <<rows, owed, walk, lookup>>
  BY <1>4 DEF Insert, NothingStamped, SameStamps, CreatesGoOn, Pending, Writes
<1> QED  BY <1>2, <1>3, <1>4 DEF Insert

\* A look-up passes the stamp on to the row found, or drops it.
LEMMA LookUpStamps ==
  ASSUME ApiInv, NEW w \in Workers, LookUpTarget(w)
  PROVE  \/ /\ Pending(w) /\ ~Pending(w)' /\ UNCHANGED <<clock, rows>>
            /\ \A v \in Workers \ {w} : lookup'[v] = lookup[v]
            /\ owed'[w].row.createdAt = lookup[w].createdAt
            /\ \A v \in Workers \ {w} : owed'[v] = owed[v]
         \/ NothingStamped
<1> USE DEF ApiInv, RegistryInv, LookupTyped
<1>1. /\ Pending(w) /\ lookup'[w] = NoRow /\ UNCHANGED clock
      /\ \A v \in Workers \ {w} : lookup'[v] = lookup[v]
  BY DEF LookUpTarget, Pending
<1>2. CASE UNCHANGED <<rows, owed>>
  BY <1>1, <1>2 DEF NothingStamped, SameStamps, CreatesGoOn, Pending, Writes
<1>3. ASSUME NEW i, TakeOver(w, i, lookup[w].target, lookup[w].createdAt)
      PROVE  /\ owed'[w].row.createdAt = lookup[w].createdAt
             /\ \A v \in Workers \ {w} : owed'[v] = owed[v]
             /\ UNCHANGED rows
  BY <1>3 DEF TakeOver, Owe, Fresh
<1> QED  BY <1>1, <1>2, <1>3 DEF LookUpTarget, Pending

\* Stamps stay apart whatever happens.
LEMMA StampsStep ==
  ASSUME ApiInv, StampsInv, [Next]_vars
  PROVE  StampsInv'
<1>1. StampsTyped
  BY StampsAreTyped
<1>2. NothingStamped => StampsInv'
  BY <1>1, NoNewStamp DEF NothingStamped
<1>3. ASSUME NEW w \in Workers, NEW i \in Ids, NEW t \in Targets, Insert(w, i, t)
      PROVE  StampsInv'
  BY <1>1, <1>2, <1>3, InsertStamps, RowStamp, LookupStamp
<1>4. ASSUME NEW w \in Workers, LookUpTarget(w)
      PROVE  StampsInv'
  BY <1>1, <1>2, <1>4, LookUpStamps, PassedOnStamp
<1>5. ASSUME NEW w \in Workers, Reset(w) \/ FinishCreate(w)
      PROVE  StampsInv'
  BY <1>1, <1>2, <1>5, SaveStep, OwedStamp
<1> QED  BY <1>2, <1>3, <1>4, <1>5, QuietStep, ReadersTell DEF Next

------------------------------------------------------------------------------
(* Walks through the list *)

\* What a reader is still owed is in the table, and not before its page.
Ahead(c) ==
  Walking(c) => \A i \in walk[c].due : i \in DOMAIN rows /\ walk[c].next <= Place(i)

\* Rows that are owed to a reader on its last page were all there when it
\* counted.
Counted(c) ==
  reading[c].op = "listInstances" =>
    /\ Walking(c)
    /\ reading[c].total <= Cardinality(DOMAIN rows)
    /\ (walk[c].due # {} /\ reading[c].total <= walk[c].next + PageSize)
         => Cardinality(DOMAIN rows) <= reading[c].total

Onward(c) ==
  /\ Walking(c) /\ walk[c].next > 0 => walk[c].next < Cardinality(DOMAIN rows)
  /\ ~Walking(c) => walk[c].due = {}
  /\ Ahead(c)
  /\ Counted(c)

WalksInv == /\ ReadersInv
            /\ StampsInv
            /\ walk \in [Readers -> Walk]
            /\ \A c \in Readers : Onward(c)

\* A row's place is less than the number of rows,
LEMMA PlaceBelow ==
  ASSUME IsFiniteSet(DOMAIN rows), StampsTyped, NEW i \in DOMAIN rows
  PROVE  Place(i) \in Nat /\ Place(i) < Cardinality(DOMAIN rows)
<1> DEFINE newer == {j \in DOMAIN rows : rows[j].createdAt > rows[i].createdAt}
<1>1. rows[i].createdAt \in Nat
  BY DEF StampsTyped
<1>2. newer \in SUBSET (DOMAIN rows) /\ i \notin newer
  BY <1>1
<1>3. Place(i) = Cardinality(newer)
  BY DEF Place
<1> HIDE DEF newer
<1>4. /\ IsFiniteSet(newer) /\ Cardinality(newer) <= Cardinality(DOMAIN rows)
      /\ Cardinality(DOMAIN rows) # Cardinality(newer)
  BY <1>2, FS_Subset
<1>5. Cardinality(newer) \in Nat /\ Cardinality(DOMAIN rows) \in Nat
  BY <1>4, FS_CardinalityType
<1> QED  BY <1>3, <1>4, <1>5

\* and rises when the rows before it stay before it.
LEMMA PlaceRises ==
  ASSUME IsFiniteSet(DOMAIN rows), IsFiniteSet(DOMAIN rows'), NEW i,
         \A j \in DOMAIN rows : rows[j].createdAt > rows[i].createdAt =>
           j \in DOMAIN rows' /\ rows'[j].createdAt > rows'[i].createdAt
  PROVE  /\ Place(i) \in Nat /\ Place(i)' \in Nat
         /\ Place(i) <= Place(i)'
<1> DEFINE newer == {j \in DOMAIN rows : rows[j].createdAt > rows[i].createdAt}
           after == {j \in DOMAIN rows' : rows'[j].createdAt > rows'[i].createdAt}
<1>1. newer \in SUBSET after /\ newer \in SUBSET (DOMAIN rows) /\ after \in SUBSET (DOMAIN rows')
  OBVIOUS
<1>2. Place(i) = Cardinality(newer) /\ Place(i)' = Cardinality(after)
  BY DEF Place
<1> HIDE DEF newer, after
<1>3. IsFiniteSet(newer) /\ IsFiniteSet(after)
  BY <1>1, FS_Subset
<1>4. Cardinality(newer) \in Nat /\ Cardinality(after) \in Nat
  BY <1>3, FS_CardinalityType
<1>5. Cardinality(newer) <= Cardinality(after)
  BY <1>1, <1>3, FS_Subset
<1> QED  BY <1>2, <1>4, <1>5

\* A reader goes on when no row owed to it falls back, no row is owed to it anew,
\* and none is added while it is on its last page.
LEMMA WalkKept ==
  ASSUME WalksInv, NEW c \in Readers,
         IsFiniteSet(DOMAIN rows'), Cardinality(DOMAIN rows') \in Nat,
         Cardinality(DOMAIN rows) <= Cardinality(DOMAIN rows'), RowsKept,
         walk'[c].next = walk[c].next, walk'[c].due \subseteq walk[c].due,
         reading'[c] = reading[c] \/ reading'[c].op # "listInstances",
         \A i \in walk'[c].due :
           \A j \in DOMAIN rows : rows[j].createdAt > rows[i].createdAt =>
             j \in DOMAIN rows' /\ rows'[j].createdAt > rows'[i].createdAt,
         \/ DOMAIN rows' = DOMAIN rows
         \/ walk'[c].due # {} => ~(/\ reading[c].op = "listInstances"
                                   /\ reading[c].total <= walk[c].next + PageSize)
  PROVE  Onward(c)'
<1>1. Onward(c) /\ walk[c] \in Walk /\ IsFiniteSet(DOMAIN rows)
  BY DEF WalksInv, ReadersInv
<1>2. Walking(c)' <=> Walking(c)
  BY DEF Walking
<1>3. Cardinality(DOMAIN rows) \in Nat
  BY <1>1, FS_CardinalityType
<1>4. Walking(c) => walk[c].next \in Nat
  BY <1>1 DEF Walk, Walking
<1>5. (Walking(c) /\ walk[c].next > 0 => walk[c].next < Cardinality(DOMAIN rows))'
  BY <1>1, <1>2, <1>3, <1>4 DEF Onward
<1>6. (~Walking(c) => walk[c].due = {})'
  BY <1>1, <1>2 DEF Onward
<1>7. Ahead(c)'
  <2> SUFFICES ASSUME Walking(c), NEW i \in walk'[c].due
               PROVE  i \in DOMAIN rows' /\ walk[c].next <= Place(i)'
    BY <1>2 DEF Ahead
  <2>1. i \in DOMAIN rows /\ walk[c].next <= Place(i)
    BY <1>1 DEF Onward, Ahead
  <2>2. Place(i) \in Nat /\ Place(i)' \in Nat /\ Place(i) <= Place(i)'
    BY <1>1, PlaceRises
  <2> QED  BY <1>4, <2>1, <2>2 DEF RowsKept
<1>8. Counted(c)'
  <2> SUFFICES ASSUME reading[c].op = "listInstances", reading'[c] = reading[c]
               PROVE  Counted(c)'
    BY DEF Counted
  <2>1. /\ Walking(c)
        /\ reading[c].total <= Cardinality(DOMAIN rows)
        /\ (walk[c].due # {} /\ reading[c].total <= walk[c].next + PageSize)
             => Cardinality(DOMAIN rows) <= reading[c].total
    BY <1>1 DEF Onward, Counted
  <2>2. reading[c].total \in Nat
    BY DEF WalksInv, ReadersInv, ReadTypeOK, NoRead, ReportOps
  <2>3. reading'[c].total <= Cardinality(DOMAIN rows')
    BY <1>3, <2>1, <2>2
  <2>4. ASSUME walk'[c].due # {}, reading[c].total <= walk[c].next + PageSize
        PROVE  Cardinality(DOMAIN rows') <= reading[c].total
    BY <2>1, <2>4
  <2> QED  BY <1>2, <2>1, <2>3, <2>4 DEF Counted
<1> QED  BY <1>5, <1>6, <1>7, <1>8 DEF Onward

\* A step that leaves table and walk alone, and counts no rows.
LEMMA WalkUntouched ==
  ASSUME WalksInv, NEW c \in Readers, UNCHANGED rows, walk'[c] = walk[c],
         reading'[c] = reading[c] \/ reading'[c].op # "listInstances"
  PROVE  Onward(c)'
<1>1. IsFiniteSet(DOMAIN rows) /\ Cardinality(DOMAIN rows) \in Nat
  BY FS_CardinalityType DEF WalksInv, ReadersInv
<1>2. Onward(c) => walk[c].due \subseteq walk[c].due
  OBVIOUS
<1> QED  BY <1>1, WalkKept DEF RowsKept

\* A count begins a walk or goes on with it.
LEMMA CountKeeps ==
  ASSUME WalksInv, NEW c \in Readers, CountRows(c)
  PROVE  walk' \in [Readers -> Walk] /\ \A d \in Readers : Onward(d)'
<1> DEFINE n == Cardinality(DOMAIN rows)
<1>1. /\ IsFiniteSet(DOMAIN rows) /\ DOMAIN rows \subseteq Ids
      /\ walk \in [Readers -> Walk] /\ DOMAIN reading = Readers /\ Onward(c)
  BY DEF WalksInv, ReadersInv, ApiInv, RegistryInv, IsRegistry
<1>2. n \in Nat
  BY <1>1, FS_CardinalityType
<1>3. PICK failed \in {FALSE, StoreFaults}, token \in {walk[c].next, None} :
        /\ reading' = [reading EXCEPT ![c] =
             [op |-> "listInstances", total |-> IF failed THEN 0 ELSE n]]
        /\ walk' = [walk EXCEPT ![c] =
             [next |-> DecodePageToken(token),
              due  |-> IF failed THEN {}
                       ELSE IF token = None THEN DOMAIN rows ELSE @.due]]
  BY DEF CountRows
<1> DEFINE begun == [next |-> DecodePageToken(token),
                     due  |-> IF token = None THEN DOMAIN rows ELSE walk[c].due]
<1>4. /\ reading' = [reading EXCEPT ![c] =
           [op |-> "listInstances", total |-> IF failed THEN 0 ELSE n]]
      /\ walk' = [walk EXCEPT ![c] = IF failed THEN [begun EXCEPT !.due = {}] ELSE begun]
  <2>1. [next |-> DecodePageToken(token),
         due  |-> IF failed THEN {}
                  ELSE IF token = None THEN DOMAIN rows ELSE walk[c].due]
          = IF failed THEN [begun EXCEPT !.due = {}] ELSE begun
    OBVIOUS
  <2> QED  BY <1>3, <2>1
<1>5. UNCHANGED rows
  BY DEF CountRows
<1>6. begun \in Walk
  BY <1>1 DEF Walk, DecodePageToken
<1>7. begun.next \in Nat /\ begun.next # None /\ (begun.next > 0 => begun.next < n)
  BY <1>1, NoTokenAssumption DEF Walk, Walking, Onward, DecodePageToken
<1>8. \A i \in begun.due : i \in DOMAIN rows /\ begun.next <= Place(i)
  <2>1. CASE token = None
    <3>1. begun = [next |-> 0, due |-> DOMAIN rows]
      BY <2>1, NoTokenAssumption DEF DecodePageToken
    <3>2. \A i \in DOMAIN rows : Place(i) \in Nat
      BY <1>1, PlaceBelow, StampsAreTyped DEF WalksInv, ReadersInv
    <3> QED  BY <3>1, <3>2
  <2>2. CASE token # None
    <3>1. Walking(c) /\ token = walk[c].next /\ token \in Nat
      BY <1>1, <2>2 DEF Walking, Walk
    <3>2. begun.next = walk[c].next /\ begun.due = walk[c].due
      BY <3>1, <2>2 DEF DecodePageToken
    <3> QED  BY <1>1, <3>1, <3>2 DEF Onward, Ahead
  <2> QED  BY <2>1, <2>2
<1> HIDE DEF begun, n
<1>9. /\ walk'[c] \in Walk /\ walk'[c].next = begun.next
      /\ walk'[c].due = IF failed THEN {} ELSE begun.due
  BY <1>1, <1>4, <1>6 DEF Walk
<1>10. reading'[c].total = (IF failed THEN 0 ELSE n)
  BY <1>1, <1>4
<1>11. Walking(c)'
  BY <1>7, <1>9 DEF Walking
<1>12. Cardinality(DOMAIN rows') = n
  BY <1>5 DEF n
<1>13. Ahead(c)'
  <2>1. \A i : Place(i)' = Place(i)
    BY <1>5 DEF Place
  <2> QED  BY <1>5, <1>8, <1>9, <2>1 DEF Ahead
<1>14. Counted(c)'
  BY <1>2, <1>9, <1>10, <1>11, <1>12 DEF Counted
<1>15. Onward(c)'
  BY <1>7, <1>9, <1>11, <1>12, <1>13, <1>14 DEF Onward
<1>16. \A d \in Readers : d # c => walk'[d] = walk[d] /\ reading'[d] = reading[d]
  BY <1>1, <1>4
<1>17. \A d \in Readers : d # c => Onward(d)'
  BY <1>5, <1>16, WalkUntouched
<1>18. walk' \in [Readers -> Walk]
  BY <1>1, <1>4, <1>9
<1> QED  BY <1>15, <1>17, <1>18

\* The page that is found is the one that the token, and the count, announced.
LEMMA FindKeeps ==
  ASSUME WalksInv, NEW c \in Readers, FindRows(c)
  PROVE  walk' \in [Readers -> Walk] /\ \A d \in Readers : Onward(d)'
<1> DEFINE n == Cardinality(DOMAIN rows)
           total == reading[c].total
           offset == walk[c].next
           next == NextToken(offset, total)
           due == walk[c].due \ Page(offset)
<1>1. /\ IsFiniteSet(DOMAIN rows) /\ StampsTyped /\ Onward(c)
      /\ walk \in [Readers -> Walk] /\ DOMAIN reading = Readers
  BY StampsAreTyped DEF WalksInv, ReadersInv
<1>2. n \in Nat /\ PageSize \in Nat
  BY <1>1, FS_CardinalityType, PageSizeAssumption
<1>3. UNCHANGED rows /\ reading' = [reading EXCEPT ![c] = NoRead]
  BY DEF FindRows
<1>4. \A d \in Readers : d # c => walk'[d] = walk[d] /\ reading'[d] = reading[d]
  BY <1>1, <1>3 DEF FindRows
<1>5. \A d \in Readers : d # c => Onward(d)'
  BY <1>3, <1>4, WalkUntouched
<1>6. reading'[c].op # "listInstances"
  BY <1>1, <1>3 DEF NoRead
<1>7. CASE UNCHANGED walk
  BY <1>1, <1>3, <1>5, <1>6, <1>7, WalkUntouched
<1>8. CASE walk' = [walk EXCEPT ![c] = [next |-> NextToken(Offset(c), total),
                                        due |-> @.due \ Page(Offset(c))]]
  <2>1. /\ Walking(c) /\ total <= n
        /\ (walk[c].due # {} /\ total <= offset + PageSize) => n <= total
    BY <1>1 DEF FindRows, Onward, Counted
  <2>2. total \in Nat
    BY DEF FindRows, WalksInv, ReadersInv, ReadTypeOK, NoRead, ReportOps
  <2>3. offset \in Nat /\ Offset(c) = offset
    BY <1>1, <2>1, NoTokenAssumption DEF Walk, Walking, Offset, DecodePageToken
  <2>4. walk'[c] = [next |-> next, due |-> due]
    BY <1>1, <1>8, <2>3
  <2>5. next \in Nat \cup {None}
    BY <1>2, <2>3 DEF NextToken
  <2>6. walk'[c] \in Walk
    BY <1>1, <2>4, <2>5 DEF Walk
  <2>7. ASSUME NEW i \in due
        PROVE  /\ i \in DOMAIN rows /\ Place(i) \in Nat
               /\ offset + PageSize <= Place(i) /\ Place(i) < n
    <3>1. i \in DOMAIN rows /\ offset <= Place(i)
      BY <1>1, <2>1 DEF Onward, Ahead
    <3>2. Place(i) \in Nat /\ Place(i) < n
      BY <1>1, <3>1, PlaceBelow
    <3>3. Place(i) \notin offset .. offset + PageSize - 1
      BY <3>1 DEF Page
    <3> QED  BY <1>2, <2>3, <3>1, <3>2, <3>3
  <2>8. next # None => next = offset + PageSize /\ next < total
    BY DEF NextToken
  <2>9. next = None => total <= offset + PageSize
    BY <1>2, <2>2, <2>3, NoTokenAssumption DEF NextToken
  <2> HIDE DEF next, due, total, offset, n
  <2>10. next = None => due = {}
    <3> SUFFICES ASSUME next = None, NEW i \in due
                 PROVE  FALSE
      OBVIOUS
    <3>1. n <= total
      BY <2>1, <2>9 DEF due
    <3>2. offset + PageSize <= Place(i) /\ Place(i) < n /\ Place(i) \in Nat
      BY <2>7
    <3> QED  BY <1>2, <2>2, <2>3, <2>9, <3>1, <3>2
  <2>11. Walking(c)' <=> next # None
    BY <2>4 DEF Walking
  <2>12. Cardinality(DOMAIN rows') = n /\ \A i : Place(i)' = Place(i)
    BY <1>3 DEF n, Place
  <2>13. Ahead(c)'
    BY <1>3, <2>4, <2>7, <2>8, <2>11, <2>12 DEF Ahead
  <2>14. Counted(c)'
    BY <1>6 DEF Counted
  <2>15. next # None => next < n
    BY <1>2, <2>1, <2>2, <2>3, <2>8
  <2>16. Onward(c)'
    BY <2>4, <2>10, <2>11, <2>12, <2>13, <2>14, <2>15 DEF Onward
  <2>17. walk' \in [Readers -> Walk]
    BY <1>1, <1>8, <2>4, <2>6
  <2> QED  BY <1>5, <2>16, <2>17
<1> QED  BY <1>7, <1>8 DEF FindRows

\* The steps that stamp nothing leave every walk as it is.
LEMMA QuietWalks ==
  ASSUME WalksInv, SameStamps, RowsKept, UNCHANGED walk,
         UNCHANGED reading \/ reading' = [c \in Readers |-> NoRead]
  PROVE  walk' \in [Readers -> Walk] /\ \A c \in Readers : Onward(c)'
<1>1. walk \in [Readers -> Walk] /\ IsFiniteSet(DOMAIN rows)
  BY DEF WalksInv, ReadersInv
<1>2. /\ DOMAIN rows' = DOMAIN rows
      /\ \A i \in DOMAIN rows : rows'[i].createdAt = rows[i].createdAt
  BY DEF SameStamps
<1>3. Cardinality(DOMAIN rows) \in Nat
  BY <1>1, FS_CardinalityType
<1>4. ASSUME NEW c \in Readers
      PROVE  Onward(c)'
  <2>1. reading'[c] = reading[c] \/ reading'[c].op # "listInstances"
    BY DEF NoRead
  <2>2. \A i \in walk[c].due : i \in DOMAIN rows
    BY DEF WalksInv, Onward, Ahead
  <2> QED  BY <1>1, <1>2, <1>3, <2>1, <2>2, WalkKept
<1> QED  BY <1>1, <1>4

\* A row that is stamped anew is owed to nobody, nor is one that it passes on its
\* way back: the others do not fall back.
LEMMA SavedWalks ==
  ASSUME WalksInv, NEW w \in Workers, Writes(w), OwedSaved(w), RowsKept,
         UNCHANGED reading, walk' = Moved(owed[w].id, owed[w].row.createdAt)
  PROVE  walk' \in [Readers -> Walk] /\ \A c \in Readers : Onward(c)'
<1> DEFINE k == owed[w].id
           s == owed[w].row.createdAt
<1>1. walk \in [Readers -> Walk] /\ IsFiniteSet(DOMAIN rows)
  BY DEF WalksInv, ReadersInv
<1>2. /\ DOMAIN rows' = DOMAIN rows
      /\ \A i \in DOMAIN rows :
           rows'[i].createdAt = IF i = k THEN s ELSE rows[i].createdAt
  BY DEF OwedSaved
<1>3. Cardinality(DOMAIN rows) \in Nat
  BY <1>1, FS_CardinalityType
<1>4. \A c \in Readers : /\ walk'[c].next = walk[c].next
                         /\ walk'[c].due = walk[c].due \ Displaced(k, s)
                         /\ walk'[c] \in Walk
  BY <1>1 DEF Moved, Walk
<1>5. walk' \in [Readers -> Walk]
  BY <1>4 DEF Moved
<1>6. /\ k \in DOMAIN rows /\ s \in Nat
      /\ \A i \in DOMAIN rows : rows[i].createdAt \in Nat
      /\ \A i \in DOMAIN rows : i # k => rows[i].createdAt # s
  <2>1. StampsTyped /\ WritesStamped
    BY StampsAreTyped DEF WalksInv, ReadersInv, StampsInv
  <2>2. k \in DOMAIN rows
    BY DebtType DEF WalksInv, ReadersInv, ApiInv, Writes
  <2> QED  BY <2>1, <2>2 DEF StampsTyped, WritesStamped
<1> HIDE DEF k, s
<1>7. ASSUME NEW i \in DOMAIN rows \ Displaced(k, s), NEW j \in DOMAIN rows,
             rows[j].createdAt > rows[i].createdAt
      PROVE  rows'[j].createdAt > rows'[i].createdAt
  <2>1. CASE s = rows[k].createdAt
    BY <1>2, <1>7, <2>1
  <2>2. CASE s # rows[k].createdAt
    <3>1. i # k /\ ~(s < rows[i].createdAt /\ rows[i].createdAt < rows[k].createdAt)
      BY <2>2 DEF Displaced
    <3>2. rows'[i].createdAt = rows[i].createdAt /\ rows[i].createdAt # s
      BY <1>2, <1>6, <3>1
    <3>3. CASE j = k
      <4>1. rows'[j].createdAt = s
        BY <1>2, <3>3
      <4>2. rows[i].createdAt \in Nat /\ rows[j].createdAt \in Nat /\ s \in Nat
        BY <1>6
      <4> QED  BY <1>7, <3>1, <3>2, <3>3, <4>1, <4>2
    <3>4. CASE j # k
      BY <1>2, <1>7, <3>2, <3>4
    <3> QED  BY <3>3, <3>4
  <2> QED  BY <2>1, <2>2
<1>8. ASSUME NEW c \in Readers
      PROVE  Onward(c)'
  <2>1. \A i \in walk'[c].due : i \in DOMAIN rows \ Displaced(k, s)
    <3>1. CASE Walking(c)
      BY <1>4, <3>1 DEF WalksInv, Onward, Ahead
    <3>2. CASE ~Walking(c)
      BY <1>4, <3>2 DEF WalksInv, Onward
    <3> QED  BY <3>1, <3>2
  <2> QED  BY <1>1, <1>2, <1>3, <1>4, <1>7, <2>1, WalkKept
<1> QED  BY <1>5, <1>8

\* A row that is added comes before all others, and is the end of a walk that had
\* counted its last page.
LEMMA PushedWalks ==
  ASSUME WalksInv, NEW i, i \notin DOMAIN rows, DOMAIN rows' = DOMAIN rows \cup {i},
         \A j \in DOMAIN rows : rows'[j] = rows[j],
         UNCHANGED reading, walk' = Pushed
  PROVE  walk' \in [Readers -> Walk] /\ \A c \in Readers : Onward(c)'
<1>1. walk \in [Readers -> Walk] /\ IsFiniteSet(DOMAIN rows)
  BY DEF WalksInv, ReadersInv
<1>2. IsFiniteSet(DOMAIN rows') /\ DOMAIN rows \in SUBSET (DOMAIN rows')
  BY <1>1, FS_AddElement
<1>3. /\ Cardinality(DOMAIN rows) <= Cardinality(DOMAIN rows')
      /\ Cardinality(DOMAIN rows') \in Nat
  BY <1>2, FS_Subset, FS_CardinalityType
<1>4. RowsKept
  BY DEF RowsKept
<1>5. \A c \in Readers : /\ walk'[c].next = walk[c].next
                         /\ walk'[c].due \subseteq walk[c].due
                         /\ walk'[c] \in Walk
  BY <1>1 DEF Pushed, Walk
<1>6. walk' \in [Readers -> Walk]
  BY <1>5 DEF Pushed
<1>7. ASSUME NEW c \in Readers
      PROVE  Onward(c)'
  <2>1. \A j \in walk[c].due : j \in DOMAIN rows
    BY DEF WalksInv, Onward, Ahead
  <2>2. ASSUME reading[c].op = "listInstances", reading[c].total <= walk[c].next + PageSize
        PROVE  walk'[c].due = {}
    <3>1. walk[c].next \in Nat
      BY <1>1, <2>2 DEF WalksInv, Onward, Counted, Walking, Walk
    <3>2. Offset(c) = walk[c].next
      BY <3>1 DEF Offset, DecodePageToken
    <3> QED  BY <1>1, <2>2, <3>2 DEF Pushed, Walk
  <2>3. \A j \in walk'[c].due :
          \A h \in DOMAIN rows : rows[h].createdAt > rows[j].createdAt =>
            h \in DOMAIN rows' /\ rows'[h].createdAt > rows'[j].createdAt
    BY <1>2, <1>5, <2>1
  <2> QED  BY <1>2, <1>3, <1>4, <1>5, <2>2, <2>3, WalkKept
<1> QED  BY <1>6, <1>7

\* The requests and verdicts that stamp no row touch no walk.
LEMMA QuietLeavesWalks ==
  ASSUME \/ \E op \in Operations : \E refusal \in Refusals(op) : Refuse(op, refusal)
         \/ \E op \in InstanceOps, i \in Ids : GetHealth(op, i) \/ GetInstance(op, i)
         \/ \E w \in Workers :
              \/ \E i \in Ids : StartDelete(w, i)
              \/ RefuseTarget(w) \/ LookUpTarget(w) \/ FailCreate(w)
              \/ RefuseCurrency(w) \/ FinishDelete(w)
         \/ Reconcile \/ Restart \/ UNCHANGED vars
  PROVE  UNCHANGED walk /\ (UNCHANGED reading \/ reading' = [c \in Readers |-> NoRead])
  BY DEF Refuse, GetHealth, GetInstance, readVars, callVars, RefuseTarget, LookUpTarget,
     StartDelete, FailCreate, RefuseCurrency, FinishDelete, Unsettled, Reconcile, Restart, vars

\* Every step.
LEMMA WalksStep ==
  ASSUME WalksInv, [Next]_vars
  PROVE  walk' \in [Readers -> Walk] /\ \A c \in Readers : Onward(c)'
<1> DEFINE Kept == walk' \in [Readers -> Walk] /\ \A c \in Readers : Onward(c)'
<1>1. ApiInv
  BY DEF WalksInv, ReadersInv
<1>2. RowsKept
  BY <1>1, ApiStep, RegistryKeeps DEF ApiInv
<1>3. UNCHANGED rows => SameStamps
  BY DEF SameStamps
<1>4. CASE \/ \E op \in Operations : \E refusal \in Refusals(op) : Refuse(op, refusal)
           \/ \E op \in InstanceOps, i \in Ids : GetHealth(op, i) \/ GetInstance(op, i)
           \/ \E w \in Workers : RefuseTarget(w)
           \/ UNCHANGED vars
  <2>1. SameStamps
    BY <1>3, <1>4, ReadersTell DEF registryVars
  <2> QED  BY <1>2, <1>4, <2>1, QuietLeavesWalks, QuietWalks
<1>5. CASE \/ \E w \in Workers :
                \/ \E i \in Ids : StartDelete(w, i)
                \/ FailCreate(w) \/ RefuseCurrency(w) \/ FinishDelete(w)
           \/ Reconcile \/ Restart
  <2>1. SameStamps
    BY <1>1, <1>5, QuietStep DEF NothingStamped
  <2> QED  BY <1>2, <1>5, <2>1, QuietLeavesWalks, QuietWalks
<1>6. ASSUME NEW w \in Workers, LookUpTarget(w)
      PROVE  Kept
  <2>1. SameStamps
    BY <1>1, <1>3, <1>6, LookUpStamps DEF NothingStamped
  <2> QED  BY <1>2, <1>6, <2>1, QuietLeavesWalks, QuietWalks
<1>7. ASSUME NEW w \in Workers, NEW i \in Ids, NEW t \in Targets, Insert(w, i, t)
      PROVE  Kept
  <2>1. UNCHANGED reading
    BY <1>7 DEF Insert
  <2> QED  BY <1>1, <1>2, <1>3, <1>7, <2>1, InsertStamps, PushedWalks, QuietWalks
           DEF NothingStamped
<1>8. ASSUME NEW w \in Workers, Reset(w) \/ FinishCreate(w)
      PROVE  Kept
  <2>1. UNCHANGED reading
    BY <1>8 DEF Reset, FinishCreate, callVars
  <2> QED  BY <1>1, <1>2, <1>8, <2>1, SaveStep, SavedWalks, QuietWalks DEF NothingStamped
<1>9. ASSUME NEW c \in Readers,
             Proxy(c) \/ \E op \in ReportOps, i \in Focus : ReadCluster(c, op, i)
      PROVE  Kept
  <2>1. UNCHANGED <<rows, walk>>
    BY <1>9 DEF Proxy, ReadCluster, readVars
  <2>2. \A d \in Readers : reading'[d] = reading[d] \/ reading'[d].op # "listInstances"
    BY <1>9 DEF WalksInv, ReadersInv, Proxy, ReadCluster, NoRead, ReportOps
  <2>3. walk \in [Readers -> Walk]
    BY DEF WalksInv
  <2> QED  BY <2>1, <2>2, <2>3, WalkUntouched
<1>10. ASSUME NEW c \in Readers, CountRows(c) \/ FindRows(c)
       PROVE  Kept
  BY <1>10, CountKeeps, FindKeeps
<1> HIDE DEF Kept
<1>11. CASE UNCHANGED vars
  BY <1>4, <1>11 DEF Kept
<1>12. CASE Next
  BY <1>4, <1>5, <1>6, <1>7, <1>8, <1>9, <1>10, <1>12 DEF Next, Kept
<1> QED  BY <1>11, <1>12 DEF Kept

\* All of this holds throughout.
LEMMA WalksAlways == Spec => []WalksInv
<1>1. Init => ReadersInv /\ WalksInv
  <2> SUFFICES ASSUME Init
               PROVE  ReadersInv /\ WalksInv
    OBVIOUS
  <2>1. ReadersInv
    BY RegistryStarts, ClockAssumption, InheritedAssumption
    DEF Init, ReadersInv, ApiInv, LookupTyped, KnownIdsResolve, ReadTypeOK, Reported,
        NoRead, ReportOps
  <2>2. StampsInv
    BY InheritedAssumption
    DEF Init, RegistryInit, StampsInv, RowsStamped, PendingStamped, WritesStamped,
        Pending, Writes, NoDebt
  <2>3. \A c \in Readers : walk[c] = [next |-> None, due |-> {}] /\ reading[c] = NoRead
    BY DEF Init
  <2>4. walk \in [Readers -> Walk]
    BY DEF Init, Walk
  <2>5. \A c \in Readers : Onward(c)
    BY <2>3 DEF Onward, Ahead, Counted, Walking, NoRead
  <2> QED  BY <2>1, <2>2, <2>4, <2>5 DEF WalksInv
<1>2. ASSUME WalksInv, ReadersInv', [Next]_vars
      PROVE  WalksInv'
  BY <1>2, StampsStep, WalksStep DEF WalksInv, ReadersInv
<1> QED  BY <1>1, <1>2, ReadersAlways, PTL DEF Spec

\* A client that walks through the list, page by page, while others create, take
\* over, delete and restart, has been shown at the end of its walk every row there
\* was when it began, but for those that a restamp or an INSERT behind its count
\* cost it: for any number of clients and any size of page (handler.go:249-282,
\* store.go:73-79).
THEOREM WalksMissNothing == Spec => []WalkComplete
<1>1. WalksInv => WalkComplete
  BY DEF WalksInv, Onward, WalkComplete
<1> QED  BY <1>1, WalksAlways, PTL

\* No token points past the end of the list, whatever becomes of the list: rows
\* are never removed (store.go:73-79, handler.go:249-282).
THEOREM TokensLead == Spec => []TokensLeadSomewhere
<1>1. WalksInv => TokensLeadSomewhere
  BY DEF WalksInv, Onward, TokensLeadSomewhere
<1> QED  BY <1>1, WalksAlways, PTL

------------------------------------------------------------------------------
(* Types *)

\* Clients learn pairs of an id and a cluster, from a create's row.
LEMMA KnownStep ==
  ASSUME ApiInv, known \in SUBSET (Ids \X Targets), [Next]_vars
  PROVE  known' \in SUBSET (Ids \X Targets)
<1>1. CASE \E w \in Workers : FinishCreate(w)
  <2>1. PICK w \in Workers : FinishCreate(w)
    BY <1>1
  <2>2. known' \subseteq known \cup {<<owed[w].id, owed[w].row.target>>}
    BY <2>1 DEF FinishCreate
  <2>3. owed[w].id \in DOMAIN rows /\ owed[w].row \in Entry
    BY <2>1, DebtType DEF FinishCreate, Owes, ApiInv
  <2>4. owed[w].id \in Ids /\ owed[w].row.target \in Targets
    BY <2>3 DEF ApiInv, RegistryInv, IsRegistry, Entry
  <2> QED  BY <2>2, <2>4
<1>2. CASE ~\E w \in Workers : FinishCreate(w)
  BY <1>2, ReadersTell, InsertStep, LookUpTargetStep, SettleStep, OthersStep DEF Next
<1> QED  BY <1>1, <1>2

\* Every variable of the interface holds what the code can put there: in
\* particular an offset is a number and a count is one (handler.go:249-282).
THEOREM ApiTypeCorrect == Spec => []TypeOK
<1> DEFINE KnownTyped == known \in SUBSET (Ids \X Targets)
<1>1. Init => KnownTyped
  BY DEF Init
<1>2. WalksInv /\ KnownTyped /\ [Next]_vars => KnownTyped'
  BY KnownStep DEF WalksInv, ReadersInv
<1>3. WalksInv /\ KnownTyped => TypeOK
  BY DEF WalksInv, ReadersInv, ApiInv, RegistryInv, LookupTyped, Debts, Known, TypeOK
<1> QED  BY <1>1, <1>2, <1>3, WalksAlways, PTL DEF Spec
================================================================================
