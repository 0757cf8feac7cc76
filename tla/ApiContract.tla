------------------------------- MODULE ApiContract -------------------------------
(****************************************************************************)
(* The provider's HTTP interface, as data: what the generated client sends  *)
(* for each operation (pkg/client), how the generated server routes and     *)
(* checks it (internal/api/server, internal/apiserver), which answers the   *)
(* server can write and which of them the client can read.                  *)
(*                                                                          *)
(* A path is the sequence of its segments after /api/v1alpha1.  Values of   *)
(* parameters other than ids and metrics are abstract.                      *)
(****************************************************************************)
EXTENDS Naturals, Sequences, FiniteSets

CollectionOps == {"listInstances", "createInstance"}
InstanceOps   == {"getHealth", "deleteInstance", "getInstance"}
ReportOps     == {"getCostReport", "getCostForecast", "getUsage"}

\* ServerInterface.
Operations == CollectionOps \cup InstanceOps \cup ReportOps

Metrics == {"compute", "memory", "storage"}

------------------------------------------------------------------------------
(* The client's requests *)

Ask(method, path) == [method |-> method, path |-> path]

NewListInstancesRequest  == Ask("GET",  <<"instances">>)
NewCreateInstanceRequest == Ask("POST", <<"instances">>)
NewGetHealthRequest      == Ask("GET",  <<"instances", "health">>)
NewDeleteInstanceRequest(i)  == Ask("DELETE", <<"instances", i>>)
NewGetInstanceRequest(i)     == Ask("GET", <<"instances", i>>)
NewGetCostReportRequest(i)   == Ask("GET", <<"instances", i, "cost-reports">>)
NewGetCostForecastRequest(i) ==
  Ask("GET", <<"instances", i, "cost-reports", "forecast">>)
NewGetUsageRequest(i, metric) == Ask("GET", <<"instances", i, "usage", metric>>)

\* The request that the client's method for an operation sends.
Request(op, i, metric) ==
  CASE op = "listInstances"   -> NewListInstancesRequest
    [] op = "createInstance"  -> NewCreateInstanceRequest
    [] op = "getHealth"       -> NewGetHealthRequest
    [] op = "deleteInstance"  -> NewDeleteInstanceRequest(i)
    [] op = "getInstance"     -> NewGetInstanceRequest(i)
    [] op = "getCostReport"   -> NewGetCostReportRequest(i)
    [] op = "getCostForecast" -> NewGetCostForecastRequest(i)
    [] op = "getUsage"        -> NewGetUsageRequest(i, metric)

------------------------------------------------------------------------------
(* The server's routes *)

Param == "{}"

Handle(method, path, op) == [method |-> method, path |-> path, op |-> op]

\* HandlerWithOptions.
Routes ==
  {Handle("GET",    <<"instances">>, "listInstances"),
   Handle("POST",   <<"instances">>, "createInstance"),
   Handle("GET",    <<"instances", "health">>, "getHealth"),
   Handle("DELETE", <<"instances", Param>>, "deleteInstance"),
   Handle("GET",    <<"instances", Param>>, "getInstance"),
   Handle("GET",    <<"instances", Param, "cost-reports">>, "getCostReport"),
   Handle("GET",    <<"instances", Param, "cost-reports", "forecast">>, "getCostForecast"),
   Handle("GET",    <<"instances", Param, "usage", Param>>, "getUsage")}

Fits(request, route) ==
  /\ request.method = route.method
  /\ Len(request.path) = Len(route.path)
  /\ \A n \in DOMAIN route.path : route.path[n] \in {Param, request.path[n]}

Params(route) == {n \in DOMAIN route.path : route.path[n] = Param}

\* chi tries a static segment before a parameter.
Serves(request) ==
  LET fitting == {route \in Routes : Fits(request, route)}
  IN  (CHOOSE route \in fitting :
         \A other \in fitting : Params(route) \subseteq Params(other)).op

------------------------------------------------------------------------------
(* Requests that are refused before they reach a handler *)

\* The parameters that the wrapper of an operation binds.
CollectionBinds == [listInstances  |-> {"page_token", "max_page_size"},
                    createInstance |-> {"id"}]
InstanceBinds == [getHealth      |-> {},
                  deleteInstance |-> {"instanceId"},
                  getInstance    |-> {"instanceId"}]
ReportBinds == [getCostReport   |-> {"instanceId", "start_date", "end_date"},
                getCostForecast |-> {"instanceId"},
                getUsage        |-> {"instanceId", "metric", "start_date", "end_date"}]

Binds(op) == CASE op \in CollectionOps -> CollectionBinds[op]
               [] op \in InstanceOps   -> InstanceBinds[op]
               [] op \in ReportOps     -> ReportBinds[op]

\* What can be wrong with a call.  Any page_token will do.  The other parameters
\* are held against the OpenAPI document (and a date that matches its form but
\* does not exist fails to bind); the body against its size limit, its schema and,
\* at last, the type it is decoded into, which is stricter with names that differ
\* in case alone.
Flaws(op) == (Binds(op) \ {"page_token"})
               \cup IF op = "createInstance"
                     THEN {"tooLarge", "body", "undecodable"} ELSE {}

Problem(status) == [status |-> status, form |-> "application/problem+json"]
PlainText(status) == [status |-> status, form |-> "text/plain"]

\* The size limit is the middleware's, the decoding that of the strict server,
\* which has the generator's error handler; badReq answers the rest.
Refusal(flaw) == CASE flaw = "tooLarge"    -> Problem(413)
                   [] flaw = "undecodable" -> PlainText(400)
                   [] OTHER                -> Problem(400)

Refusals(op) == {Refusal(flaw) : flaw \in Flaws(op)}

------------------------------------------------------------------------------
(* Answers *)

\* The statuses that the response types of an operation write (Visit...).
CollectionVisits == [listInstances  |-> {200, 400, 500},
                     createInstance |-> {201, 400, 409, 422, 500}]
InstanceVisits == [getHealth      |-> {200},
                   deleteInstance |-> {204, 404, 500},
                   getInstance    |-> {200, 404, 500}]
ReportVisits == [getCostReport   |-> {200, 404, 500, 502},
                 getCostForecast |-> {200, 404, 500, 502}]
UsageVisits  == [getUsage |-> {200, 404, 500, 502}]

Visits(op) == CASE op \in CollectionOps -> CollectionVisits[op]
                [] op \in InstanceOps   -> InstanceVisits[op]
                [] op = "getUsage"      -> UsageVisits[op]
                [] OTHER                -> ReportVisits[op]

\* What a handler answers with that status, and its Content-Type.
Answer(status) ==
  CASE status = 204          -> [status |-> 204, form |-> "none"]
    [] status \in {200, 201} -> [status |-> status, form |-> "application/json"]
    [] OTHER                 -> Problem(status)

\* The statuses for which the client fills a typed field (Parse...Response), if
\* the Content-Type says json.
CollectionParses == [listInstances  |-> {200, 400, 500},
                     createInstance |-> {201, 400, 409, 422, 500}]
InstanceParses == [getHealth      |-> {200},
                   deleteInstance |-> {404, 500},
                   getInstance    |-> {200, 404, 500}]
ReportParses == [getCostReport   |-> {200, 404, 500, 502},
                 getCostForecast |-> {200, 404, 500, 502}]

\* Bug: a status forgotten.
UsageParsesFew == [getUsage |-> {200, 404, 500}]

UsageParses == [getUsage |-> {200, 404, 500, 502}]

Parses(op) == CASE op \in CollectionOps -> CollectionParses[op]
                [] op \in InstanceOps   -> InstanceParses[op]
                [] op = "getUsage"      -> UsageParses[op]
                [] OTHER                -> ReportParses[op]

\* The client's caller finds the answer in a typed field.
Typed(op, answer) ==
  /\ answer.status \in Parses(op)
  /\ answer.form \in {"application/json", "application/problem+json"}

\* An answer that the operation declares, and that the client's caller can read
\* unless it has no content.
Readable(op, answer) ==
  /\ answer.status \in Visits(op)
  /\ answer.status = 204 \/ Typed(op, answer)
================================================================================
