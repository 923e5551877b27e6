---------------------------- MODULE QueryBuilder ----------------------------
(***************************************************************************)
(* The ClickHouse SQL builder of internal/telemetry/clickstack/            *)
(* query_builder.go.  A statement is a sequence of tokens: fixed SQL text, *)
(* placeholders ("?") and single-quoted literals spelled byte by byte.     *)
(* Each placeholder is annotated with the query field its "?" stands for,  *)
(* and each bound argument with the field it was taken from, so the model  *)
(* can check that the driver binds every value to its own "?".             *)
(* Go map iteration order is random: every build of a query with a map     *)
(* takes any order of the map's keys.                                      *)
(***************************************************************************)
EXTENDS Integers, Sequences, SequencesExt, FiniteSets, TLC

CONSTANTS
    LogsTable, TracesTable,  \* ClickStackConfig.LogsTable / TracesTable
    MaxOpenConns,            \* ClickStackConfig.MaxOpenConns
    KeyBytes,                \* KeyBytes[k]: the bytes of map key k
    TimeRanges,              \* query.TimeRange values tried
    Limits,                  \* requested limits tried
    BaseFilterSets,          \* the optional base filters tried
    IDs,                     \* component/project/organization/service ids
    Optionals,               \* environment, build id, build uuid values
    IDLists,                 \* component id and gateway vhost lists
    LabelKeys, LabelValues,  \* pod label maps
    APIIDs, APIVersions      \* API id -> version maps

VARIABLES
    shape,   \* the builder method last called
    params,  \* its query parameters
    built    \* what it returned: a statement with its arguments, or an error

vars == <<shape, params, built>>

Quote == 39      \* the byte '
Backslash == 92  \* the byte \

\* Tokens of a statement.
KW(text) == [kind |-> "kw", text |-> text, bytes |-> <<>>]
PH(field) == [kind |-> "ph", text |-> field, bytes |-> <<>>]
LIT(bytes) == [kind |-> "lit", text |-> "", bytes |-> bytes]

\* A bound argument, tagged with the field it comes from.
Arg(field, val) == [field |-> field, val |-> val]

Statement(sql, args) == [err |-> FALSE, sql |-> sql, args |-> args]
Error == [err |-> TRUE, sql |-> <<>>, args |-> <<>>]

\* time.Time: an instant and the zone it is displayed in; UTC() keeps the
\* instant and changes the zone, IsZero() tests the instant.
UTC(t) == [t EXCEPT !.zone = "UTC"]
IsZero(t) == t.instant = 0

\* Go's string < : byte-wise lexicographic order.
RECURSIVE BytesLess(_, _)
BytesLess(a, b) ==
    IF b = <<>> THEN FALSE
    ELSE IF a = <<>> THEN TRUE
    ELSE IF Head(a) # Head(b) THEN Head(a) < Head(b)
    ELSE BytesLess(Tail(a), Tail(b))

\* The iteration orders `for k := range m` may produce.
RangeOrders(m) == SetToSeqs(DOMAIN m)

-----------------------------------------------------------------------------
\* NewQueryBuilder: maxLimit is 2000, or MaxOpenConns * 100 when larger.
MaxLimit ==
    IF MaxOpenConns > 0 /\ MaxOpenConns * 100 > 2000 THEN MaxOpenConns * 100
                                                     ELSE 2000

NewConditionBuilder == [clauses |-> <<>>, args |-> <<>>]

\* conditionBuilder.add: an empty clause is ignored.
Add(cb, clause, args) ==
    IF clause = <<>> THEN cb
    ELSE [clauses |-> Append(cb.clauses, clause), args |-> cb.args \o args]

\* conditionBuilder.whereClause: the clauses joined by AND, or 1=1.
WhereClause(cb) ==
    IF cb.clauses = <<>> THEN <<KW("1=1")>>
    ELSE FoldLeft(LAMBDA acc, c : acc \o <<KW("AND")>> \o c,
                  Head(cb.clauses), Tail(cb.clauses))

\* Mutant: one "?" short of n.
PlaceholdersOneShort(n, field) ==
    IF n <= 1 THEN <<>>
    ELSE [i \in 1..(2 * n - 3) |-> IF i % 2 = 1 THEN PH(field) ELSE KW(",")]

\* placeholders(n): n "?" separated by ", ".
Placeholders(n, field) ==
    IF n <= 0 THEN <<>>
    ELSE [i \in 1..(2 * n - 1) |-> IF i % 2 = 1 THEN PH(field) ELSE KW(",")]

\* Mutant: the keys in range order, the sort.Slice call left out.
SortedKeysUnsorted(order) == order

\* sortedKeys: the keys in range order, then sort.Slice with <.
SortedKeys(order) == SortSeq(order, LAMBDA a, b : BytesLess(KeyBytes[a], KeyBytes[b]))

\* Mutant: the key spliced in unescaped.
EscapeJSONPathNone(bytes) == bytes

\* escapeJSONPath: every ' becomes \' .
EscapeJSONPath(bytes) ==
    FlattenSeq([i \in DOMAIN bytes |->
                  IF bytes[i] = Quote THEN <<Backslash, Quote>> ELSE <<bytes[i]>>])

\* addInClause: "column IN (?, ..., ?)" with one argument per value.
AddInClause(cb, column, values) ==
    IF values = <<>> THEN cb
    ELSE Add(cb, <<KW(column), KW("IN (")>> \o Placeholders(Len(values), column)
                   \o <<KW(")")>>,
             [i \in DOMAIN values |-> Arg(column, values[i])])

\* Mutants: only a negative limit defaulted; the clamp to maxLimit left out.
ResolveLimitNegativeOnly(limit) ==
    LET l == IF limit < 0 THEN 100 ELSE limit
    IN  IF l > MaxLimit THEN MaxLimit ELSE l

ResolveLimitUnclamped(limit) == IF limit <= 0 THEN 100 ELSE limit

\* resolveLimit: non-positive becomes 100, then clamp to maxLimit.
ResolveLimit(limit) ==
    LET l == IF limit <= 0 THEN 100 ELSE limit
    IN  IF l > MaxLimit THEN MaxLimit ELSE l

\* order: ASC for a case-insensitive "asc", DESC for anything else.
Order(o) == IF o \in {"asc", "ASC", "Asc"} THEN "ASC" ELSE "DESC"

TimeMissing(tr) == IsZero(tr.start) \/ IsZero(tr.end)

\* applyBaseFilters, once the time range is known to be set.
ApplyBaseFilters(cb, base) ==
    LET f == base.filters
        c1 == Add(cb, <<KW("timestamp BETWEEN"), PH("start"), KW("AND"), PH("end")>>,
                  <<Arg("start", UTC(base.timeRange.start)),
                    Arg("end", UTC(base.timeRange.end))>>)
        c2 == IF f.searchPhrase = "" THEN c1
              ELSE Add(c1, <<KW("positionCaseInsensitive(log,"), PH("search"), KW(") > 0")>>,
                       <<Arg("search", f.searchPhrase)>>)
        c3 == AddInClause(c2, "log_level", f.logLevels)
        c4 == IF f.namespace = "" THEN c3
              ELSE Add(c3, <<KW("namespace ="), PH("namespace")>>,
                       <<Arg("namespace", f.namespace)>>)
        c5 == AddInClause(c4, "version", f.versions)
        c6 == AddInClause(c5, "version_id", f.versionIDs)
    IN  IF f.logType = "" THEN c6
        ELSE Add(c6, <<KW("log_type ="), PH("log_type")>>, <<Arg("log_type", f.logType)>>)

\* An optional equality filter: added only for a non-empty value.
AddOptional(cb, column, value) ==
    IF value = "" THEN cb ELSE Add(cb, <<KW(column), KW("="), PH(column)>>,
                                   <<Arg(column, value)>>)

\* assembleLogQuery: the fixed column list, the WHERE clause, the order
\* and the limit appended as the last argument.
AssembleLogQuery(cb, order, limit) ==
    IF LogsTable = "" THEN Error
    ELSE Statement(<<KW("SELECT timestamp, log, log_level, component_id, environment_id, project_id, version, version_id, namespace, pod_id, container_name, labels_json, count() OVER () AS total_count FROM"),
                     KW(LogsTable), KW("WHERE")>>
                   \o WhereClause(cb)
                   \o <<KW("ORDER BY timestamp"), KW(Order(order)), KW("LIMIT"), PH("limit")>>,
                   Append(cb.args, Arg("limit", limit)))

\* Builds a log query: required id, time range, base filters, the
\* shape's own filters (Extra), then assembly.
LogQuery(id, base, Extra(_)) ==
    IF id = "" \/ TimeMissing(base.timeRange) THEN Error
    ELSE AssembleLogQuery(Extra(ApplyBaseFilters(NewConditionBuilder, base)),
                          base.sortOrder, ResolveLimit(base.limit))

ComponentLogs(p) ==
    LogQuery(p.componentID, p.base,
             LAMBDA cb : AddOptional(AddOptional(AddOptional(
                            Add(cb, <<KW("component_id ="), PH("component_id")>>,
                                <<Arg("component_id", p.componentID)>>),
                            "environment_id", p.environmentID),
                            "build_id", p.buildID), "build_uuid", p.buildUUID))

ProjectLogs(p) ==
    LogQuery(p.projectID, p.base,
             LAMBDA cb : AddInClause(AddOptional(
                            Add(cb, <<KW("project_id ="), PH("project_id")>>,
                                <<Arg("project_id", p.projectID)>>),
                            "environment_id", p.environmentID),
                            "component_id", p.componentIDs))

\* The OR-chain over API ids, in the order sortedKeys gives.
APIClause(m, keys) ==
    LET one(k) == IF m[k] = ""
                  THEN [sql |-> <<KW("(api_id ="), PH("api_id"), KW(")")>>,
                        args |-> <<Arg("api_id", k)>>]
                  ELSE [sql |-> <<KW("(api_id ="), PH("api_id"), KW("AND api_version ="),
                                  PH("api_version"), KW(")")>>,
                        args |-> <<Arg("api_id", k), Arg("api_version", m[k])>>]
        parts == [i \in DOMAIN keys |-> one(keys[i])]
        joined == FoldLeft(LAMBDA acc, x : acc \o <<KW("OR")>> \o x.sql,
                           Head(parts).sql, Tail(parts))
    IN  [sql |-> <<KW("(")>> \o joined \o <<KW(")")>>,
         args |-> FoldLeft(LAMBDA acc, x : acc \o x.args, <<>>, parts)]

GatewayLogs(p, order) ==
    LogQuery(p.organizationID, p.base,
             LAMBDA cb :
                LET c1 == AddInClause(Add(cb, <<KW("organization_id ="), PH("organization_id")>>,
                                          <<Arg("organization_id", p.organizationID)>>),
                                      "gateway_vhost", p.gatewayVHosts)
                    api == APIClause(p.apiVersions, SortedKeys(order))
                IN  IF DOMAIN p.apiVersions = {} THEN c1 ELSE Add(c1, api.sql, api.args))

\* One JSONExtractString equality per pod label, in sortedKeys order; the
\* key is spliced into the SQL text as a quoted literal, the value bound.
OrganizationLogs(p, order) ==
    LogQuery(p.organizationID, p.base,
             LAMBDA cb :
                LET c1 == AddOptional(Add(cb, <<KW("organization_id ="), PH("organization_id")>>,
                                          <<Arg("organization_id", p.organizationID)>>),
                                      "environment_id", p.environmentID)
                    keys == SortedKeys(order)
                IN  FoldLeft(LAMBDA acc, k :
                               Add(acc, <<KW("JSONExtractString(labels_json,"),
                                          LIT(<<Quote>> \o EscapeJSONPath(KeyBytes[k]) \o <<Quote>>),
                                          KW(") ="), PH("label")>>,
                                   <<Arg("label", p.podLabels[k])>>),
                             c1, keys))

ComponentTraces(p) ==
    IF p.serviceName = "" \/ TimeMissing(p.timeRange) \/ TracesTable = "" THEN Error
    ELSE LET l == IF p.limit <= 0 THEN 500 ELSE p.limit
             limit == IF l > MaxLimit THEN MaxLimit ELSE l
         IN  Statement(<<KW("SELECT start_time, end_time, span_name, span_id, trace_id, duration_in_nanos, count() OVER () AS total_count FROM"),
                         KW(TracesTable), KW("WHERE service_name ="), PH("service_name"),
                         KW("AND start_time BETWEEN"), PH("start"), KW("AND"), PH("end"),
                         KW("ORDER BY start_time DESC LIMIT"), PH("limit")>>,
                       <<Arg("service_name", p.serviceName), Arg("start", UTC(p.timeRange.start)),
                         Arg("end", UTC(p.timeRange.end)), Arg("limit", limit)>>)

CostReport(p) ==
    IF LogsTable = "" \/ IsZero(p.start) \/ IsZero(p.end) THEN Error
    ELSE Statement(<<KW("SELECT coalesce(JSONExtractString(labels_json, 'organization-name'), 'unknown') AS organization_id, coalesce(project_id, 'unknown') AS project_id, coalesce(component_id, 'unknown') AS component_id, count() AS log_count, sum(lengthUTF8(log)) AS raw_bytes FROM"),
                     KW(LogsTable), KW("WHERE timestamp BETWEEN"), PH("start"), KW("AND"), PH("end"),
                     KW("GROUP BY organization_id, project_id, component_id ORDER BY organization_id, project_id, component_id")>>,
                   <<Arg("start", UTC(p.start)), Arg("end", UTC(p.end))>>)

-----------------------------------------------------------------------------
(***************************************************************************)
(* The queries the builder is called with.  The provider receives them     *)
(* from LoggingService, whose sort order is already "asc" or "desc".       *)
(***************************************************************************)
BaseQueries == [timeRange : TimeRanges, limit : Limits, sortOrder : {"asc", "desc"},
                filters : BaseFilterSets]

MapsOver(Keys, Values) == UNION {[S -> Values] : S \in SUBSET Keys}

ComponentQueries == [base : BaseQueries, componentID : IDs, environmentID : Optionals,
                     buildID : Optionals, buildUUID : Optionals]
ProjectQueries == [base : BaseQueries, projectID : IDs, environmentID : Optionals,
                   componentIDs : IDLists]
GatewayQueries == [base : BaseQueries, organizationID : IDs, gatewayVHosts : IDLists,
                   apiVersions : MapsOver(APIIDs, APIVersions)]
OrganizationQueries == [base : BaseQueries, organizationID : IDs, environmentID : Optionals,
                        podLabels : MapsOver(LabelKeys, LabelValues)]
TraceQueries == [serviceName : IDs, timeRange : TimeRanges, limit : Limits]
CostQueries == {[start |-> tr.start, end |-> tr.end] : tr \in TimeRanges}

Init ==
    /\ shape = "none"
    /\ params = "none"
    /\ built = Error

\* The builder keeps no state between calls: each build starts from a
\* fresh builder (Idle), and Reset returns to it after a call.
Idle == shape = "none"

Reset ==
    /\ ~Idle
    /\ shape' = "none" /\ params' = "none" /\ built' = Error

BuildComponentLogs ==
    Idle /\ \E p \in ComponentQueries :
        /\ shape' = "component" /\ params' = p /\ built' = ComponentLogs(p)

BuildProjectLogs ==
    Idle /\ \E p \in ProjectQueries :
        /\ shape' = "project" /\ params' = p /\ built' = ProjectLogs(p)

BuildGatewayLogs ==
    Idle /\ \E p \in GatewayQueries : \E order \in RangeOrders(p.apiVersions) :
        /\ shape' = "gateway" /\ params' = p /\ built' = GatewayLogs(p, order)

BuildOrganizationLogs ==
    Idle /\ \E p \in OrganizationQueries : \E order \in RangeOrders(p.podLabels) :
        /\ shape' = "organization" /\ params' = p /\ built' = OrganizationLogs(p, order)

BuildComponentTraces ==
    Idle /\ \E p \in TraceQueries :
        /\ shape' = "traces" /\ params' = p /\ built' = ComponentTraces(p)

BuildCostReport ==
    Idle /\ \E p \in CostQueries :
        /\ shape' = "cost" /\ params' = p /\ built' = CostReport(p)

Next ==
    \/ BuildComponentLogs
    \/ BuildProjectLogs
    \/ BuildGatewayLogs
    \/ BuildOrganizationLogs
    \/ BuildComponentTraces
    \/ BuildCostReport
    \/ Reset

Spec == Init /\ [][Next]_vars

-----------------------------------------------------------------------------
(***************************************************************************)
(* Properties.                                                             *)
(***************************************************************************)

\* Statements are token sequences with tagged arguments; the LIMIT
\* argument is a limit in [1, maxLimit].
TypeOK ==
    /\ shape \in {"none", "component", "project", "gateway", "organization",
                  "traces", "cost"}
    /\ built.err \in BOOLEAN
    /\ built.err => built.sql = <<>> /\ built.args = <<>>
    /\ \A i \in DOMAIN built.sql : built.sql[i].kind \in {"kw", "ph", "lit"}
    /\ \A i \in DOMAIN built.args :
          built.args[i].field = "limit" => built.args[i].val \in 1..MaxLimit

\* Every statement has exactly one bound argument per "?", in order, and the
\* i-th argument is the value of the field the i-th "?" stands for: the
\* clause text and the argument list that conditionBuilder.add,
\* addInClause, the API OR-chain and the appended LIMIT build separately
\* stay aligned for every query shape.
PlaceholdersBindArgs ==
    ~built.err =>
        LET phs == SelectSeq(built.sql, LAMBDA t : t.kind = "ph")
        IN  /\ Len(phs) = Len(built.args)
            /\ \A i \in 1..Len(phs) : phs[i].text = built.args[i].field

\* The statement built for a query does not depend on the order in which
\* Go ranges over its pod-label or API-version map: the SQL text and the
\* arguments are the same for every iteration order.
OrderIndependent ==
    /\ shape = "gateway" =>
          \A order \in RangeOrders(params.apiVersions) : GatewayLogs(params, order) = built
    /\ shape = "organization" =>
          \A order \in RangeOrders(params.podLabels) : OrganizationLogs(params, order) = built

\* The limit the spec gives for a request: 100 for logs and 500 for traces
\* when not positive, and never above max(2000, 100 * MaxOpenConns).
SpecLimit(requested, default) ==
    LET ceiling == IF 100 * MaxOpenConns > 2000 THEN 100 * MaxOpenConns ELSE 2000
        l == IF requested <= 0 THEN default ELSE requested
    IN  IF l > ceiling THEN ceiling ELSE l

\* Every log and trace statement ends with LIMIT bound to the spec's
\* resolved limit, so the engine never sees a limit outside [1, maxLimit].
LimitResolved ==
    (~built.err /\ shape # "cost") =>
        Last(built.args).val =
            IF shape = "traces" THEN SpecLimit(params.limit, 500)
                                ELSE SpecLimit(params.base.limit, 100)

\* ClickHouse reading a single-quoted literal whose opening quote has been
\* consumed: a backslash escapes the next byte, '' is a quote, a lone '
\* closes it.  Returns the value, the bytes used and whether it closed.
RECURSIVE ReadLiteral(_)
ReadLiteral(s) ==
    IF s = <<>> THEN [value |-> <<>>, used |-> 0, closed |-> FALSE]
    ELSE IF Head(s) = Backslash
         THEN IF Len(s) = 1 THEN [value |-> <<>>, used |-> 1, closed |-> FALSE]
              ELSE LET r == ReadLiteral(Tail(Tail(s)))
                   IN  [r EXCEPT !.value = <<s[2]>> \o @, !.used = @ + 2]
    ELSE IF Head(s) = Quote
         THEN IF Len(s) > 1 /\ s[2] = Quote
              THEN LET r == ReadLiteral(Tail(Tail(s)))
                   IN  [r EXCEPT !.value = <<Quote>> \o @, !.used = @ + 2]
              ELSE [value |-> <<>>, used |-> 1, closed |-> TRUE]
    ELSE LET r == ReadLiteral(Tail(s))
         IN  [r EXCEPT !.value = <<Head(s)>> \o @, !.used = @ + 1]

\* The bytes that follow a label literal in the statement: ") = ?".
AfterLabel == <<41, 32, 61, 32, 63>>

\* Every pod-label key spliced into an organization query is read back by
\* ClickHouse as exactly that key, and its literal ends at its own closing
\* quote: no label key can end the literal early and inject SQL text.
LabelKeysStayQuoted ==
    (shape = "organization" /\ ~built.err) =>
        LET lits == SelectSeq(built.sql, LAMBDA t : t.kind = "lit")
        IN  /\ Len(lits) = Cardinality(DOMAIN params.podLabels)
            /\ \A i \in 1..Len(lits) :
                  LET r == ReadLiteral(Tail(lits[i].bytes) \o AfterLabel)
                  IN  /\ r.closed
                      /\ r.used = Len(lits[i].bytes) - 1
                      /\ \E k \in DOMAIN params.podLabels : r.value = KeyBytes[k]
=============================================================================
