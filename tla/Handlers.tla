------------------------------ MODULE Handlers ------------------------------
(***************************************************************************)
(* The HTTP handlers of internal/observer/handlers/handlers.go in          *)
(* ClickStack mode, down to the statement: each handler binds and checks   *)
(* its request and sets defaults; the dispatcher's get*FromClickStack      *)
(* converts it with the query conversion helpers of service.go            *)
(* (buildBaseLogQuery, buildTimeRange, parseTimestamp); the builder        *)
(* validates the typed query; the engine answers or fails.                 *)
(*                                                                         *)
(* A timestamp text is one of a few forms, and Parsed says what            *)
(* parseTimestamp's layouts make of it: an instant (zero or not) or an     *)
(* error.  A sort order is a character sequence, so strings.EqualFold is   *)
(* computed.  One request is served at a time: the handlers share no       *)
(* state, so requests do not interact here.                                *)
(***************************************************************************)
EXTENDS Integers, Sequences

CONSTANTS
    TimeTexts,    \* startTime / endTime values callers send
    Parsed,       \* TimeTexts -> Instants \cup {ParseError}: parseTimestamp
    Instants,     \* the instants the texts denote
    ZeroInstant,  \* time.Time{}
    ParseError,   \* "cannot parse timestamp"
    IDs,          \* identifier values, "" among them
    SortOrders,   \* sortOrder values, as character sequences
    Limits,       \* limit values callers send
    Upper,        \* upper-case letter -> lower-case letter
    None

VARIABLES
    endpoint,   \* the handler serving the request, or None
    req,        \* the request as sent: [id, start, end, limit, sort]
    query,      \* the typed query handed to the builder, or None
    called,     \* the statement was executed
    cause,      \* none, missing, bind, parse, validation, exec, config
    status      \* the response status: 0 (none yet), 200, 400 or 500

vars == <<endpoint, req, query, called, cause, status>>

Asc == <<"a", "s", "c">>
Desc == <<"d", "e", "s", "c">>

Lower(c) == IF c \in DOMAIN Upper THEN Upper[c] ELSE c

\* strings.EqualFold for the ASCII letters used.
EqualFold(s, t) == Len(s) = Len(t) /\ \A i \in 1..Len(s) : Lower(s[i]) = Lower(t[i])

\* The handler defaults: limit 0 becomes 100, an empty sortOrder "desc".
Defaults(r) ==
    [r EXCEPT !.limit = IF @ = 0 THEN 100 ELSE @, !.sort = IF @ = <<>> THEN Desc ELSE @]

\* buildTimeRange: startTime, then endTime, through parseTimestamp.
BuildTimeRange(r) ==
    IF Parsed[r.start] = ParseError \/ Parsed[r.end] = ParseError THEN ParseError
    ELSE [start |-> Parsed[r.start], end |-> Parsed[r.end]]

\* buildBaseLogQuery: the time range, the limit, and sortOrder matching
\* "asc" case-insensitively as ascending, anything else descending.
BuildBaseLogQuery(r) ==
    LET tr == BuildTimeRange(r)
    IN  IF tr = ParseError THEN ParseError
        ELSE [start |-> tr.start, end |-> tr.end, limit |-> r.limit,
              order |-> IF EqualFold(r.sort, Asc) THEN "asc" ELSE "desc"]

\* buildComponentLogQuery, buildProjectLogQuery, buildGatewayLogQuery and
\* buildOrganizationLogQuery: buildBaseLogQuery's error, or the base query
\* with the shape's identifier (componentId, projectId, organizationId).
BuildLogQuery(r) ==
    LET b == BuildBaseLogQuery(r)
    IN  IF b = ParseError THEN ParseError
        ELSE [id |-> r.id, start |-> b.start, end |-> b.end, limit |-> b.limit,
              order |-> b.order]

\* The builder's validation: the shape's identifier (componentId,
\* projectId, organizationId or serviceName) and a non-zero time range.
BuilderAccepts(q) == q.id # "" /\ q.start # ZeroInstant /\ q.end # ZeroInstant

Requests == [id : IDs, start : TimeTexts, end : TimeTexts, limit : Limits, sort : SortOrders]

Init ==
    /\ endpoint = None /\ req = None /\ query = None
    /\ called = FALSE /\ cause = "none" /\ status = 0

Reply(s, c) == status' = s /\ cause' = c

\* Mutant: the builder's error logged but the statement executed anyway.
ServeNoReturn(q, execOK) ==
    IF q = ParseError THEN Reply(500, "parse") /\ UNCHANGED <<query, called>>
    ELSE /\ query' = q
         /\ called' = TRUE
         /\ IF ~BuilderAccepts(q) THEN Reply(500, "validation")
            ELSE IF execOK THEN Reply(200, "none") ELSE Reply(500, "exec")

\* get*FromClickStack and the handler's answer: a conversion error, a
\* builder rejection and an execution error are all the service's error,
\* written as 500; otherwise the result is written as 200.
Serve(q, execOK) ==
    IF q = ParseError THEN Reply(500, "parse") /\ UNCHANGED <<query, called>>
    ELSE /\ query' = q
         /\ IF ~BuilderAccepts(q) THEN Reply(500, "validation") /\ UNCHANGED called
            ELSE /\ called' = TRUE
                 /\ IF execOK THEN Reply(200, "none") ELSE Reply(500, "exec")

\* The handlers with a path parameter: it is required, the body must bind,
\* then the defaults.
PathHandler(ep, r, bound, execOK) ==
    /\ endpoint = None
    /\ endpoint' = ep /\ req' = r
    /\ IF r.id = "" THEN Reply(400, "missing") /\ UNCHANGED <<query, called>>
       ELSE IF ~bound THEN Reply(400, "bind") /\ UNCHANGED <<query, called>>
       ELSE Serve(BuildLogQuery(Defaults(r)), execOK)

\* GetComponentLogs: POST /api/logs/component/{componentId}.
GetComponentLogs(r, bound, execOK) == PathHandler("component", r, bound, execOK)

\* GetProjectLogs: POST /api/logs/project/{projectId}.
GetProjectLogs(r, bound, execOK) == PathHandler("project", r, bound, execOK)

\* GetOrganizationLogs: POST /api/logs/org/{orgId}.
GetOrganizationLogs(r, bound, execOK) == PathHandler("organization", r, bound, execOK)

\* GetGatewayLogs: the organization id comes from the body, unchecked.
GetGatewayLogs(r, bound, execOK) ==
    /\ endpoint = None
    /\ endpoint' = "gateway" /\ req' = r
    /\ IF ~bound THEN Reply(400, "bind") /\ UNCHANGED <<query, called>>
       ELSE Serve(BuildLogQuery(Defaults(r)), execOK)

\* ExportLogsCSV: startTime and endTime must be present; no limit or sort
\* defaults are set.  ExportLogsToCSV asks for project logs when component
\* ids are given, organization logs when pod labels are, and fails
\* otherwise.  r.id is the projectId or organizationId it forwards.
ExportLogsCSV(r, filter, execOK) ==
    /\ endpoint = None
    /\ endpoint' = "export" /\ req' = r
    /\ IF r.start = "" \/ r.end = "" THEN Reply(400, "missing") /\ UNCHANGED <<query, called>>
       ELSE IF filter = "none" THEN Reply(500, "missing") /\ UNCHANGED <<query, called>>
       ELSE Serve(BuildLogQuery(r), execOK)

\* The export's query parameters carry no limit and no sort order.
ExportRequests == {r \in Requests : r.limit = 0 /\ r.sort = <<>>}

\* buildComponentTraceQuery: the time range and the limit, no sort order.
BuildComponentTraceQuery(r) ==
    LET tr == BuildTimeRange(r)
    IN  IF tr = ParseError THEN ParseError
        ELSE [id |-> r.id, start |-> tr.start, end |-> tr.end, limit |-> r.limit, order |-> "desc"]

\* GetComponentTraces: the body must bind; validateTimes, validateSortOrder
\* and validateLimit (not in this repository) accept or reject; the
\* service name is required; then the defaults.
GetComponentTraces(r, bound, validated, execOK) ==
    /\ endpoint = None
    /\ endpoint' = "traces" /\ req' = r
    /\ IF ~bound \/ ~validated THEN Reply(400, "bind") /\ UNCHANGED <<query, called>>
       ELSE IF r.id = "" THEN Reply(400, "missing") /\ UNCHANGED <<query, called>>
       ELSE Serve(BuildComponentTraceQuery(Defaults(r)), execOK)

\* newHyperDXSigner: no signer without both a signing key and a base URL.
SignerConfigured(key, baseURL) == key # "" /\ baseURL # ""

\* GenerateHyperDXLink: the body must bind and carry a non-blank path; the
\* service refuses without a signer; Generate then always succeeds.
GenerateHyperDXLink(bound, blankPath, key, baseURL) ==
    /\ endpoint = None
    /\ endpoint' = "hyperdx" /\ UNCHANGED req
    /\ IF ~bound THEN Reply(400, "bind")
       ELSE IF blankPath THEN Reply(400, "missing")
       ELSE IF ~SignerConfigured(key, baseURL) THEN Reply(500, "config")
       ELSE Reply(200, "none")
    /\ UNCHANGED <<query, called>>

\* The next request.
Reset ==
    /\ endpoint # None
    /\ endpoint' = None /\ req' = None /\ query' = None
    /\ called' = FALSE /\ cause' = "none" /\ status' = 0

Next ==
    \/ \E r \in Requests, bound, execOK \in BOOLEAN : GetComponentLogs(r, bound, execOK)
    \/ \E r \in Requests, bound, execOK \in BOOLEAN : GetProjectLogs(r, bound, execOK)
    \/ \E r \in Requests, bound, execOK \in BOOLEAN : GetOrganizationLogs(r, bound, execOK)
    \/ \E r \in Requests, bound, execOK \in BOOLEAN : GetGatewayLogs(r, bound, execOK)
    \/ \E r \in ExportRequests, filter \in {"componentIds", "podLabels", "none"}, execOK \in BOOLEAN :
          ExportLogsCSV(r, filter, execOK)
    \/ \E r \in Requests, bound, validated, execOK \in BOOLEAN :
          GetComponentTraces(r, bound, validated, execOK)
    \/ \E bound, blankPath \in BOOLEAN, key, baseURL \in {"", "set"} :
          GenerateHyperDXLink(bound, blankPath, key, baseURL)
    \/ Reset

Spec == Init /\ [][Next]_vars

-----------------------------------------------------------------------------
TypeOK ==
    /\ status \in {0, 200, 400, 500}
    /\ (endpoint = None) = (status = 0)
    /\ cause \in {"none", "missing", "bind", "parse", "validation", "exec", "config"}
    /\ (status = 200) = (endpoint # None /\ cause = "none")
    /\ called => query # None /\ cause \in {"none", "exec"}
=============================================================================
