-------------------------- MODULE TelemetryResults --------------------------
(***************************************************************************)
(* Values shared by the logging service (service.go) and the abstract      *)
(* query service it implements.  A backend answer is abstracted to what    *)
(* the dual-read comparison and the caller can tell apart: the windowed    *)
(* total count and the length of the returned page, or an error.           *)
(***************************************************************************)
EXTENDS Naturals

CONSTANTS
    LogScopes,   \* the log query shapes: component, project, gateway, organization
    MaxTotal,    \* largest TotalCount a backend answer carries in the model
    ExecErr,     \* an error from a backend call or from building its query
    ConfigErr,   \* "cost reporting requires ClickStack telemetry backend"
    OK,          \* a nil error (health check) or a rendered CSV (cost report)
    None         \* no value yet

\* The two backends a LoggingService can talk to.
ClickStack == "clickstack"
OpenSearch == "opensearch"

\* The operations of LoggingService that reach a backend.
Ops == LogScopes \cup {"traces", "health", "cost"}

\* A LogResponse / TraceResponse: TotalCount and len(Logs) (or len(Spans)).
\* Both backends return at most the matching rows, so len <= total.
Results == [total : 0..MaxTotal, len : 0..MaxTotal]

QueryResults == {res \in Results : res.len <= res.total}

\* What a query call (logs or traces) on either backend may return.
QueryOutcomes == QueryResults \cup {ExecErr}

\* What a health check or a cost-report call on a backend may return.
CallOutcomes == {OK, ExecErr}
=============================================================================
