------------------------------ MODULE Provider ------------------------------
(***************************************************************************)
(* The ClickStack provider's query path (internal/telemetry/clickstack/    *)
(* provider.go): Get*Logs builds the statement, executeLogQuery runs it    *)
(* under withQueryTimeout and streams rows into a LogResult; the trace     *)
(* path GetComponentTraces / executeTraceQuery does the same into a        *)
(* TraceResult, without labels.  The engine's                              *)
(* answer is a sequence of rows, each carrying the windowed total count,   *)
(* a labels_json column (NULL, valid or malformed JSON) and whether it     *)
(* scans; the stream may break after the rows sent.  The deadline (the     *)
(* query timeout or the caller's cancellation, whichever comes first) can  *)
(* fire at any point of the call.                                          *)
(***************************************************************************)
EXTENDS Integers, Sequences, SequencesExt

CONSTANTS
    MaxRows,   \* most rows an answer carries
    MaxTotal   \* largest windowed total count

VARIABLES
    kind,       \* logs (executeLogQuery) or traces (executeTraceQuery)
    phase,      \* idle, query, stream, done
    rows,       \* the rows the engine sends for this call
    windowed,   \* the engine's count() OVER () for this call
    built,      \* the builder returned a statement
    broken,     \* none, refused (QueryContext fails) or midstream (the
                \* stream breaks after the rows sent)
    deadline,   \* the call's context is done
    pos,        \* rows consumed by rows.Next
    logs,       \* result.Logs (the labels each record holds) or result.Spans
    total,      \* result.TotalCount
    warned,     \* "Failed to decode labels JSON" warnings logged
    outcome     \* none, ok, or err: what executeLogQuery returned

vars == <<kind, phase, built, rows, windowed, broken, deadline, pos, logs, total, warned, outcome>>

Row == [labels : {"null", "valid", "malformed"}, scans : BOOLEAN]

\* The answers the engine may give: at most MaxRows rows, never more than
\* the windowed count of matching rows.
Answers == {<<t, s>> \in (0..MaxTotal) \X UNION {[1..n -> Row] : n \in 0..MaxRows} :
               Len(s) <= t}

\* Scanning labels_json into record.Labels: a NULL column leaves the map
\* nil, JSON is decoded, a malformed value becomes an empty map.
DecodedLabels(l) == CASE l = "null" -> "nil" [] l = "valid" -> "map" [] l = "malformed" -> "empty"

Init ==
    /\ kind = "logs"
    /\ phase = "idle"
    /\ built = FALSE
    /\ rows = <<>> /\ windowed = 0 /\ broken = "none"
    /\ deadline = FALSE
    /\ pos = 0 /\ logs = <<>> /\ total = 0 /\ warned = 0
    /\ outcome = "none"

\* Mutant: a builder error returned as (nil, nil).
CallNilError ==
    /\ phase = "idle"
    /\ \/ /\ phase' = "done"
          /\ UNCHANGED <<built, rows, windowed, broken, outcome>>
       \/ /\ \E a \in Answers, b \in {"none", "refused", "midstream"} :
                rows' = a[2] /\ windowed' = a[1] /\ broken' = b
          /\ built' = TRUE
          /\ phase' = "query" /\ UNCHANGED outcome
    /\ kind' \in {"logs", "traces"}
    /\ UNCHANGED <<deadline, pos, logs, total, warned>>

\* Get*Logs and GetComponentTraces: a builder error is returned before any
\* query is sent; otherwise executeLogQuery or executeTraceQuery starts
\* with the engine's answer fixed.
Call ==
    /\ phase = "idle"
    /\ \/ /\ phase' = "done" /\ outcome' = "err"
          /\ UNCHANGED <<built, rows, windowed, broken>>
       \/ /\ \E a \in Answers, b \in {"none", "refused", "midstream"} :
                rows' = a[2] /\ windowed' = a[1] /\ broken' = b
          /\ built' = TRUE
          /\ phase' = "query" /\ UNCHANGED outcome
    /\ kind' \in {"logs", "traces"}
    /\ UNCHANGED <<deadline, pos, logs, total, warned>>

\* The context of the call is done: withQueryTimeout's deadline passes, or
\* the caller's context is cancelled.
Deadline ==
    /\ phase \in {"query", "stream"}
    /\ ~deadline
    /\ deadline' = TRUE
    /\ UNCHANGED <<kind, phase, built, rows, windowed, broken, pos, logs, total, warned, outcome>>

\* db.QueryContext: fails on a done context or a refused query.
QueryContext ==
    /\ phase = "query"
    /\ \/ /\ deadline \/ broken = "refused"
          /\ phase' = "done" /\ outcome' = "err"
       \/ /\ ~deadline /\ broken # "refused"
          /\ phase' = "stream" /\ UNCHANGED outcome
    /\ UNCHANGED <<kind, built, rows, windowed, broken, deadline, pos, logs, total, warned>>

\* Mutant: a malformed labels value aborts the query.
NextRowDecodeFatal ==
    /\ kind = "logs" /\ phase = "stream" /\ ~deadline /\ pos < Len(rows)
    /\ LET r == rows[pos + 1]
       IN  IF ~r.scans \/ r.labels = "malformed"
           THEN /\ phase' = "done" /\ outcome' = "err"
                /\ UNCHANGED <<pos, logs, total, warned>>
           ELSE /\ logs' = Append(logs, DecodedLabels(r.labels))
                /\ total' = windowed
                /\ pos' = pos + 1
                /\ UNCHANGED <<phase, outcome, warned>>
    /\ UNCHANGED <<kind, built, rows, windowed, broken, deadline>>

\* rows.Next() is true and rows.Scan runs: a scan error aborts the call, a
\* malformed labels value is replaced and warned about, a valid
\* total_count is kept, the record is appended.
NextRow ==
    /\ kind = "logs" /\ phase = "stream" /\ ~deadline /\ pos < Len(rows)
    /\ LET r == rows[pos + 1]
       IN  IF ~r.scans
           THEN /\ phase' = "done" /\ outcome' = "err"
                /\ UNCHANGED <<pos, logs, total, warned>>
           ELSE /\ logs' = Append(logs, DecodedLabels(r.labels))
                /\ warned' = IF r.labels = "malformed" THEN warned + 1 ELSE warned
                /\ total' = windowed
                /\ pos' = pos + 1
                /\ UNCHANGED <<phase, outcome>>
    /\ UNCHANGED <<kind, built, rows, windowed, broken, deadline>>

\* The trace loop: Scan (the spans carry no labels), total_count, append.
NextSpan ==
    /\ kind = "traces" /\ phase = "stream" /\ ~deadline /\ pos < Len(rows)
    /\ IF ~rows[pos + 1].scans
       THEN /\ phase' = "done" /\ outcome' = "err"
            /\ UNCHANGED <<pos, logs, total>>
       ELSE /\ logs' = Append(logs, "span")
            /\ total' = windowed
            /\ pos' = pos + 1
            /\ UNCHANGED <<phase, outcome>>
    /\ UNCHANGED <<kind, built, rows, windowed, broken, deadline, warned>>

\* Mutant: rows.Err() not consulted.
EndRowsIgnoringErr ==
    /\ phase = "stream"
    /\ pos = Len(rows) \/ deadline
    /\ outcome' = "ok"
    /\ phase' = "done"
    /\ UNCHANGED <<kind, built, rows, windowed, broken, deadline, pos, logs, total, warned>>

\* rows.Next() is false: the stream ended, broke, or the done context
\* closed it; rows.Err() decides.  Once every row is read, a deadline
\* that closed the rows before the Next() that would have seen io.EOF is
\* reported as ctx.Err(); one that came after it is not.
EndRows ==
    /\ phase = "stream"
    /\ \/ /\ pos = Len(rows) /\ broken = "none"
          /\ outcome' = "ok"
       \/ /\ pos = Len(rows) /\ deadline
          /\ outcome' = "err"
       \/ /\ pos = Len(rows) /\ broken = "midstream"
          /\ outcome' = "err"
       \/ /\ deadline /\ pos < Len(rows)
          /\ outcome' = "err"
    /\ phase' = "done"
    /\ UNCHANGED <<kind, built, rows, windowed, broken, deadline, pos, logs, total, warned>>

\* The handler has the result; the provider serves the next call.
Reset ==
    /\ phase = "done"
    /\ phase' = "idle" /\ built' = FALSE /\ kind' = "logs"
    /\ rows' = <<>> /\ windowed' = 0 /\ broken' = "none"
    /\ deadline' = FALSE
    /\ pos' = 0 /\ logs' = <<>> /\ total' = 0 /\ warned' = 0
    /\ outcome' = "none"

Next == Call \/ Deadline \/ QueryContext \/ NextRow \/ NextSpan \/ EndRows \/ Reset

\* Every step of a started call is taken: the deadline bounds the wait on
\* the engine.
Spec == Init /\ [][Next]_vars /\ WF_vars(QueryContext) /\ WF_vars(NextRow) /\ WF_vars(NextSpan)
        /\ WF_vars(EndRows)

-----------------------------------------------------------------------------
\* A call has returned exactly when it is done, with a result or an error.
TypeOK ==
    /\ phase \in {"idle", "query", "stream", "done"}
    /\ outcome \in {"none", "ok", "err"}
    /\ (phase = "done") = (outcome # "none")
    /\ pos \in 0..Len(rows)
    /\ logs \in Seq({"nil", "map", "empty", "span"})
    /\ kind = "traces" => warned = 0

\* A LogResult returned without error holds every row the engine sent and
\* the windowed total count (zero for no rows): neither a deadline nor a
\* broken stream yields a truncated page reported as success.
NoPartialResult ==
    outcome = "ok" =>
        /\ Len(logs) = Len(rows)
        /\ total = IF rows = <<>> THEN 0 ELSE windowed

\* Every error has a cause other than label decoding: a builder error, the
\* deadline, a refused query, a broken stream or a row that does not scan.
\* A malformed labels_json value is never escalated.
ErrorsHaveCause ==
    outcome = "err" =>
        \/ ~built \/ deadline \/ broken # "none"
        \/ \E i \in DOMAIN rows : ~rows[i].scans
=============================================================================
