----------------------------- MODULE CostReport -----------------------------
(***************************************************************************)
(* The cost export path, end to end: the handler ExportCostReport          *)
(* (handlers.go) resolves the month token with parseMonthRange, the        *)
(* dispatcher's GenerateCostReportCSV (service.go) gates on the ClickStack *)
(* backend, the provider's GetCostReport (provider.go) runs the builder's  *)
(* aggregation (query_builder.go) and folds its rows with nullString, and  *)
(* the rows are rendered as CSV records.                                   *)
(*                                                                         *)
(* The engine holds the records of Logs ingested so far (table); records  *)
(* keep arriving while reports run.  The statement's answer is computed    *)
(* from the table as the query reads it, the way ClickHouse evaluates the  *)
(* builder's SQL:                                                          *)
(* coalesce, BETWEEN (both ends inclusive), GROUP BY, ORDER BY.  Instants  *)
(* are tuples <<year, month, day, second>> in UTC.  A CSV record is kept   *)
(* as its six fields (encoding/csv quotes a field and the reader gets it   *)
(* back).  Costs are exact in an abstract unit (float64 rounding is not    *)
(* modelled).                                                              *)
(***************************************************************************)
EXTENDS Integers, Sequences, SequencesExt, FiniteSets, Functions

CONSTANTS
    Logs,         \* the log table: id -> [org, project, component, ts, bytes]
    Null,         \* SQL NULL
    Tokens,       \* month query values callers send, as character sequences
    Nows,         \* instants time.Now() may return
    Collation,    \* the identifier strings in byte order
    CostPerByte,  \* storageCostPerTBUSD / 2^40, in the abstract unit
    CostPerLog    \* logProcessingCostPerMillion / 10^6, in the abstract unit

VARIABLES
    costBackend, \* supportsCostReporting() of the instance
    phase,       \* idle, query, stream, render, done
    window,      \* <<start, end>> handed to GetCostReport, or <<>>
    fail,        \* none, refused (QueryContext fails) or midstream
    sent,        \* rows the engine delivers before a midstream failure
    answer,      \* the rows the statement returns
    pos,         \* rows consumed by rows.Next
    report,      \* report.Rows
    total,       \* report.Total
    status,      \* HTTP status written: 0 (none yet), 200, 400 or 500
    csv,         \* the CSV payload, as a sequence of records
    table,       \* ids of the log records ingested so far
    snapshot     \* the table as the running query reads it, or {}

vars == <<costBackend, phase, window, fail, sent, answer, pos, report, total,
          status, csv, table, snapshot>>

Header == <<"organization_id", "project_id", "component_id", "log_count",
            "estimated_storage_bytes", "estimated_cost_usd">>

Unknown == "unknown"

-----------------------------------------------------------------------------
(* Instants and parseMonthRange.                                           *)

TimeLeq(a, b) ==
    \/ a = b
    \/ \E i \in 1..4 : a[i] < b[i] /\ \A j \in 1..(i - 1) : a[j] = b[j]

\* time.Time{}: January 1 of year 1, 00:00:00 UTC.
IsZero(t) == t = <<1, 1, 1, 0>>

DigitVal == [d \in {"0","1","2","3","4","5","6","7","8","9"} |->
               CHOOSE n \in 0..9 : <<"0","1","2","3","4","5","6","7","8","9">>[n + 1] = d]

IsDigit(c) == c \in DOMAIN DigitVal

\* strings.TrimSpace(value) == "".
IsBlank(v) == \A i \in DOMAIN v : v[i] \in {" ", "\t"}

\* time.Parse("2006-01", v): four year digits, '-', two month digits in
\* 1..12, nothing after; the first day of that month at 00:00 UTC.
WellFormedMonth(v) ==
    /\ Len(v) = 7
    /\ \A i \in {1, 2, 3, 4, 6, 7} : IsDigit(v[i])
    /\ v[5] = "-"
    /\ 10 * DigitVal[v[6]] + DigitVal[v[7]] \in 1..12

ParseMonth(v) ==
    <<1000 * DigitVal[v[1]] + 100 * DigitVal[v[2]] + 10 * DigitVal[v[3]] + DigitVal[v[4]],
      10 * DigitVal[v[6]] + DigitVal[v[7]], 1, 0>>

\* Mutant: the month incremented without carrying December into January.
AddMonthNoRollover(t) == <<t[1], t[2] + 1, 1, 0>>

\* start.AddDate(0, 1, 0) on the first of a month: time.Date normalises
\* month 13 to January of the next year.
AddMonth(t) ==
    IF t[2] = 12 THEN <<t[1] + 1, 1, 1, 0>> ELSE <<t[1], t[2] + 1, 1, 0>>

\* parseMonthRange: a blank value means the current UTC month.
ParseMonthRange(v, now) ==
    LET start == IF IsBlank(v) THEN <<now[1], now[2], 1, 0>> ELSE ParseMonth(v)
    IN  <<start, AddMonth(start)>>

MonthAccepted(v) == IsBlank(v) \/ WellFormedMonth(v)

-----------------------------------------------------------------------------
(* The builder's aggregation as ClickHouse evaluates it.                   *)

Coalesce(x) == IF x = Null THEN Unknown ELSE x

Rank(s) == CHOOSE i \in DOMAIN Collation : Collation[i] = s

\* ORDER BY organization_id, project_id, component_id.
KeyLess(a, b) ==
    \E i \in 1..3 : Rank(a[i]) < Rank(b[i]) /\ \A j \in 1..(i - 1) : a[j] = b[j]

GroupKey(l) == <<Coalesce(l.org), Coalesce(l.project), Coalesce(l.component)>>

\* WHERE timestamp BETWEEN ? AND ?
InWindow(w, t) == {id \in t : TimeLeq(w[1], Logs[id].ts) /\ TimeLeq(Logs[id].ts, w[2])}

SQLGroups(w, t) ==
    LET keys == SetToSortSeq({GroupKey(Logs[id]) : id \in InWindow(w, t)}, KeyLess)
        ids(k) == {id \in InWindow(w, t) : GroupKey(Logs[id]) = k}
    IN  [i \in DOMAIN keys |->
           [org |-> keys[i][1], project |-> keys[i][2], component |-> keys[i][3],
            logCount |-> Cardinality(ids(keys[i])),
            rawBytes |-> MapThenSumSet(LAMBDA id : Logs[id].bytes, ids(keys[i]))]]

-----------------------------------------------------------------------------
(* GetCostReport and GenerateCostReportCSV.                                *)

nullString(v, fallback) == IF v # Null /\ v # "" THEN v ELSE fallback

RowCost(rawBytes, logCount) == rawBytes * CostPerByte + logCount * CostPerLog

CostReportRow(r) ==
    [org |-> nullString(r.org, Unknown), project |-> nullString(r.project, Unknown),
     component |-> nullString(r.component, Unknown), logCount |-> r.logCount,
     rawBytes |-> r.rawBytes, cost |-> RowCost(r.rawBytes, r.logCount)]

CSVRecord(row) == <<row.org, row.project, row.component, row.logCount, row.rawBytes, row.cost>>

Init ==
    /\ costBackend \in BOOLEAN
    /\ phase = "idle"
    /\ window = <<>> /\ fail = "none" /\ sent = 0 /\ answer = <<>> /\ pos = 0
    /\ report = <<>> /\ total = 0
    /\ status = 0 /\ csv = <<>>
    /\ table = {} /\ snapshot = {}

\* ExportCostReport up to the query: a month the parser rejects is a 400;
\* GenerateCostReportCSV refuses a backend without cost reporting, and the
\* builder a zero start or end, both as a 500.
ExportCostReport(v, now) ==
    /\ phase = "idle"
    /\ IF ~MonthAccepted(v)
       THEN /\ status' = 400 /\ phase' = "done" /\ UNCHANGED window
       ELSE LET w == ParseMonthRange(v, now)
            IN  /\ window' = w
                /\ IF ~costBackend \/ IsZero(w[1]) \/ IsZero(w[2])
                   THEN status' = 500 /\ phase' = "done"
                   ELSE phase' = "query" /\ UNCHANGED status
    /\ UNCHANGED <<costBackend, fail, sent, answer, pos, report, total, csv, table, snapshot>>

\* withQueryTimeout and db.QueryContext: the query is refused (or its
\* context is done), or it streams the statement's rows, possibly breaking
\* after some of them.
QueryContext ==
    /\ phase = "query"
    /\ \/ /\ fail' = "refused"
          /\ status' = 500 /\ phase' = "done"
          /\ UNCHANGED <<answer, sent, snapshot>>
       \/ LET a == SQLGroups(window, table)
          IN  /\ answer' = a /\ snapshot' = table
              /\ \/ fail' = "none" /\ sent' = Len(a)
                 \/ fail' = "midstream" /\ sent' \in 0..Len(a)
              /\ phase' = "stream" /\ UNCHANGED status
    /\ UNCHANGED <<costBackend, window, pos, report, total, csv, table>>

\* rows.Next() is true: Scan, the row's cost, nullString on the three
\* identifiers, append, accumulate the total.
NextRow ==
    /\ phase = "stream" /\ pos < sent
    /\ LET row == CostReportRow(answer[pos + 1])
       IN  /\ report' = Append(report, row)
           /\ total' = total + row.cost
    /\ pos' = pos + 1
    /\ UNCHANGED <<costBackend, phase, window, fail, sent, answer, status, csv, table, snapshot>>

\* Mutant: rows.Err() not consulted.
EndRowsIgnoringErr ==
    /\ phase = "stream" /\ pos = sent
    /\ phase' = "render" /\ UNCHANGED status
    /\ UNCHANGED <<costBackend, window, fail, sent, answer, pos, report, total, csv, table, snapshot>>

\* rows.Next() is false; rows.Err() reports a broken stream as a 500.
EndRows ==
    /\ phase = "stream" /\ pos = sent
    /\ IF fail = "midstream"
       THEN status' = 500 /\ phase' = "done"
       ELSE phase' = "render" /\ UNCHANGED status
    /\ UNCHANGED <<costBackend, window, fail, sent, answer, pos, report, total, csv, table, snapshot>>

\* Mutant: the header record not written.
RenderNoHeader ==
    /\ phase = "render"
    /\ csv' = [i \in DOMAIN report |-> CSVRecord(report[i])]
    /\ status' = 200 /\ phase' = "done"
    /\ UNCHANGED <<costBackend, window, fail, sent, answer, pos, report, total, table, snapshot>>

\* The header and one record per report row, written with status 200.
Render ==
    /\ phase = "render"
    /\ csv' = <<Header>> \o [i \in DOMAIN report |-> CSVRecord(report[i])]
    /\ status' = 200 /\ phase' = "done"
    /\ UNCHANGED <<costBackend, window, fail, sent, answer, pos, report, total, table, snapshot>>

\* The next request on the same instance.
Reset ==
    /\ phase = "done"
    /\ phase' = "idle"
    /\ window' = <<>> /\ fail' = "none" /\ sent' = 0 /\ answer' = <<>> /\ pos' = 0
    /\ report' = <<>> /\ total' = 0 /\ status' = 0 /\ csv' = <<>>
    /\ snapshot' = {}
    /\ UNCHANGED <<costBackend, table>>

\* A log record reaches the table, whatever the report is doing.
Ingest(id) ==
    /\ id \notin table
    /\ table' = table \cup {id}
    /\ UNCHANGED <<costBackend, phase, window, fail, sent, answer, pos, report, total,
                   status, csv, snapshot>>

Next ==
    \/ \E v \in Tokens, now \in Nows : ExportCostReport(v, now)
    \/ QueryContext \/ NextRow \/ EndRows \/ Render \/ Reset
    \/ \E id \in DOMAIN Logs : Ingest(id)

Spec == Init /\ [][Next]_vars

-----------------------------------------------------------------------------
TypeOK ==
    /\ phase \in {"idle", "query", "stream", "render", "done"}
    /\ status \in {0, 200, 400, 500}
    /\ (phase = "done") = (status # 0)
    /\ pos \in 0..sent /\ sent \in 0..Len(answer)
    /\ Len(report) = pos
    /\ status = 200 => Len(csv) = Len(report) + 1
    /\ table \subseteq DOMAIN Logs /\ snapshot \subseteq table

\* Log count of a CSV record, and the log records a window selects.
CSVLogCount == MapThenSumSet(LAMBDA i : csv[i][4], 2..Len(csv))

\* A 200 cost CSV accounts for every log record of the window it was
\* asked for, each once: the log_count column sums to the number of records
\* the statement's WHERE clause selects from the table the query read,
\* records ingested since then excluded.  The row loop, rows.Err and the
\* rendering all stand between the two: a row dropped, repeated or lost to
\* a broken stream breaks it.
CSVAccountsForEveryLog ==
    status = 200 => CSVLogCount = Cardinality(InWindow(window, snapshot))

\* The month index of a date, counted from year 0: a reference for
\* calendar succession that shares nothing with AddMonth.
MonthIndex(t) == 12 * t[1] + (t[2] - 1)

\* Every window ExportCostReport hands to GetCostReport is one calendar
\* month: it opens at midnight on the first of a month and closes at
\* midnight on the first of the month that follows it in the calendar, a
\* real month (1..12) of the right year.  parseMonthRange's AddDate must
\* carry December into January of the next year; the December token and
\* a blank month on 31 December exercise it.
WindowIsCalendarMonth ==
    window # <<>> =>
        /\ \A i \in 1..2 : window[i][3] = 1 /\ window[i][4] = 0 /\ window[i][2] \in 1..12
        /\ MonthIndex(window[2]) = MonthIndex(window[1]) + 1
=============================================================================
