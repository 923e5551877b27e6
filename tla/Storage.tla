------------------------------ MODULE Storage ------------------------------
(***************************************************************************)
(* The ClickStack provider serving the two kinds of call it has: a log or  *)
(* trace query (Provider) and a cost export (CostReport), one call at a    *)
(* time.  The calls share only the engine's connection pool, which        *)
(* database/sql makes safe to share, so serving them one at a time loses   *)
(* no interaction between them.  Log records reach the table whenever;     *)
(* a query in flight does not stop ingestion.                              *)
(***************************************************************************)
CONSTANTS
    MaxRows, MaxTotal,
    Logs, Null, Tokens, Nows, Collation, CostPerByte, CostPerLog

VARIABLES
    kind, qphase, rows, windowed, built, broken, deadline, qpos, logs, qtotal,
    warned, outcome,                                   \* the query call
    costBackend, phase, window, fail, sent, answer, pos, report, total,
    status, csv, table, snapshot                       \* the cost export

queryVars == <<kind, qphase, rows, windowed, built, broken, deadline, qpos, logs, qtotal,
               warned, outcome>>
costVars == <<costBackend, phase, window, fail, sent, answer, pos, report, total,
              status, csv, table, snapshot>>
storageVars == <<queryVars, costVars>>

Q == INSTANCE Provider WITH phase <- qphase, pos <- qpos, total <- qtotal
C == INSTANCE CostReport

StorageInit == Q!Init /\ C!Init

\* A step of a log or trace query while no cost export is in flight.
QueryStep ==
    /\ phase = "idle"
    /\ Q!Next
    /\ UNCHANGED costVars

\* A step of a cost export while no query is in flight.
CostStep ==
    /\ qphase = "idle"
    /\ C!Next
    /\ UNCHANGED queryVars

\* A log record reaches the table during a query.
IngestDuringQuery ==
    /\ qphase # "idle"
    /\ \E id \in DOMAIN Logs : C!Ingest(id)
    /\ UNCHANGED queryVars

StorageNext == QueryStep \/ CostStep \/ IngestDuringQuery

StorageSpec == StorageInit /\ [][StorageNext]_storageVars

-----------------------------------------------------------------------------
\* The query path's and the cost export's types.
TypeOK == Q!TypeOK /\ C!TypeOK

\* Query: a call that returned ok holds every row the engine sent.
NoPartialResult == Q!NoPartialResult

\* Query: every error has a cause other than a malformed labels_json.
ErrorsHaveCause == Q!ErrorsHaveCause

\* Cost export: a 200 CSV counts every record of its window once.
CSVAccountsForEveryLog == C!CSVAccountsForEveryLog

\* Cost export: every requested window is exactly one calendar month.
WindowIsCalendarMonth == C!WindowIsCalendarMonth

\* Cost export: the log_count column of a 200 CSV counts the records of
\* the table the query read whose timestamp is in [start, end), the window
\* of spec 4.7 ("Runs the fixed aggregation over [start, end)").
CSVCountsHalfOpenWindow ==
    status = 200 =>
        C!CSVLogCount = C!MapThenSumSet(LAMBDA id : 1,
                          {id \in snapshot : C!TimeLeq(window[1], Logs[id].ts)
                                             /\ ~C!TimeLeq(window[2], Logs[id].ts)})
====
