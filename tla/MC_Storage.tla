---------------------------- MODULE MC_Storage ----------------------------
EXTENDS Storage

\* Four log records: one of December 2024, one stamped exactly at the
\* first instant of January 2025 with no organization label and a NULL
\* project, one of January whose labels_json is NULL and whose project
\* is '', and one of January of a second component.
MCLogs == [id \in {"l1", "l2", "l3", "l4"} |->
    CASE id = "l1" -> [org |-> "acme", project |-> "p1", component |-> "c1",
                       ts |-> <<2024, 12, 15, 30>>, bytes |-> 3]
      [] id = "l2" -> [org |-> "", project |-> Null, component |-> "c1",
                       ts |-> <<2025, 1, 1, 0>>, bytes |-> 2]
      [] id = "l3" -> [org |-> Null, project |-> "", component |-> "c1",
                       ts |-> <<2025, 1, 20, 7>>, bytes |-> 1]
      [] id = "l4" -> [org |-> "acme", project |-> "p1", component |-> "c2",
                       ts |-> <<2025, 1, 2, 5>>, bytes |-> 4]]

\* "2024-12", "2025-01", "" and " " (the current month), "2025-13" and
\* "2025-1" (rejected) and "0001-01" (the zero time).
MCTokens == {<<"2","0","2","4","-","1","2">>, <<"2","0","2","5","-","0","1">>,
             <<>>, <<" ">>, <<"2","0","2","5","-","1","3">>, <<"2","0","2","5","-","1">>,
             <<"0","0","0","1","-","0","1">>}

\* time.Now() in January 2025, or on the last evening of December 2024.
MCNows == {<<2025, 1, 20, 9>>, <<2024, 12, 31, 23>>}

MCCollation == <<"", "acme", "c1", "c2", "p1", "unknown">>
====
