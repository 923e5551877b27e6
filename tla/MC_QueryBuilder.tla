-------------------------- MODULE MC_QueryBuilder --------------------------
(* Model-checking instance of QueryBuilder: one time range with a zero     *)
(* start, one in order with a non-UTC start, one reversed; limits below,   *)
(* at and above the resolved range; every optional filter empty or set;    *)
(* two-key maps so both iteration orders occur; pod-label keys with a     *)
(* quote, and (for the injection run) one ending in a backslash.           *)
EXTENDS QueryBuilder

ZeroTime == [instant |-> 0, zone |-> "UTC"]
T1 == [instant |-> 1, zone |-> "+05:30"]
T2 == [instant |-> 2, zone |-> "UTC"]

MCTimeRanges == {[start |-> ZeroTime, end |-> T2],
                 [start |-> T1, end |-> T2],
                 [start |-> T2, end |-> T1]}

MCBaseFilterSets ==
    {[searchPhrase |-> "", logLevels |-> <<>>, namespace |-> "",
      versions |-> <<>>, versionIDs |-> <<>>, logType |-> ""],
     [searchPhrase |-> "timeout", logLevels |-> <<"ERROR", "WARN">>,
      namespace |-> "default", versions |-> <<"v1">>,
      versionIDs |-> <<"id1", "id2">>, logType |-> "APPLICATION"]}

MCLimits == {-1, 0, 50, 5000}
MCIDs == {"", "x1"}
MCOptionals == {"", "o1"}
MCIDLists == {<<>>, <<"c1", "c2">>}

\* Map keys and their bytes: app, o'k, k\ , b1, a1.
MCKeyBytes == "app" :> <<97, 112, 112>> @@ "o'k" :> <<111, 39, 107>>
              @@ "k\\" :> <<107, 92>>
              @@ "b1" :> <<98, 49>> @@ "a1" :> <<97, 49>>

MCLabelKeys == {"app", "o'k"}
MCLabelKeysBackslash == {"app", "k\\"}
MCLabelValues == {"v"}
MCAPIIDs == {"b1", "a1"}
MCAPIVersions == {"", "1.0"}
=============================================================================
