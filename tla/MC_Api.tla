-------------------------------- MODULE MC_Api --------------------------------
(* The handlers' time texts, sort orders and limits, and a smaller      *)
(* signer instance: one caller key besides expires, and two values.       *)
EXTENDS Api
\* An RFC 3339 instant, the zero instant written in RFC 3339, a date
\* without a time (no layout of parseTimestamp accepts it), and nothing.
MCTimeTexts == {"2025-01-01T10:00:00Z", "0001-01-01T00:00:00Z", "2025-01-01", ""}

MCParsed == [t \in MCTimeTexts |->
                CASE t = "2025-01-01T10:00:00Z" -> "t1"
                  [] t = "0001-01-01T00:00:00Z" -> ZeroInstant
                  [] OTHER -> ParseError]

MCSortOrders == {<<>>, <<"A", "S", "C">>, <<"d", "e", "s", "c">>}

MCUpper == [c \in {"A", "S", "C"} |-> CASE c = "A" -> "a" [] c = "S" -> "s" [] c = "C" -> "c"]
MCAlphabet == <<"/", "0", "1", "2", "3", "4", "5", "6", "7", "8", "9", "=",
                "a", "b", "d", "e", "g", "i", "n", "p", "r", "s", "t", "u",
                "x", "y", "|">>

MCExpires == <<"e", "x", "p", "i", "r", "e", "s">>
MCSignature == <<"s", "i", "g", "n", "a", "t", "u", "r", "e">>

MCPaths == {<<"/", "d">>, <<"d">>}
\* A caller key, and a caller's own expires; a plain and a numeric value.
MCParamKeys == {<<"a">>, MCExpires}
MCParamVals == {<<"x">>, <<"9">>}
====
