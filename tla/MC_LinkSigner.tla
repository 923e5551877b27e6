--------------------------- MODULE MC_LinkSigner ---------------------------
(* Model-checking instance of LinkSigner: a path with and one without the  *)
(* leading slash; caller keys a, b and expires (and, in one run,           *)
(* signature); plain values, a numeric one, and in one run a value that    *)
(* contains the canonical string's separators.                             *)
EXTENDS LinkSigner

MCAlphabet == <<"/", "0", "1", "2", "3", "4", "5", "6", "7", "8", "9", "=",
                "a", "b", "d", "e", "g", "i", "n", "p", "r", "s", "t", "u",
                "x", "y", "|">>

MCExpires == <<"e", "x", "p", "i", "r", "e", "s">>
MCSignature == <<"s", "i", "g", "n", "a", "t", "u", "r", "e">>

MCPaths == {<<"/", "d">>, <<"d">>}
MCParamKeys == {<<"a">>, <<"b">>, MCExpires}
MCParamVals == {<<"x">>, <<"y">>, <<"9">>}
MCParamValsSeparator == {<<"x">>, <<"y">>, <<"x", "|", "b", "=", "y">>}
MCParamKeysAB == {<<"a">>, <<"b">>}
=============================================================================
