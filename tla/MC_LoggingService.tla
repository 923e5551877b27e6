------------------------- MODULE MC_LoggingService -------------------------
(* Model-checking instance of LoggingService: two concurrent requests, two *)
(* log scopes, totals up to 1 (so totals and lengths can each disagree),   *)
(* sample rates 0, 1/2 and 1, and a generator with two states.             *)
EXTENDS LoggingService, TLC

MCLogScopes == {"component", "gateway"}
MCBackendNames == {"ClickStack", "opensearch"}
=============================================================================
