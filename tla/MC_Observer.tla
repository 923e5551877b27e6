----------------------------- MODULE MC_Observer -----------------------------
(* Environments for the observer process: ClickStack or OpenSearch backend, *)
(* dual read, the three kinds of QueryTimeout, a hosts list with blanks and *)
(* an empty piece, TLS with a CA file and a client certificate with and     *)
(* without its key, and a signing key with and without a base URL.          *)
EXTENDS Observer

MCEnvValues ==
    ("CLICKSTACK_HOSTS" :> {Unset, <<" ", "a", ",", " ", ",", "b">>, <<",", " ">>})
    @@ ("CLICKSTACK_SECURE" :> {Unset, TRUE})
    @@ ("CLICKSTACK_CA_CERT" :> {Unset, "ca.pem"})
    @@ ("CLICKSTACK_CLIENT_CERT" :> {"crt.pem"})
    @@ ("CLICKSTACK_CLIENT_KEY" :> {Unset, "key.pem"})
    @@ ("CLICKSTACK_QUERY_TIMEOUT" :> {Unset, 0, 2})
    @@ ("TELEMETRY_BACKEND" :> {"opensearch", "CLICKSTACK"})
    @@ ("TELEMETRY_DUAL_READ" :> {Unset, TRUE})
    @@ ("HYPERDX_SIGNING_KEY" :> {Unset, "k"})
    @@ ("HYPERDX_BASE_URL" :> {Unset, "https://hdx"})
    @@ [k \in DOMAIN EnvMappings |-> {Unset}]
====
