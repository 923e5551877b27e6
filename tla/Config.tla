------------------------------- MODULE Config -------------------------------
(***************************************************************************)
(* Process start-up: config.Load (config.go) builds the configuration from *)
(* getDefaults and the environment, unmarshals and validates it; then      *)
(* NewProvider (provider.go) with buildTLSConfig (tls.go) opens the        *)
(* ClickStack store, and NewLoggingService (service.go) builds the         *)
(* dual-read sampler and the HyperDX signer.  The process that calls them  *)
(* is not in this repository: it is assumed to call Load, then NewProvider *)
(* when the backend is ClickStack, then NewLoggingService, and to exit on  *)
(* an error.  It may be restarted with the same environment.               *)
(*                                                                         *)
(* Only the settings these components read are modelled; the checks of     *)
(* validate on settings not taken from the environment here (OpenSearch    *)
(* address and timeout, log limit, table names) pass on their defaults.    *)
(* An environment value is what strconv / time.ParseDuration make of it:   *)
(* an integer (seconds for a duration, percent for the sample rate), a     *)
(* boolean, a string, or Malformed; CLICKSTACK_HOSTS is kept as            *)
(* characters, since splitAndTrim works on them.  The files buildTLSConfig *)
(* reads and the start-up ping have any outcome.                           *)
(***************************************************************************)
EXTENDS Integers, Sequences, SequencesExt, FiniteSets, TLC

CONSTANTS
    EnvValues,  \* [environment variable -> values it may hold]
    Unset,      \* os.Getenv returns "": the variable is unset or empty
    Malformed,  \* a value the unmarshal hooks cannot convert
    None

VARIABLES
    env,        \* the process environment, the same across restarts
    pc,         \* env, unmarshal, validate, provider, service, running, exited
    pending,    \* set variables the range over envMappings has not visited yet
    overrides,  \* envOverrides, flattened to koanf keys
    cfg,        \* the unmarshalled Config, or None
    storage,    \* NewProvider's result: None or [hosts, tls, maxExecutionTime]
    sampler,    \* newDualSampler: [enabled, rate]
    signer,     \* newHyperDXSigner: None or [ttl]
    first       \* history: what the first Load returned (a Config or Malformed)

vars == <<env, pc, pending, overrides, cfg, storage, sampler, signer, first>>

\* The part of envMappings the model reads, aliases included.
EnvMappings ==
    ("PORT" :> "server.port") @@ ("SERVER_PORT" :> "server.port")
    @@ ("CLICKSTACK_HOSTS" :> "clickstack.hosts")
    @@ ("CLICKSTACK_SECURE" :> "clickstack.secure")
    @@ ("CLICKSTACK_CA_CERT" :> "clickstack.ca.cert")
    @@ ("CLICKSTACK_CLIENT_CERT" :> "clickstack.client.cert")
    @@ ("CLICKSTACK_CLIENT_KEY" :> "clickstack.client.key")
    @@ ("CLICKSTACK_QUERY_TIMEOUT" :> "clickstack.query.timeout")
    @@ ("TELEMETRY_BACKEND" :> "telemetry.backend")
    @@ ("TELEMETRY_DUAL_READ" :> "telemetry.dual.read")
    @@ ("TELEMETRY_DUAL_SAMPLE_RATE" :> "telemetry.dual.sample.rate")
    @@ ("HYPERDX_BASE_URL" :> "telemetry.hyperdx.base.url")
    @@ ("HYPERDX_SIGNING_KEY" :> "telemetry.hyperdx.signing.key")
    @@ ("HYPERDX_TTL" :> "telemetry.hyperdx.ttl")

\* getDefaults for the same keys ("localhost:9000" is the host <<"l">>).
Defaults ==
    ("server.port" :> 9097) @@ ("clickstack.hosts" :> <<<<"l">>>>)
    @@ ("clickstack.secure" :> FALSE) @@ ("clickstack.ca.cert" :> "")
    @@ ("clickstack.client.cert" :> "") @@ ("clickstack.client.key" :> "")
    @@ ("clickstack.query.timeout" :> 10) @@ ("telemetry.backend" :> "opensearch")
    @@ ("telemetry.dual.read" :> FALSE) @@ ("telemetry.dual.sample.rate" :> 5)
    @@ ("telemetry.hyperdx.base.url" :> "") @@ ("telemetry.hyperdx.signing.key" :> "")
    @@ ("telemetry.hyperdx.ttl" :> 900)

\* strings.TrimSpace.
TrimSpace(s) ==
    LET from == SelectInSeq(s, LAMBDA c : c # " ")
        to == SelectLastInSeq(s, LAMBDA c : c # " ")
    IN  IF from = 0 THEN <<>> ELSE SubSeq(s, from, to)

\* strings.Split(s, ",").
RECURSIVE SplitComma(_)
SplitComma(s) ==
    LET i == SelectInSeq(s, LAMBDA c : c = ",")
    IN  IF i = 0 THEN <<s>> ELSE <<SubSeq(s, 1, i - 1)>> \o SplitComma(SubSeq(s, i + 1, Len(s)))

\* Mutant: the pieces kept as they are.
splitAndTrimUntrimmed(value) == SplitComma(value)

\* splitAndTrim: the comma-separated pieces, trimmed, empty ones dropped.
splitAndTrim(value) ==
    SelectSeq([i \in DOMAIN SplitComma(value) |-> TrimSpace(SplitComma(value)[i])],
              LAMBDA h : h # <<>>)

\* The value Load puts into envOverrides for an environment variable.
Processed(k) == IF EnvMappings[k] = "clickstack.hosts" THEN splitAndTrim(env[k]) ELSE env[k]

\* Mutant: a signing key accepted without a base URL.
ValidNoBaseURLCheck(c) ==
    /\ c["server.port"] \in 1..65535
    /\ c["clickstack.hosts"] # <<>>
    /\ c["telemetry.dual.sample.rate"] \in 0..100
    /\ c["telemetry.hyperdx.signing.key"] # "" => c["telemetry.hyperdx.ttl"] > 0

\* validate, on the modelled settings.
Valid(c) ==
    /\ c["server.port"] \in 1..65535
    /\ c["clickstack.hosts"] # <<>>
    /\ c["telemetry.dual.sample.rate"] \in 0..100
    /\ c["telemetry.hyperdx.signing.key"] # "" => c["telemetry.hyperdx.base.url"] # ""
    /\ c["telemetry.hyperdx.signing.key"] # "" => c["telemetry.hyperdx.ttl"] > 0

\* useClickStack: the backend name equals "clickstack" up to case (for the
\* spellings the model gives TELEMETRY_BACKEND).
UseClickStack(c) == c["telemetry.backend"] \in {"clickstack", "ClickStack", "CLICKSTACK"}

\* Every environment: each variable takes one of its values.
RECURSIVE EnvChoices(_)
EnvChoices(keys) ==
    IF keys = {} THEN {<<>>}
    ELSE LET k == CHOOSE x \in keys : TRUE
         IN  {(k :> v) @@ rest : v \in EnvValues[k], rest \in EnvChoices(keys \ {k})}

\* The variables the range visits with an effect: unset ones are skipped.
SetVars == {k \in DOMAIN EnvMappings : env[k] # Unset}

\* Mutant: the range also visits the variables that are not set.
BootAllKeys ==
    /\ pc' = "env" /\ pending' = DOMAIN EnvMappings /\ overrides' = <<>>
    /\ cfg' = None /\ storage' = None
    /\ sampler' = [enabled |-> FALSE, rate |-> 0] /\ signer' = None

\* A restart, or the first start, of the process with the same environment.
Boot ==
    /\ pc' = "env" /\ pending' = SetVars /\ overrides' = <<>>
    /\ cfg' = None /\ storage' = None
    /\ sampler' = [enabled |-> FALSE, rate |-> 0] /\ signer' = None

\* The result of this Load, recorded the first time only.
Record(result) == first' = IF first = None THEN result ELSE first

Init ==
    /\ env \in EnvChoices(DOMAIN EnvMappings)
    /\ pc = "env" /\ pending = SetVars /\ overrides = <<>>
    /\ cfg = None /\ storage = None
    /\ sampler = [enabled |-> FALSE, rate |-> 0] /\ signer = None
    /\ first = None

\* One iteration of the range over envMappings, in the order Go picks:
\* the nested envOverrides entry for the key is overwritten.
LoadEnvVar(k) ==
    /\ pc = "env" /\ k \in pending
    /\ pending' = pending \ {k}
    /\ overrides' = (EnvMappings[k] :> Processed(k)) @@ overrides
    /\ UNCHANGED <<env, pc, cfg, storage, sampler, signer, first>>

\* k.Load of the overrides over the defaults, then k.Unmarshal: a value the
\* decode hooks cannot convert fails Load.
Unmarshal ==
    /\ pc = "env" /\ pending = {}
    /\ LET merged == overrides @@ Defaults
       IN  IF \E key \in DOMAIN merged : merged[key] = Malformed
           THEN pc' = "exited" /\ cfg' = None /\ Record(Malformed)
           ELSE pc' = "validate" /\ cfg' = merged /\ Record(merged)
    /\ UNCHANGED <<env, pending, overrides, storage, sampler, signer>>

\* cfg.validate; Load returns the error and the process exits.
Validate ==
    /\ pc = "validate"
    /\ pc' = IF ~Valid(cfg) THEN "exited"
             ELSE IF UseClickStack(cfg) THEN "provider" ELSE "service"
    /\ UNCHANGED <<env, pending, overrides, cfg, storage, sampler, signer, first>>

\* The error buildTLSConfig returns.
TLSError == [failed |-> TRUE]

\* Mutant: a CA file that cannot be read or parsed is skipped.
buildTLSConfigCAOptional(c, caFile, pairOK) ==
    CASE ~c["clickstack.secure"] -> None
      [] c["clickstack.client.cert"] # "" /\ c["clickstack.client.key"] # "" /\ ~pairOK -> TLSError
      [] OTHER -> [roots |-> c["clickstack.ca.cert"] # "" /\ caFile = "ok",
                   clientCert |-> c["clickstack.client.cert"] # "" /\ c["clickstack.client.key"] # ""]

\* buildTLSConfig: caFile is what reading and parsing the CA file gives,
\* pairOK whether tls.LoadX509KeyPair succeeds.
buildTLSConfig(c, caFile, pairOK) ==
    CASE ~c["clickstack.secure"] -> None
      [] c["clickstack.ca.cert"] # "" /\ caFile # "ok" -> TLSError
      [] c["clickstack.client.cert"] # "" /\ c["clickstack.client.key"] # "" /\ ~pairOK -> TLSError
      [] OTHER -> [roots |-> c["clickstack.ca.cert"] # "",
                   clientCert |-> c["clickstack.client.cert"] # "" /\ c["clickstack.client.key"] # ""]

\* NewProvider: buildClickHouseOptions, then a ping under cfg.Timeout.
NewProvider ==
    /\ pc = "provider"
    /\ \E caFile \in {"ok", "unreadable", "notPEM"}, pairOK, pingOK \in BOOLEAN :
         LET t == buildTLSConfig(cfg, caFile, pairOK)
         IN  IF cfg["clickstack.hosts"] = <<>> \/ t = TLSError \/ ~pingOK
             THEN pc' = "exited" /\ UNCHANGED storage
             ELSE /\ pc' = "service"
                  /\ storage' = [hosts |-> cfg["clickstack.hosts"], tls |-> t,
                                 maxExecutionTime |-> cfg["clickstack.query.timeout"]]
    /\ UNCHANGED <<env, pending, overrides, cfg, sampler, signer, first>>

\* newDualSampler: sampling only with dual read on and a positive rate.
newDualSampler(c) ==
    [enabled |-> c["telemetry.dual.read"] = TRUE /\ c["telemetry.dual.sample.rate"] > 0,
     rate |-> c["telemetry.dual.sample.rate"]]

\* newHyperDXSigner: no signer without both key and base URL; TTL <= 0 is 15m.
newHyperDXSigner(c) ==
    IF c["telemetry.hyperdx.signing.key"] = "" \/ c["telemetry.hyperdx.base.url"] = ""
    THEN None
    ELSE [ttl |-> IF c["telemetry.hyperdx.ttl"] <= 0 THEN 900 ELSE c["telemetry.hyperdx.ttl"]]

\* NewLoggingService.
NewLoggingService ==
    /\ pc = "service"
    /\ pc' = "running"
    /\ sampler' = newDualSampler(cfg)
    /\ signer' = newHyperDXSigner(cfg)
    /\ UNCHANGED <<env, pending, overrides, cfg, storage, first>>

\* The process is restarted, after running or after exiting on an error.
Restart ==
    /\ pc \in {"running", "exited"}
    /\ Boot
    /\ UNCHANGED <<env, first>>

Next ==
    \/ \E k \in DOMAIN EnvMappings : LoadEnvVar(k)
    \/ Unmarshal
    \/ Validate
    \/ NewProvider
    \/ NewLoggingService
    \/ Restart

Spec == Init /\ [][Next]_vars

-----------------------------------------------------------------------------
Hosts(c) == c["clickstack.hosts"]

TypeOK ==
    /\ pc \in {"env", "validate", "provider", "service", "running", "exited"}
    /\ pending \subseteq SetVars
    /\ DOMAIN overrides \subseteq DOMAIN Defaults
    /\ cfg = None \/ DOMAIN cfg = DOMAIN Defaults
    /\ storage # None => storage.tls \in {None} \cup [roots : BOOLEAN, clientCert : BOOLEAN]
    /\ sampler.enabled \in BOOLEAN
    /\ signer = None \/ signer.ttl > 0

\* Every ClickStack host the provider dials is a non-empty address with no
\* blank or comma in it, however CLICKSTACK_HOSTS was spaced and punctuated
\* (splitAndTrim in Load, the hosts check in validate).
HostsUsable ==
    storage # None =>
        /\ storage.hosts # <<>>
        /\ \A i \in DOMAIN storage.hosts :
             /\ storage.hosts[i] # <<>>
             /\ \A j \in DOMAIN storage.hosts[i] : storage.hosts[i][j] \notin {" ", ","}

\* A running service has a HyperDX signer exactly when a signing key is
\* configured (validate rejects a key without base URL or TTL, and
\* newHyperDXSigner drops the signer without them), and links it signs
\* expire after the configured TTL.
SignerIffKeyConfigured ==
    pc = "running" =>
        /\ (signer # None) = (cfg["telemetry.hyperdx.signing.key"] # "")
        /\ signer # None => signer.ttl = cfg["telemetry.hyperdx.ttl"]

\* A provider built with CLICKSTACK_SECURE connects over TLS, and then
\* trusts the configured CA whenever CLICKSTACK_CA_CERT names one: a CA
\* file that cannot be read or parsed stops start-up rather than leaving
\* the system roots in its place (buildTLSConfig, NewProvider).
TLSAsConfigured ==
    storage # None =>
        /\ (storage.tls = None) = ~cfg["clickstack.secure"]
        /\ storage.tls # None => storage.tls.roots = (cfg["clickstack.ca.cert"] # "")

\* Load is a function of the environment: a restart with the same
\* environment loads the configuration the first start loaded.
LoadIsDeterministic ==
    pc # "env" => (IF cfg = None THEN Malformed ELSE cfg) = first
====
