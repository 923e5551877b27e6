--------------------------- MODULE LoggingService ---------------------------
(***************************************************************************)
(* The dispatcher of internal/observer/service/service.go: concurrent       *)
(* requests to one LoggingService, each choosing the backend with          *)
(* useClickStack, calling it, and on ClickStack success possibly running   *)
(* a sampled shadow read against OpenSearch (the maybeDualRead functions) *)
(* whose sampler draws from one math/rand generator under a sync.Mutex.    *)
(* Backends are oracles: each call returns any outcome its type allows.    *)
(***************************************************************************)
EXTENDS TelemetryResults, Sequences, FiniteSets

CONSTANTS
    Requests,      \* concurrent requests (goroutines of the HTTP server)
    BackendNames,  \* values of TELEMETRY_BACKEND the model tries
    RateScale,     \* DualSampleRate and rng.Float64() are multiples of 1/RateScale
    RngPeriod      \* number of generator states the model distinguishes

ASSUME RateScale \in Nat \ {0} /\ RngPeriod \in Nat \ {0}

VARIABLES
    cfg,         \* the config.Config the service was built from (fixed)
    rng,         \* rng[i]: RateScale * Float64() drawn from generator state i (seed)
    rngPos,      \* the state of the shared math/rand generator
    lockHolder,  \* the request holding dualSampler.mu, or None
    pc,          \* pc[r]: where request r is in its handler
    op,          \* op[r]: the LoggingService method request r called
    via,         \* via[r]: the backend that served the primary call
    primary,     \* primary[r]: the primary result or error
    secondary,   \* secondary[r]: the shadow (OpenSearch) result or error
    seen,        \* seen[r]: generator state read by r inside rng.Float64()
    warnings,    \* warnings[r]: the slog warnings request r emitted, in order
    response     \* response[r]: what the method returned to its caller

vars == <<cfg, rng, rngPos, lockHolder, pc, op, via, primary, secondary,
          seen, warnings, response>>

Rates == 0..RateScale

\* config.Validate keeps the sample rate in [0, 1]; the rest is free.
Configs == [backend : BackendNames, storage : BOOLEAN, osClient : BOOLEAN,
            dualRead : BOOLEAN, rate : Rates]

\* strings.EqualFold(name, "clickstack") on the names the model tries.
EqualFoldClickStack(name) == name \in {"clickstack", "ClickStack", "CLICKSTACK"}

useClickStack == cfg.storage /\ EqualFoldClickStack(cfg.backend)

supportsCostReporting == cfg.storage /\ useClickStack

\* newDualSampler: enabled only with the flag set and a positive rate.
samplerEnabled == cfg.dualRead /\ cfg.rate > 0

QueryOps == LogScopes \cup {"traces"}

\* The comparison made after a successful shadow read: emitDualReadResult
\* for the four log scopes, maybeDualReadComponentTraces for traces.
Mismatch(o, p, s) ==
    IF o = "traces" THEN p.total # s.total
                    ELSE p.total # s.total \/ p.len # s.len

\* The warnings logged for a shadow read that returned s.
DualReadWarnings(o, p, s) ==
    IF s = ExecErr THEN <<"fetch_failed">>
    ELSE IF Mismatch(o, p, s) THEN <<"mismatch">>
    ELSE <<>>

\* The types of the variables, and the sampler's mutex: it is held only by
\* a request inside shouldSample, between its rng.Float64() read and the
\* deferred d.mu.Unlock(), so a request that has moved on never keeps it.
TypeOK ==
    /\ cfg \in Configs
    /\ rng \in [0..(RngPeriod - 1) -> 0..(RateScale - 1)]
    /\ rngPos \in 0..(RngPeriod - 1)
    /\ lockHolder \in Requests \cup {None}
    /\ pc \in [Requests -> {"idle", "call", "sample", "draw",
                            "advance", "shadow", "healthshadow", "done",
                            "returned", "panicked"}]
    /\ op \in [Requests -> Ops \cup {None}]
    /\ via \in [Requests -> {ClickStack, OpenSearch, None}]
    /\ primary \in [Requests -> QueryOutcomes \cup CallOutcomes \cup {ConfigErr, None}]
    /\ secondary \in [Requests -> QueryOutcomes \cup CallOutcomes \cup {None}]
    /\ seen \in [Requests -> 0..(RngPeriod - 1)]
    /\ warnings \in [Requests -> Seq({"fetch_failed", "mismatch", "health_failed"})]
    /\ response \in [Requests -> QueryOutcomes \cup CallOutcomes \cup {ConfigErr, None}]
    /\ lockHolder # None => pc[lockHolder] \in {"draw", "advance"}

Init ==
    /\ cfg \in Configs
    /\ rng \in [0..(RngPeriod - 1) -> 0..(RateScale - 1)]
    /\ rngPos = 0
    /\ lockHolder = None
    /\ pc = [r \in Requests |-> "idle"]
    /\ op = [r \in Requests |-> None]
    /\ via = [r \in Requests |-> None]
    /\ primary = [r \in Requests |-> None]
    /\ secondary = [r \in Requests |-> None]
    /\ seen = [r \in Requests |-> 0]
    /\ warnings = [r \in Requests |-> <<>>]
    /\ response = [r \in Requests |-> None]

\* A handler calls method o of the service for request r.
Start(r, o) ==
    /\ pc[r] = "idle"
    /\ pc' = [pc EXCEPT ![r] = "call"]
    /\ op' = [op EXCEPT ![r] = o]
    /\ UNCHANGED <<cfg, rng, rngPos, lockHolder, via, primary, secondary,
                   seen, warnings, response>>

\* Get*Logs / GetComponentTraces on ClickStack: build the query, call the
\* provider, convert the result; an error is returned at once, a result
\* goes on to maybeDualRead*.
QueryClickStack(r) ==
    /\ pc[r] = "call" /\ op[r] \in QueryOps /\ useClickStack
    /\ \E out \in QueryOutcomes :
        /\ primary' = [primary EXCEPT ![r] = out]
        /\ pc' = [pc EXCEPT ![r] = IF out = ExecErr THEN "done" ELSE "sample"]
    /\ via' = [via EXCEPT ![r] = ClickStack]
    /\ UNCHANGED <<cfg, rng, rngPos, lockHolder, op, secondary, seen,
                   warnings, response>>

\* Get*Logs / GetComponentTraces on OpenSearch: no dual read on this path.
\* ExecErr stands for a GenerateIndices error (log scopes) as well as a
\* Search error.
QueryOpenSearch(r) ==
    /\ pc[r] = "call" /\ op[r] \in QueryOps /\ ~useClickStack /\ cfg.osClient
    /\ \E out \in QueryOutcomes : primary' = [primary EXCEPT ![r] = out]
    /\ via' = [via EXCEPT ![r] = OpenSearch]
    /\ pc' = [pc EXCEPT ![r] = "done"]
    /\ UNCHANGED <<cfg, rng, rngPos, lockHolder, op, secondary, seen,
                   warnings, response>>

\* The same call with a nil OpenSearchClient: a log scope first asks
\* GenerateIndices, whose error is returned before the client is touched;
\* otherwise s.osClient.Search on a nil interface panics, and net/http
\* recovers it and drops the connection.
QueryOpenSearchNilClient(r) ==
    /\ pc[r] = "call" /\ op[r] \in QueryOps /\ ~useClickStack /\ ~cfg.osClient
    /\ via' = [via EXCEPT ![r] = OpenSearch]
    /\ \/ /\ op[r] \in LogScopes
          /\ primary' = [primary EXCEPT ![r] = ExecErr]
          /\ pc' = [pc EXCEPT ![r] = "done"]
       \/ /\ pc' = [pc EXCEPT ![r] = "panicked"]
          /\ UNCHANGED primary
    /\ UNCHANGED <<cfg, rng, rngPos, lockHolder, op, secondary, seen,
                   warnings, response>>

\* shouldDualRead is false without an enabled sampler or an OpenSearch client.
SkipDualRead(r) ==
    /\ pc[r] = "sample"
    /\ ~(samplerEnabled /\ cfg.osClient)
    /\ pc' = [pc EXCEPT ![r] = "done"]
    /\ UNCHANGED <<cfg, rng, rngPos, lockHolder, op, via, primary, secondary,
                   seen, warnings, response>>

\* shouldSample with rate >= 1 returns true without taking the lock.
SampleAlways(r) ==
    /\ pc[r] = "sample"
    /\ samplerEnabled /\ cfg.osClient
    /\ cfg.rate >= RateScale
    /\ pc' = [pc EXCEPT ![r] = "shadow"]
    /\ UNCHANGED <<cfg, rng, rngPos, lockHolder, op, via, primary, secondary,
                   seen, warnings, response>>

\* Mutant: the sampler without its mutex.
LockNoMutex(r) ==
    /\ pc[r] = "sample"
    /\ samplerEnabled /\ cfg.osClient
    /\ cfg.rate < RateScale
    /\ pc' = [pc EXCEPT ![r] = "draw"]
    /\ UNCHANGED <<cfg, rng, rngPos, lockHolder, op, via, primary, secondary,
                   seen, warnings, response>>

\* shouldSample with rate < 1: d.mu.Lock().
Lock(r) ==
    /\ pc[r] = "sample"
    /\ samplerEnabled /\ cfg.osClient
    /\ cfg.rate < RateScale
    /\ lockHolder = None
    /\ lockHolder' = r
    /\ pc' = [pc EXCEPT ![r] = "draw"]
    /\ UNCHANGED <<cfg, rng, rngPos, op, via, primary, secondary, seen,
                   warnings, response>>

\* rng.Float64() first reads the generator state ...
Draw(r) ==
    /\ pc[r] = "draw"
    /\ seen' = [seen EXCEPT ![r] = rngPos]
    /\ pc' = [pc EXCEPT ![r] = "advance"]
    /\ UNCHANGED <<cfg, rng, rngPos, lockHolder, op, via, primary, secondary,
                   warnings, response>>

\* Mutant: the deferred d.mu.Unlock() left out.
DecideNoUnlock(r) ==
    /\ pc[r] = "advance"
    /\ rngPos' = (seen[r] + 1) % RngPeriod
    /\ pc' = [pc EXCEPT ![r] = IF rng[seen[r]] < cfg.rate THEN "shadow" ELSE "done"]
    /\ UNCHANGED <<cfg, rng, lockHolder, op, via, primary, secondary, seen,
                   warnings, response>>

\* ... then stores the advanced state; the value is compared with the rate
\* and the deferred d.mu.Unlock() runs.
Decide(r) ==
    /\ pc[r] = "advance"
    /\ rngPos' = (seen[r] + 1) % RngPeriod
    /\ lockHolder' = None
    /\ pc' = [pc EXCEPT ![r] = IF rng[seen[r]] < cfg.rate THEN "shadow" ELSE "done"]
    /\ UNCHANGED <<cfg, rng, op, via, primary, secondary, seen, warnings,
                   response>>

\* Mutant: the shadow result replaces the primary one.
ShadowReadReturnsSecondary(r) ==
    /\ pc[r] = "shadow"
    /\ \E s \in QueryOutcomes :
        /\ secondary' = [secondary EXCEPT ![r] = s]
        /\ primary' = [primary EXCEPT ![r] = s]
        /\ warnings' = [warnings EXCEPT ![r] = @ \o DualReadWarnings(op[r], primary[r], s)]
    /\ pc' = [pc EXCEPT ![r] = "done"]
    /\ UNCHANGED <<cfg, rng, rngPos, lockHolder, op, via, seen, response>>

\* The shadow read on OpenSearch and the comparison with the primary.
ShadowRead(r) ==
    /\ pc[r] = "shadow"
    /\ \E s \in QueryOutcomes :
        /\ secondary' = [secondary EXCEPT ![r] = s]
        /\ warnings' = [warnings EXCEPT ![r] = @ \o DualReadWarnings(op[r], primary[r], s)]
    /\ pc' = [pc EXCEPT ![r] = "done"]
    /\ UNCHANGED <<cfg, rng, rngPos, lockHolder, op, via, primary, seen,
                   response>>

\* HealthCheck on ClickStack: a failure is returned; on success the
\* OpenSearch client is checked too when the sampler is enabled.
HealthClickStack(r) ==
    /\ pc[r] = "call" /\ op[r] = "health" /\ useClickStack
    /\ \E h \in CallOutcomes :
        /\ primary' = [primary EXCEPT ![r] = h]
        /\ pc' = [pc EXCEPT ![r] =
                    IF h = OK /\ samplerEnabled /\ cfg.osClient
                    THEN "healthshadow" ELSE "done"]
    /\ via' = [via EXCEPT ![r] = ClickStack]
    /\ UNCHANGED <<cfg, rng, rngPos, lockHolder, op, secondary, seen,
                   warnings, response>>

\* The OpenSearch check of dual-read mode only logs a failure.
HealthShadow(r) ==
    /\ pc[r] = "healthshadow"
    /\ \E h \in CallOutcomes :
        /\ secondary' = [secondary EXCEPT ![r] = h]
        /\ warnings' = [warnings EXCEPT ![r] =
                          IF h = ExecErr THEN Append(@, "health_failed") ELSE @]
    /\ pc' = [pc EXCEPT ![r] = "done"]
    /\ UNCHANGED <<cfg, rng, rngPos, lockHolder, op, via, primary, seen,
                   response>>

\* HealthCheck on OpenSearch; without a client it reports healthy.
HealthOpenSearch(r) ==
    /\ pc[r] = "call" /\ op[r] = "health" /\ ~useClickStack
    /\ \E h \in IF cfg.osClient THEN CallOutcomes ELSE {OK} :
        primary' = [primary EXCEPT ![r] = h]
    /\ via' = [via EXCEPT ![r] = OpenSearch]
    /\ pc' = [pc EXCEPT ![r] = "done"]
    /\ UNCHANGED <<cfg, rng, rngPos, lockHolder, op, secondary, seen,
                   warnings, response>>

\* GenerateCostReportCSV: refused unless ClickStack serves, then the
\* provider's report rendered as CSV (writing to a buffer cannot fail).
CostReport(r) ==
    /\ pc[r] = "call" /\ op[r] = "cost"
    /\ \E c \in IF supportsCostReporting THEN CallOutcomes ELSE {ConfigErr} :
        primary' = [primary EXCEPT ![r] = c]
    /\ via' = [via EXCEPT ![r] = IF useClickStack THEN ClickStack ELSE OpenSearch]
    /\ pc' = [pc EXCEPT ![r] = "done"]
    /\ UNCHANGED <<cfg, rng, rngPos, lockHolder, op, secondary, seen,
                   warnings, response>>

\* The method returns the primary result (or its error) to the handler.
Return(r) ==
    /\ pc[r] = "done"
    /\ response' = [response EXCEPT ![r] = primary[r]]
    /\ pc' = [pc EXCEPT ![r] = "returned"]
    /\ UNCHANGED <<cfg, rng, rngPos, lockHolder, op, via, primary, secondary,
                   seen, warnings>>

\* The handler has written the response; its goroutine takes a new request.
Recycle(r) ==
    /\ pc[r] \in {"returned", "panicked"}
    /\ pc' = [pc EXCEPT ![r] = "idle"]
    /\ op' = [op EXCEPT ![r] = None]
    /\ via' = [via EXCEPT ![r] = None]
    /\ primary' = [primary EXCEPT ![r] = None]
    /\ secondary' = [secondary EXCEPT ![r] = None]
    /\ seen' = [seen EXCEPT ![r] = 0]
    /\ warnings' = [warnings EXCEPT ![r] = <<>>]
    /\ response' = [response EXCEPT ![r] = None]
    /\ UNCHANGED <<cfg, rng, rngPos, lockHolder>>

\* Every step of request r but the nil-client panic.
RequestStep(r) ==
    \/ \E o \in Ops : Start(r, o)
    \/ QueryClickStack(r)
    \/ QueryOpenSearch(r)
    \/ SkipDualRead(r)
    \/ SampleAlways(r)
    \/ Lock(r)
    \/ Draw(r)
    \/ Decide(r)
    \/ ShadowRead(r)
    \/ HealthClickStack(r)
    \/ HealthShadow(r)
    \/ HealthOpenSearch(r)
    \/ CostReport(r)
    \/ Return(r)
    \/ Recycle(r)

Next == \E r \in Requests : RequestStep(r) \/ QueryOpenSearchNilClient(r)

(***************************************************************************)
(* Fairness.  Every backend call runs under a context deadline (the        *)
(* provider's query timeout, the OpenSearch client timeout, the 5s health  *)
(* timeout), so a call that has started ends: weak fairness on each step   *)
(* of a request.  The sampler lock is free only between other requests'    *)
(* critical sections; Go's sync.Mutex switches to starvation mode and      *)
(* hands the lock to a waiter blocked for over 1ms, which is strong        *)
(* fairness on Lock.  Start and Recycle are the callers' choice: no        *)
(* fairness.                                                               *)
(***************************************************************************)
Fairness ==
    \A r \in Requests :
        /\ WF_vars(QueryClickStack(r)) /\ WF_vars(QueryOpenSearch(r))
        /\ WF_vars(QueryOpenSearchNilClient(r))
        /\ WF_vars(SkipDualRead(r)) /\ WF_vars(SampleAlways(r))
        /\ SF_vars(Lock(r))
        /\ WF_vars(Draw(r)) /\ WF_vars(Decide(r)) /\ WF_vars(ShadowRead(r))
        /\ WF_vars(HealthClickStack(r)) /\ WF_vars(HealthShadow(r))
        /\ WF_vars(HealthOpenSearch(r)) /\ WF_vars(CostReport(r))
        /\ WF_vars(Return(r))

Spec == Init /\ [][Next]_vars /\ Fairness

\* A service that has a client for the backend it queries: ClickStack is
\* selected, or the OpenSearch client is not nil.
CanServe == useClickStack \/ cfg.osClient

\* The service built with such a configuration.  The nil-client panic is
\* never enabled in it (CanServe is fixed), so its steps are the others.
ServingInit == Init /\ CanServe

ServingNext == \E r \in Requests : RequestStep(r)

ServingSpec == ServingInit /\ [][ServingNext]_vars /\ Fairness

-----------------------------------------------------------------------------
(***************************************************************************)
(* Properties.                                                             *)
(***************************************************************************)

\* The phase of a request as the abstract service sees it.
AbstractPc ==
    [r \in Requests |->
        CASE pc[r] = "idle"     -> "idle"
          [] pc[r] = "call"     -> "calling"
          [] pc[r] = "returned" -> "returned"
          [] pc[r] = "panicked" -> "calling"
          [] OTHER              -> "answered"]

QS == INSTANCE QueryService
        WITH backend <- IF useClickStack THEN ClickStack ELSE OpenSearch,
             aPc <- AbstractPc, aOp <- op, answer <- primary,
             answeredBy <- via, response <- response

\* The caller of every method receives exactly what the backend chosen at
\* construction answered: the shadow read never changes, delays forever or
\* fails a response, there is no fallback to the other backend, and every
\* request is answered (the sampler lock included).
ImplementsQueryService == QS!Spec

\* Two requests inside dualSampler.shouldSample never read the same
\* generator state: each sampling decision consumes its own draw of the
\* shared math/rand generator, which is not safe for concurrent use.
DistinctDraws ==
    \A r1, r2 \in Requests :
        (r1 # r2 /\ pc[r1] = "advance" /\ pc[r2] = "advance")
            => seen[r1] # seen[r2]

\* Spec 4.4 step 3 for every query, traces included: once the request has
\* returned, a mismatch warning was logged exactly when the shadow read
\* succeeded and differs in TotalCount or in result length.  The trace path
\* (maybeDualReadComponentTraces) compares TotalCount only.
DriftWarnedIffDiffers ==
    \A r \in Requests :
        (pc[r] = "returned" /\ op[r] \in QueryOps) =>
            ((<<"mismatch">> \in {SubSeq(warnings[r], i, i) : i \in DOMAIN warnings[r]})
              = (secondary[r] \in QueryResults
                 /\ (secondary[r].total # primary[r].total
                     \/ secondary[r].len # primary[r].len)))
=============================================================================
