----------------------------- MODULE HealthCheck -----------------------------
(***************************************************************************)
(* The health endpoint with durations: the handler Health (handlers.go),   *)
(* LoggingService.HealthCheck (service.go), which derives one 5 s context  *)
(* for the whole check, and the ClickStack probe Provider.HealthCheck      *)
(* (provider.go), which pings under withQueryTimeout of that context.  The *)
(* OpenSearch client is not in this repository: its HealthCheck is a probe *)
(* bounded only by the context it is given.                                *)
(*                                                                         *)
(* clock counts whole seconds since the request arrived.  A probe answers  *)
(* ok or with an error after its latency, or hangs; the context's timer    *)
(* ends it at its deadline.  Time never passes a pending answer or         *)
(* deadline, so every event happens at its instant.                        *)
(***************************************************************************)
EXTENDS Integers

CONSTANTS
    HealthTimeout,   \* the 5 s of HealthCheck's context.WithTimeout
    QueryTimeouts,   \* values ClickStackConfig.QueryTimeout may take
    DefaultQuery,    \* withQueryTimeout's 10 s default for a non-positive value
    Latencies,       \* how long a probe may take to answer
    Hang             \* a probe that never answers by itself

VARIABLES
    cfg,      \* the instance: useClickStack, dual-read probe, osClient, query timeout
    clock,    \* seconds since the request arrived
    pc,       \* idle, clickstack, shadow, opensearch, done
    probe,    \* the probe in flight: [deadline, answerAt, ok]
    primary,  \* what the probe deciding health returned: none, ok, err
    warned,   \* "OpenSearch dual-read health check failed" logged
    status    \* the handler's response: 0, 200 or 503

vars == <<cfg, clock, pc, probe, primary, warned, status>>

Configs == [useClickStack : BOOLEAN, dualProbe : BOOLEAN, osClient : BOOLEAN,
            queryTimeout : QueryTimeouts]

NoProbe == [deadline |-> 0, answerAt |-> Hang, ok |-> FALSE]

\* withQueryTimeout: a non-positive QueryTimeout means 10 s.
QueryTimeout(c) == IF c.queryTimeout <= 0 THEN DefaultQuery ELSE c.queryTimeout

\* A probe started now under a context whose deadline is d.
Probes(d) == [deadline : {d}, answerAt : {clock + l : l \in Latencies} \cup {Hang}, ok : BOOLEAN]

\* Mutant: a probe that ignores its context's deadline.
ReturnsIgnoringDeadline(p) ==
    IF p.answerAt # Hang /\ p.answerAt = clock THEN {IF p.ok THEN "ok" ELSE "err"} ELSE {}

\* What a probe in flight returns at this instant: its answer, or the
\* context's error once the deadline is reached (either may come first when
\* both fall on the same instant).
Returns(p) ==
    (IF p.answerAt # Hang /\ p.answerAt = clock THEN {IF p.ok THEN "ok" ELSE "err"} ELSE {})
    \cup (IF p.deadline = clock THEN {"err"} ELSE {})

\* Health: HealthCheck's error is written as 503 "unhealthy", nil as 200
\* "healthy".
Health(r) == status' = IF r = "err" THEN 503 ELSE 200

Min2(a, b) == IF a < b THEN a ELSE b

Init ==
    /\ cfg \in Configs
    /\ clock = 0
    /\ pc = "idle"
    /\ probe = NoProbe
    /\ primary = "none" /\ warned = FALSE /\ status = 0

\* Mutant: the ping's timeout derived from context.Background().
HealthCheckDetachedPing ==
    /\ pc = "idle"
    /\ \/ /\ cfg.useClickStack
          /\ probe' \in Probes(QueryTimeout(cfg))
          /\ pc' = "clickstack" /\ UNCHANGED status
       \/ /\ ~cfg.useClickStack /\ cfg.osClient
          /\ probe' \in Probes(HealthTimeout)
          /\ pc' = "opensearch" /\ UNCHANGED status
       \/ /\ ~cfg.useClickStack /\ ~cfg.osClient
          /\ pc' = "done" /\ status' = 200 /\ UNCHANGED probe
    /\ UNCHANGED <<cfg, clock, primary, warned>>

\* HealthCheck: ctx gets the 5 s deadline; ClickStack mode pings under
\* withQueryTimeout(ctx), legacy mode probes OpenSearch with ctx, and legacy
\* mode without a client passes at once.
HealthCheck ==
    /\ pc = "idle"
    /\ \/ /\ cfg.useClickStack
          /\ probe' \in Probes(Min2(HealthTimeout, QueryTimeout(cfg)))
          /\ pc' = "clickstack" /\ UNCHANGED status
       \/ /\ ~cfg.useClickStack /\ cfg.osClient
          /\ probe' \in Probes(HealthTimeout)
          /\ pc' = "opensearch" /\ UNCHANGED status
       \/ /\ ~cfg.useClickStack /\ ~cfg.osClient
          /\ pc' = "done" /\ Health("ok") /\ UNCHANGED probe
    /\ UNCHANGED <<cfg, clock, primary, warned>>

\* One second passes; never beyond an answer or a deadline still pending
\* (a probe's answer comes at least a second after it starts).
Tick ==
    /\ pc \in {"clickstack", "shadow", "opensearch"}
    /\ clock < probe.deadline
    /\ clock # probe.answerAt
    /\ clock' = clock + 1
    /\ UNCHANGED <<cfg, pc, probe, primary, warned, status>>

\* Mutant: the OpenSearch dual-read probe given a fresh 5 s context.
HealthClickStackFreshContext ==
    /\ pc = "clickstack"
    /\ \E r \in Returns(probe) :
          /\ primary' = r
          /\ IF r = "err"
             THEN pc' = "done" /\ status' = 503 /\ UNCHANGED probe
             ELSE IF cfg.dualProbe
                  THEN /\ probe' \in Probes(clock + HealthTimeout)
                       /\ pc' = "shadow" /\ UNCHANGED status
                  ELSE pc' = "done" /\ status' = 200 /\ UNCHANGED probe
    /\ UNCHANGED <<cfg, clock, warned>>

\* storage.HealthCheck returns: an error is the check's error (503); on
\* success with the sampler enabled and a client, OpenSearch is probed
\* under the same ctx.
HealthClickStack ==
    /\ pc = "clickstack"
    /\ \E r \in Returns(probe) :
          /\ primary' = r
          /\ IF r = "err"
             THEN pc' = "done" /\ Health(r) /\ UNCHANGED probe
             ELSE IF cfg.dualProbe
                  THEN /\ probe' \in Probes(HealthTimeout)
                       /\ pc' = "shadow" /\ UNCHANGED status
                  ELSE pc' = "done" /\ Health(r) /\ UNCHANGED probe
    /\ UNCHANGED <<cfg, clock, warned>>

\* Mutant: the dual-read probe's error returned.
HealthShadowFatal ==
    /\ pc = "shadow"
    /\ \E r \in Returns(probe) :
          /\ warned' = (r = "err")
          /\ status' = IF r = "err" THEN 503 ELSE 200
    /\ pc' = "done"
    /\ UNCHANGED <<cfg, clock, probe, primary>>

\* The dual-read probe returns: an error is only warned about.
HealthShadow ==
    /\ pc = "shadow"
    /\ \E r \in Returns(probe) : warned' = (r = "err")
    /\ pc' = "done" /\ Health("ok")
    /\ UNCHANGED <<cfg, clock, probe, primary>>

\* Legacy mode: the OpenSearch probe decides.
HealthOpenSearch ==
    /\ pc = "opensearch"
    /\ \E r \in Returns(probe) :
          /\ primary' = r
          /\ Health(r)
    /\ pc' = "done"
    /\ UNCHANGED <<cfg, clock, probe, warned>>

\* The response is written; the next health request arrives.
Reset ==
    /\ pc = "done"
    /\ pc' = "idle" /\ clock' = 0 /\ probe' = NoProbe
    /\ primary' = "none" /\ warned' = FALSE /\ status' = 0
    /\ UNCHANGED cfg

Next ==
    \/ HealthCheck \/ Tick
    \/ HealthClickStack \/ HealthShadow \/ HealthOpenSearch
    \/ Reset

Spec == Init /\ [][Next]_vars

-----------------------------------------------------------------------------
TypeOK ==
    /\ cfg \in Configs
    /\ pc \in {"idle", "clickstack", "shadow", "opensearch", "done"}
    /\ primary \in {"none", "ok", "err"} /\ status \in {0, 200, 503}
    /\ (pc = "done") = (status # 0)
    /\ probe.deadline \in 0..HealthTimeout
    /\ warned => pc = "done" /\ cfg.dualProbe

\* The whole check, ClickStack ping and dual-read OpenSearch probe in
\* sequence, is over within the 5 s HealthCheck derives once: the second
\* probe only has what the first left of the shared context.
AnsweredWithinHealthTimeout == clock <= HealthTimeout

\* The response is 200 exactly when the probe of the selected backend
\* answered ok (or legacy mode has no client to probe): the dual-read
\* OpenSearch probe never turns a healthy ClickStack into a 503.
VerdictFollowsPrimary ==
    status # 0 =>
        (status = 200 <=> primary = "ok" \/ (~cfg.useClickStack /\ ~cfg.osClient))
=============================================================================
