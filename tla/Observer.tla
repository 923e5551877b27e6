------------------------------ MODULE Observer ------------------------------
(***************************************************************************)
(* The observer process: start-up (Config) followed by health requests     *)
(* (HealthCheck), which see what start-up produced.  LoggingService's      *)
(* useClickStack is "a Provider was built", its dual sampler and the       *)
(* ClickStack QueryTimeout come from the loaded Config; whether the        *)
(* process passed an OpenSearch client is chosen by its (absent) main.     *)
(* A restart, after a crash or a deployment, may come in the middle of a   *)
(* request and drops it.                                                   *)
(***************************************************************************)
EXTENDS Config

CONSTANTS
    HealthTimeout, QueryTimeouts, DefaultQuery, Latencies, Hang

VARIABLES
    hcfg, clock, hpc, probe, primary, warned, status

healthVars == <<hcfg, clock, hpc, probe, primary, warned, status>>
configVars == <<env, pc, pending, overrides, cfg, storage, sampler, signer, first>>
allVars == <<configVars, healthVars>>

HC == INSTANCE HealthCheck WITH cfg <- hcfg, pc <- hpc

\* No health request in flight.
HealthIdle ==
    /\ hpc' = "idle" /\ clock' = 0 /\ probe' = HC!NoProbe
    /\ primary' = "none" /\ warned' = FALSE /\ status' = 0

ObserverInit ==
    /\ Init
    /\ hcfg = None
    /\ hpc = "idle" /\ clock = 0 /\ probe = HC!NoProbe
    /\ primary = "none" /\ warned = FALSE /\ status = 0

\* Every start-up step but the last leaves the health endpoint unserved.
StartUp ==
    /\ \/ \E k \in DOMAIN EnvMappings : LoadEnvVar(k)
       \/ Unmarshal \/ Validate \/ NewProvider
    /\ UNCHANGED healthVars

\* NewLoggingService wires the health check to what start-up built.
Serve ==
    /\ NewLoggingService
    /\ \E osClient \in BOOLEAN :
         hcfg' = [useClickStack |-> storage # None,
                  dualProbe |-> sampler'.enabled /\ osClient,
                  osClient |-> osClient,
                  queryTimeout |-> cfg["clickstack.query.timeout"]]
    /\ UNCHANGED <<clock, hpc, probe, primary, warned, status>>

\* Step A of a health request, taken by the running process.
RunningStep(A) == pc = "running" /\ A /\ UNCHANGED configVars

\* A health request step of the running process.
HealthStep == RunningStep(HC!Next)

\* The process restarts; a request in flight is lost.
ObserverRestart ==
    /\ Restart
    /\ hcfg' = None /\ HealthIdle

ObserverNext == StartUp \/ Serve \/ HealthStep \/ ObserverRestart

(***************************************************************************)
(* Fairness.  Time passes, and a probe in flight returns its answer or     *)
(* its context's error at the deadline (ctx carries the 5 s timeout), so   *)
(* the steps of a started health check are weakly fair.  Health requests   *)
(* arrive, start-up runs and restarts happen at no guaranteed time: no     *)
(* fairness for them.                                                      *)
(***************************************************************************)
ObserverFairness ==
    /\ WF_allVars(RunningStep(HC!Tick))
    /\ WF_allVars(RunningStep(HC!HealthClickStack))
    /\ WF_allVars(RunningStep(HC!HealthShadow))
    /\ WF_allVars(RunningStep(HC!HealthOpenSearch))

ObserverSpec == ObserverInit /\ [][ObserverNext]_allVars /\ ObserverFairness

-----------------------------------------------------------------------------
\* The start-up state's and, once running, the health request's types.
ObserverTypeOK == TypeOK /\ (pc = "running" => HC!TypeOK)

\* Every health request the running process answers is answered within the
\* 5 s HealthCheck derives, whatever QueryTimeout start-up loaded.
HealthAnsweredInTime == pc = "running" => HC!AnsweredWithinHealthTimeout

\* The health verdict follows the backend start-up selected, never the
\* dual-read probe enabled by TELEMETRY_DUAL_READ.
HealthVerdictFollowsPrimary == pc = "running" => HC!VerdictFollowsPrimary

\* A health check that has started is answered, or dropped by a restart:
\* whatever the probes do (answer, fail or hang), their contexts end them,
\* so /health never hangs.
HealthRequestAnswered ==
    hpc \in {"clickstack", "shadow", "opensearch"} ~> hpc \in {"done", "idle"}

\* The ClickStack ping of a health check is bounded by a deadline that does
\* not depend on CLICKSTACK_QUERY_TIMEOUT (spec 4.2: "a lightweight
\* connectivity probe under a short timeout, independent of query timeouts").
PingIndependentOfQueryTimeout ==
    hpc = "clickstack" => probe.deadline = HealthTimeout
====
