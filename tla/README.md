# TLA+ models of the telemetry query gateway

These modules model the observer's telemetry query layer: its configuration
(`internal/observer/config/`), the dispatcher
(`internal/observer/service/service.go`), the ClickHouse SQL builder,
provider and TLS set-up (`internal/telemetry/clickstack/`), the HTTP handlers
(`internal/observer/handlers/`) and the HyperDX link signer
(`internal/observer/service/hyperdx.go`). Each module is written from the Go
source. The only exception is HyperDX's link verifier. It is not in this
repository, so it is modelled from `spec.md` §4.6.

## The system

| Part | Source | State and operations | Interactions |
|---|---|---|---|
| Dispatcher `LoggingService` | service.go | Backend chosen per instance (`useClickStack`); `Get*Logs`, `GetComponentTraces`, `HealthCheck`, `GenerateCostReportCSV`, `ExportLogsToCSV`, `GenerateHyperDXLink` | Calls the provider or the OpenSearch client, then on ClickStack success calls the sampler and makes a shadow OpenSearch read |
| Dual-read sampler `dualSampler` | service.go 586-618 | `enabled`, `rate`, a shared `math/rand` generator under `mu` | Called by every ClickStack request at once |
| SQL builder `QueryBuilder` | query_builder.go | Stateless; five query shapes plus the cost report | Called by the provider |
| Execution engine `Provider` | provider.go | `*sql.DB` pool; per-call `withQueryTimeout`; streams rows | ClickHouse driver |
| Normalizer | service.go 375-512 | Pure field copies | Dispatcher |
| Link signer `HyperDXSigner` | hyperdx.go | key, base URL, TTL | Clock; HyperDX verifies the links |
| Cost report | provider.go 281-343, service.go 164-201, handlers.go 457-515 | Month parsing, SQL aggregation, row arithmetic and CSV rendering | Dispatcher gate |
| HTTP handlers | handlers.go | Request binding, defaults, status codes | Call the dispatcher; the conversion helpers (service.go 622-741) turn requests into typed queries |
| Configuration | config.go | Defaults, environment overrides (a Go map of 14 variables), unmarshal, `validate` | Read once at start-up by `NewProvider`, `newDualSampler` and `newHyperDXSigner` |
| TLS | tls.go | `buildTLSConfig`: CA file, client key pair | Called by `NewProvider` when `secure` is set |

The code has these hard behaviours:
- Concurrent requests share the sampler's generator.
- The shadow read runs synchronously on the request path, and any error it returns must not reach the caller.
- Go map iteration order is random on every call, which affects the pod-label and API-version maps.
- Label keys are spliced into SQL text.
- A query deadline races the row stream.
- The signer's canonical string and the order of its `Set` calls matter.

## Modules

- **TelemetryResults** holds the values shared by the dispatcher and its abstract spec.
  - A backend answer is abstracted to `[total, len]` (TotalCount and page length), or an error.
  - `ClickStack` and `OpenSearch` name the backends.
- **QueryService** is the abstract service. It:
  - selects a backend once;
  - answers each request from that backend;
  - hands the caller exactly that answer;
  - refuses cost reports on OpenSearch;
  - answers every request (weak fairness).
- **LoggingService** models the dispatcher and the sampler for a set of concurrent `Requests`.
  - **Variables:**
    - `cfg`: the instance's configuration, chosen in `Init` from every combination. `validate` bounds the rate to [0, 1].
    - `rng`, `rngPos`: the generator's sequence and its position.
    - `lockHolder`: the sampler mutex.
    - Per request: `pc`, `op`, `via`, `primary`, `secondary`, `seen` (the generator state the request read), `warnings` (the log) and `response`.
  - **Actions by method:**
    - `Start` models the handler's call.
    - `QueryClickStack` / `QueryOpenSearch` model `get*FromClickStack` / `get*FromOpenSearch`.
    - `QueryOpenSearchNilClient` models a call with a nil client. A log scope first calls `GenerateIndices`, and that error is returned before the client is touched. Otherwise the nil `Search` panics.
    - `SkipDualRead` / `SampleAlways` / `Lock` / `Draw` / `Decide` model `shouldDualRead` and `shouldSample`. `rng.Float64()` is split into reading the state (`Draw`) and storing it (`Decide`), so the race the mutex prevents is visible.
    - `ShadowRead` models `maybeDualRead*` with `emitDualReadResult`, or the trace comparison.
    - `HealthClickStack`, `HealthShadow` and `HealthOpenSearch` model `HealthCheck`.
    - `CostReport` models `GenerateCostReportCSV`.
    - `Return` returns the method's result, and `Recycle` moves the handler goroutine to its next request.
  - **Refinement:** `QS == INSTANCE QueryService WITH ...` maps the backend to `useClickStack`, the answer to `primary` and the phase to `AbstractPc`.
  - **`ServingSpec`** starts from the configurations that have a client for the selected backend. The nil-client step (a `GenerateIndices` error or the panic) is never enabled there, so its next-state relation `ServingNext` leaves that step out. `Spec` keeps it, and the nil-client and trace-drift runs use `Spec`.
- **QueryBuilder** models the SQL builder. A statement is a sequence of tokens:
  - keywords;
  - placeholders tagged with the field their `?` stands for;
  - literals spelled byte by byte.

  Arguments are tagged with the field they come from. `SortedKeys` sorts the keys in each of the map's possible iteration orders (`RangeOrders`). `EscapeJSONPath` works on bytes. `ReadLiteral` is ClickHouse's lexer for a quoted literal. Each `Build*` action is one provider call into the builder with any input from small sets.
- **Provider** models `executeLogQuery` behind `Get*Logs`.
  - **The engine's answer:** the rows it sends, the windowed count, and whether the query is refused or the stream breaks.
  - **`Deadline`:** the query timeout or the caller's cancellation. It can fire at any step.
  - **`QueryContext`, `NextRow` (Scan, label decode, total_count), `EndRows` (rows.Err):** the code's steps. Once every row is read, a deadline can close the rows before the `Next()` that would see io.EOF, and `rows.Err()` then reports `ctx.Err()`. A deadline that comes after it is not reported. Both orders of that race are kept.
- **LinkSigner** models `Generate` and `sign`.
  - **Strings:** character sequences, so the canonical string is built the way the code concatenates it.
  - **HMAC:** an unforgeable value of the canonical string.
  - **`now`:** the Unix clock.
  - **`link`:** the last link returned.
  - **`Accepts`:** HyperDX's verification, modelled from the spec.

- **CostReport** models the cost export end to end.
  - `ExportCostReport` runs `parseMonthRange` on the month token as a character sequence (`time.Parse("2006-01")`, a blank token meaning the current month, `AddDate` rolling December over), then the backend gate and the builder's zero-time check.
  - `table` is the set of log records of `Logs` ingested so far, and `Ingest` adds one at any time, since the collector keeps writing while a report runs. `snapshot` is the table as the running query reads it.
  - `QueryContext` evaluates the builder's SQL over the table the way ClickHouse does: `coalesce`, inclusive `BETWEEN`, `GROUP BY`, `ORDER BY` by a byte collation. `JSONExtractString` of a missing key is `''`. The stream may break after any row.
  - `NextRow` is the row loop with `nullString` and the cost; `EndRows` is `rows.Err`; `Render` writes the header and the records.
- **HealthCheck** models `Health`, `LoggingService.HealthCheck` and `Provider.HealthCheck` with durations. `clock` counts seconds. A probe answers ok or with an error after a latency, or hangs, and its context ends it at its deadline. `Tick` never passes a pending answer or deadline. The ClickStack ping's deadline is `min(5, QueryTimeout)` (`withQueryTimeout` of the shared context), and the dual-read OpenSearch probe's deadline is what is left of the shared 5 s.
- **Handlers** models the ClickStack-mode request handlers: `GetComponentLogs`, `GetProjectLogs` and `GetOrganizationLogs` (one `PathHandler`, since the three share their control flow), the path and body checks, the defaults, `ExportLogsCSV`, `GetComponentTraces`, `GenerateHyperDXLink`, and the conversion helpers `buildBaseLogQuery`, `buildTimeRange`, `parseTimestamp` and the four `build*LogQuery` (`BuildLogQuery`, which adds the shape's identifier) (`Parsed`, from a time text to an instant, the zero instant or an error). The builder's check is `BuilderAccepts`. `GetComponentTraces`' validators are not in this repository and are a free choice.
- **Provider** also models `executeTraceQuery` (`NextSpan`), the same loop without labels.

- **Config** models the observer's start-up, in the order the code runs it.
  - `env` is the process environment, chosen in `Init` from `EnvValues` (a value per variable, or `Unset`). `pending` is the set of set variables that `Load`'s `range` over `envMappings` has not visited yet. `LoadEnvVar(k)` visits any of them, because Go map order is random. `overrides` is the map it builds.
  - `Unmarshal` merges the overrides over `Defaults` (or exits on a `Malformed` value), and `Validate` is `validate`. `Processed` is the post-processing of the hosts (`splitAndTrim`) and of the timeouts.
  - `NewProvider` builds the ClickHouse options, calls `buildTLSConfig` when `secure` is set, opens the pool and pings it. The CA file, the key pair and the ping are each an outcome chosen by `\E`. `storage` records hosts, TLS and `max_execution_time`.
  - `NewLoggingService` builds the sampler (`newDualSampler`) and the signer (`newHyperDXSigner`).
  - `Restart` is the fault model: the process restarts after running or after exiting on an error, with the same environment, and loads it again. `first` remembers the configuration of the first load.
- **Observer** composes Config with HealthCheck (`INSTANCE HealthCheck WITH cfg <- hcfg, pc <- hpc`). `Serve` is `NewLoggingService` wiring the health check to what start-up built: ClickStack iff a provider was built, dual probing iff the sampler is enabled and there is an OpenSearch client, and the loaded QueryTimeout. The `main` that would pass the OpenSearch client is not in this repository, so whether there is one is a free choice. `HealthStep` runs only once the process is running, and `ObserverRestart` drops any request in flight.
- **Api** composes Handlers with LinkSigner. `LinkRequest` is `GenerateHyperDXLink`. When the handler answers 200, it calls `Generate` at the current clock. `OtherRequest` covers every other endpoint.
- **Storage** composes Provider with CostReport on one ClickHouse. The log or trace queries and the cost export interleave step by step, and records are ingested during either one.

Each module defines, just before the code definition they change, operators marked "Mutant". Each one is a plausible bug in that code, used to show that a property detects it.

## Runs

| Run | Checks | Result |
|---|---|---|
| logging_service | Under `ServingSpec` (configurations that have a client for the selected backend): `TypeOK` (which also says the sampler mutex is held only between a request's draw and its deferred `Unlock`), `DistinctDraws` (two requests never read the same generator state), `ImplementsQueryService` (the refinement, liveness included) | pass, 396k states, about 90 s |
| logging_nil_client | `ImplementsQueryService` over every configuration | violation: a nil OpenSearch client panics (finding) |
| logging_trace_drift | `DriftWarnedIffDiffers`: spec 4.4 step 3 (a mismatch warning exactly when TotalCount or length differs) for every query | violation: a trace shadow with the same total but a different span count logs nothing (finding) |
| query_builder | `TypeOK` (the LIMIT argument in [1, maxLimit]), `PlaceholdersBindArgs`, `OrderIndependent`, `LimitResolved`, `LabelKeysStayQuoted` | pass, 3.7k states |
| query_builder_injection | `LabelKeysStayQuoted` with a key ending in `\` | violation: the key escapes its literal (finding) |
| api | `TypeOK`, `IssuedLinkVerifies` (for caller parameters without a `signature` key, which the bounds leave out: see below), `ValidityBoundedByTTL`, `TamperEvident` (every link the endpoint issues) | pass, 36k states, about 45 s |
| link_signer_tamper | `TamperEvident` with a value containing `\|` and `=` | violation (finding) |
| storage | `TypeOK`, `NoPartialResult`, `ErrorsHaveCause`, `CSVAccountsForEveryLog` (each log of the window that the query read is counted in the CSV exactly once), `WindowIsCalendarMonth` (every cost window runs from the first of a month to the first of the next calendar month, checked against a month index that shares nothing with `AddMonth`; the December token and a blank month on 31 December reach the year rollover) | pass, 124k states, about 5 s |
| storage_month_boundary | `CSVCountsHalfOpenWindow`: a report counts exactly the logs of [start, end) | violation: a log at 00:00:00 on the 1st counts in the month before (finding) |
| observer | `ObserverTypeOK`, `HostsUsable` (no blank or padded host reaches the driver), `SignerIffKeyConfigured`, `TLSAsConfigured` (the connection is secure exactly when `secure` is set, and custom roots are set exactly when a CA file is configured), `HealthAnsweredInTime`, `HealthVerdictFollowsPrimary`, and the temporal property `HealthRequestAnswered` (a started health check ends, unless a restart drops it), with restarts | pass, 325k states, about 25 s |
| observer_ping_timeout | `PingIndependentOfQueryTimeout` | violation: with QueryTimeout 2 s the ping's deadline is 2 s (finding) |
| config_port_alias | `LoadIsDeterministic`: a restart with the same environment loads the same configuration | violation: `PORT` and `SERVER_PORT` both map to `server.port`, and the map order decides which wins (finding) |

## Disagreements without a run

The modules model these behaviours faithfully, but no run checks them.
- **Caller `signature` parameter** (hyperdx.go): a caller's `signature` key goes into the signed string with the caller's value and is then overwritten by the signature, so the link does not verify. The signer's bounds leave that key out, so `IssuedLinkVerifies` claims nothing for it.
- **Duplicate cost groups** (provider.go 339): NULL and `''` identifiers group apart in SQL and then both become `unknown`, so the CSV can hold two rows for one key. No property checks this.
- **Validation errors answered 500** (handlers.go 174 and the other handlers): a builder ValidationError, such as a zero time range or a missing identifier, and an export without filters all get 500. Spec 7 says a validation error fails on the client side.
- **Lone client certificate** (tls.go 34): a certificate without its key (or a key without its certificate) is skipped silently and the connection uses no client certificate.

## Bounds

- **LoggingService:**
  - Two requests, because the sampler race and lock starvation need two.
  - Two log scopes plus traces, health and cost.
  - `MaxTotal = 1`. This makes results with equal totals but different lengths possible.
  - Rates 0, 1/2 and 1 (`RateScale = 2`).
  - A generator of period 2 with every sequence of values. Both a sampled and a skipped decision occur, and so does a draw two requests could share.
  - Backend names `"ClickStack"` (case-folded) and `"opensearch"`.
- **QueryBuilder:**
  - Three time ranges: a zero start, a non-UTC start, and start after end.
  - Limits -1, 0, 50 and 5000, with `MaxOpenConns = 30`, so the ceiling is 3000.
  - Empty and fully set base filters.
  - Two-key maps, so both iteration orders occur.
  - Label keys `app` and `o'k` (`k\` for the injection run).
- **Provider:** up to 2 rows, totals up to 3.
- **CostReport:** four logs: one in December 2024, one at 2025-01-01 00:00:00 (the month boundary) with org `''` and project NULL, one in January with org NULL and project `''`, and one in January for a second component. Each can be ingested before, during or after a report. `time.Now()` is in January 2025 or on 31 December 2024. The tokens `2024-12`, `2025-01`, empty, blank, `2025-13`, `2025-1` and `0001-01` cover every branch of `parseMonthRange` and the zero time.
- **HealthCheck:** the 5 s health timeout, QueryTimeout 0 (the 10 s default) and 2 s, and latencies 1 s and 3 s, so a ping can beat or lose against either deadline.
- **Observer:** `MC_Observer` gives each variable a small set of values, 1152 environments in all:
  - hosts unset, `" a, ,b"` (padding and an empty piece) or `", "` (nothing usable);
  - `secure` unset or true, a CA file or none, a client certificate with or without its key;
  - QueryTimeout unset, 0 and 2 s;
  - backend `opensearch` or `CLICKSTACK`, dual read off or on;
  - signing key and base URL each set or unset.

  The variables not listed are unset. Every branch of `splitAndTrim` and `buildTLSConfig` is reached, and so is a restart from each stage. Of `validate`, only the host check and the signing-key-without-base-URL check fail. The port, the sample rate and `HYPERDX_TTL` are never set, and no value is malformed. So the out-of-range and TTL checks of `validate`, the parse errors, and the TTL override of `newHyperDXSigner` are not reached.
- **Config (port alias):** `MC_Config` sets `PORT` = 8080 and `SERVER_PORT` = 9000 and nothing else. Two loads are enough to show the difference.
- **Handlers:** an RFC 3339 time, the zero time, a date-only text and nothing; ids `""` and `x`; sort orders none, `ASC` and `desc`; limits 0 and 50.
- **LinkSigner:** TTL 2, paths with and without the leading slash, and the caller keys `a` and `expires` (which covers the expires override). In the api run, values are `x` and `9` and the clock runs 0..2. In the tamper run, values with `|` and `=` are added.

## Fairness

- **LoggingService:** every backend call runs under a deadline: the provider's query timeout, the OpenSearch client timeout, and the 5 s health timeout. So each step of a started request gets weak fairness. `Lock` gets strong fairness, because `sync.Mutex` switches to starvation mode and hands the lock to a waiter that has been blocked for over 1 ms. `Start` and `Recycle` are the callers' choice and get no fairness.
- **Provider:** its steps are weakly fair, for the same deadline reason.
- **Observer:** once the process runs, `Tick` and the probe answers (`HealthClickStack`, `HealthShadow`, `HealthOpenSearch`) are weakly fair. Time passes, and each probe runs under a context whose deadline ends it. Health requests arrive, start-up runs and restarts happen at no guaranteed time, so they get no fairness. This is what `HealthRequestAnswered` needs.
- **Config, Api, Storage, CostReport, HealthCheck, Handlers:** no fairness. Their properties are safety properties; HealthCheck's deadline is modelled as time itself.

## Not modelled

- The OpenSearch-mode handler paths and the JSON and CSV encodings of responses (pure formatting). `ExportLogsToCSV`'s rendering of log entries is a field copy. Its limit is the builder's default: `LimitResolved` checks `resolveLimit`, and nothing says an export must be complete.
- `GetComponentTraces`' validators `validateTimes`, `validateSortOrder` and `validateLimit`: they are not in this repository.
- Float rounding of the cost figures.
- The result normalizers `convertLogResult`, `convertTraceResult`, `parseOpenSearchLogs` and `parseOpenSearchTraces`. They copy fields one record at a time, and the model's result is abstracted to TotalCount and length, which they preserve. How OpenSearch computes `Hits.Total.Value` (it may cap totals) lives in the OpenSearch client package, which is not in this repository.
- `ExportLogsToCSV`'s rendering: an empty result is an empty body, and the rest is CSV formatting of field copies.
- The process's `main`, which is not in this repository. Observer assumes it calls `config.Load`, `NewProvider` when the backend is ClickStack, and `NewLoggingService`, in that order. Whether it passes an OpenSearch client is a free choice.
- koanf's decoding of the `koanf` struct tags, and the pool settings and `compressionMethod` of `NewProvider`. Config treats the unmarshal as a flat merge of overrides over defaults. The pool settings and compression change no state a property reads. `max_execution_time` is recorded in `storage`, and no property relates it to the client deadline, because the client cancels the query either way.
- The contents of certificate files. Reading and parsing each file is an outcome (success or error), not bytes.

## Plan for later work

Compose Storage with LoggingService, so the dispatcher's `QueryOutcomes` are shown to be the results the provider can return. Give the health check's and the provider's durations one clock. 
