---------------------------- MODULE Configuration ----------------------------
(***************************************************************************)
(* RuntimeConfig::from_lookup (src/config.rs): what the process accepts of *)
(* its environment and what it makes of it.                                *)
(*                                                                         *)
(* An environment gives every variable a value [kind, n]: "absent",        *)
(* "notText" (not UTF-8), "empty", "bad" (text its parser refuses),        *)
(* "good", "number" (with its value n, at most U64: a larger one does not  *)
(* parse) or, for the administrator's token, "masterKey" (the text of      *)
(* GHE_MASTER_KEY).  Which error is reported first is left out.            *)
(***************************************************************************)
EXTENDS Integers

CONSTANTS
    U64,      \* largest u64
    I64,      \* largest i64, the range of time::Duration's seconds
    Day,      \* SECONDS_PER_DAY and MAX_REQUIRED_CHECK_TTL_SECONDS
    Caps,     \* largest body limit and step count
    Default   \* the values of the absent numeric variables

Required == {"GHE_DATABASE_PATH", "GHE_MASTER_KEY", "GHE_ADMIN_TOKEN"}

\* Variables read by optional_positive_usize and optional_positive_u64.
Numeric ==
    {"GHE_SHUTDOWN_TIMEOUT_SECONDS", "GHE_WEBHOOK_BODY_LIMIT_BYTES",
     "GHE_WORKFLOW_JOB_MAX_STEPS", "GHE_DELIVERY_RETENTION_DAYS",
     "GHE_MERGE_QUEUE_RETENTION_DAYS", "GHE_DELIVERY_PRUNE_INTERVAL_SECONDS",
     "GHE_REQUIRED_CHECK_TTL_SECONDS", "GHE_GITHUB_APP_ID",
     "GHE_GITHUB_APP_INSTALLATION_ID", "GHE_OTEL_QUEUE_CAPACITY",
     "GHE_OTEL_BATCH_SIZE", "GHE_OTEL_SHUTDOWN_TIMEOUT_SECONDS",
     "OTEL_EXPORTER_OTLP_TIMEOUT", "OTEL_EXPORTER_OTLP_TRACES_TIMEOUT",
     "OTEL_EXPORTER_OTLP_LOGS_TIMEOUT"}

Endpoints == {"OTEL_EXPORTER_OTLP_ENDPOINT", "OTEL_EXPORTER_OTLP_TRACES_ENDPOINT",
              "OTEL_EXPORTER_OTLP_LOGS_ENDPOINT"}
Headers == {"OTEL_EXPORTER_OTLP_HEADERS", "OTEL_EXPORTER_OTLP_TRACES_HEADERS",
            "OTEL_EXPORTER_OTLP_LOGS_HEADERS"}
Texts == {"GHE_BIND_ADDRESS", "GHE_GITHUB_APP_PRIVATE_KEY_PATH",
          "GHE_GITHUB_APP_PRIVATE_KEY", "GHE_GITHUB_API_BASE_URL", "RUST_LOG",
          "OTEL_SERVICE_NAME", "SENTRY_DSN", "OTEL_RESOURCE_ATTRIBUTES"}
Variables == Required \cup Numeric \cup Endpoints \cup Headers \cup Texts

\* Text whose parser takes the empty string: no header, no attribute, no filter.
MayBeEmpty == Headers \cup {"OTEL_RESOURCE_ATTRIBUTES", "RUST_LOG"}

ASSUME ConfigurationAssumption ==
    /\ U64 \in Nat /\ I64 \in 0 .. U64 /\ Day \in Nat \ {0} /\ Caps \in Nat
    /\ \A v \in Numeric : Default[v] \in 1 .. U64
    /\ Default["GHE_OTEL_BATCH_SIZE"] <= Default["GHE_OTEL_QUEUE_CAPACITY"]
    /\ Default["GHE_REQUIRED_CHECK_TTL_SECONDS"] <= Day

Given(env, v) == env[v].kind # "absent"

\* The largest number a variable may hold.
Cap(v) ==
    CASE v \in {"GHE_WEBHOOK_BODY_LIMIT_BYTES", "GHE_WORKFLOW_JOB_MAX_STEPS"} -> Caps
      [] v \in {"GHE_DELIVERY_RETENTION_DAYS", "GHE_MERGE_QUEUE_RETENTION_DAYS"} ->
             U64 \div Day
      [] v = "GHE_REQUIRED_CHECK_TTL_SECONDS" -> Day
      [] OTHER -> U64

Number(env, v) == IF Given(env, v) THEN env[v].n ELSE Default[v]

\* Mutant: zero is a number like any other.
PositiveOrZero(env, v) ==
    Given(env, v) => env[v].kind = "number" /\ env[v].n <= Cap(v)

Positive(env, v) ==
    Given(env, v) => env[v].kind = "number" /\ env[v].n \in 1 .. Cap(v)

\* A variable that is not a number: present when required, text, and parsed.
Wellformed(env, v) ==
    CASE env[v].kind = "absent" -> v \notin Required
      [] env[v].kind = "notText" -> v = "GHE_DATABASE_PATH"
      [] env[v].kind = "empty" -> v \in MayBeEmpty
      [] OTHER -> env[v].kind = "good"

\* GitHubAppConfig::from_lookup: all three parts or none; the mounted key
\* wins, and neither the key in the environment nor, without an App, the
\* base URL is then looked at.
HasKey(env) ==
    Given(env, "GHE_GITHUB_APP_PRIVATE_KEY_PATH") \/ Given(env, "GHE_GITHUB_APP_PRIVATE_KEY")
AppParts(env) ==
    {Given(env, "GHE_GITHUB_APP_ID"), Given(env, "GHE_GITHUB_APP_INSTALLATION_ID"), HasKey(env)}
App(env) == AppParts(env) = {TRUE}
AppAccepted(env) ==
    /\ AppParts(env) # {TRUE, FALSE}
    /\ IF Given(env, "GHE_GITHUB_APP_PRIVATE_KEY_PATH")
          THEN Wellformed(env, "GHE_GITHUB_APP_PRIVATE_KEY_PATH")
          ELSE Wellformed(env, "GHE_GITHUB_APP_PRIVATE_KEY")
    /\ App(env) => Wellformed(env, "GHE_GITHUB_API_BASE_URL")

\* The endpoint of a signal: its own, or the generic one with its path.
Source(env, own, generic) ==
    IF Given(env, own) THEN "own" ELSE IF Given(env, generic) THEN "generic" ELSE "none"
Endpoint(env, own) == Source(env, own, "OTEL_EXPORTER_OTLP_ENDPOINT")

\* "An explicitly empty signal value clears inherited generic headers; only
\* absence falls back" (config.rs:498).
SignalHeaders(env, own) ==
    LET source == Source(env, own, "OTEL_EXPORTER_OTLP_HEADERS")
        from == IF source = "own" THEN own ELSE "OTEL_EXPORTER_OTLP_HEADERS"
    IN  IF source # "none" /\ env[from].kind = "empty" THEN "none" ELSE source

TelemetryAccepted(env) ==
    /\ Number(env, "GHE_OTEL_BATCH_SIZE") <= Number(env, "GHE_OTEL_QUEUE_CAPACITY")
    /\ Given(env, "SENTRY_DSN") =>
           Endpoint(env, "OTEL_EXPORTER_OTLP_TRACES_ENDPOINT") # "none"

\* from_lookup answers Ok.
Accepted(env) ==
    /\ \A v \in Numeric : Positive(env, v)
    /\ \A v \in Required \cup Endpoints \cup Headers : Wellformed(env, v)
    /\ \A v \in {"GHE_BIND_ADDRESS", "RUST_LOG", "OTEL_SERVICE_NAME", "SENTRY_DSN",
                 "OTEL_RESOURCE_ATTRIBUTES"} : Wellformed(env, v)
    /\ AppAccepted(env)
    /\ TelemetryAccepted(env)

\* The exporter of a signal, when it has an endpoint.
Exporter(env, endpoint, headers) ==
    [endpoint |-> Endpoint(env, endpoint), headers |-> SignalHeaders(env, headers)]

\* What telemetry::init is given.
TelemetrySettings(env) ==
    [capacity |-> Number(env, "GHE_OTEL_QUEUE_CAPACITY"),
     batch |-> Number(env, "GHE_OTEL_BATCH_SIZE"),
     trace |-> Exporter(env, "OTEL_EXPORTER_OTLP_TRACES_ENDPOINT",
                             "OTEL_EXPORTER_OTLP_TRACES_HEADERS"),
     log |-> Exporter(env, "OTEL_EXPORTER_OTLP_LOGS_ENDPOINT",
                           "OTEL_EXPORTER_OTLP_LOGS_HEADERS"),
     sentry |-> Given(env, "SENTRY_DSN")]

\* What the rest of the process is built from.
Settings(env) ==
    [app |-> App(env),
     interval |-> Number(env, "GHE_DELIVERY_PRUNE_INTERVAL_SECONDS"),
     delivery |-> Number(env, "GHE_DELIVERY_RETENTION_DAYS") * Day,
     merge_queue |-> Number(env, "GHE_MERGE_QUEUE_RETENTION_DAYS") * Day,
     ttl |-> Number(env, "GHE_REQUIRED_CHECK_TTL_SECONDS")]

\* RetentionConfig::new: positive, and in the range of time::Duration.
RetentionAccepted(settings) ==
    /\ settings.interval > 0
    /\ settings.delivery \in 1 .. I64 /\ settings.merge_queue \in 1 .. I64

------------------------------------------------------------------------------
\* What the other parts of the process take for granted of a configuration:
\* a batch fits in its queue (AdmissionBoundary), a cached answer is not
\* pruned while it is still fresh (RequiredChecks), the error reporter has
\* the trace exporter it takes its timeout from (telemetry.rs:485),
\* and retention has something to wait for and something to keep.
Runnable(settings, telemetry) ==
    /\ telemetry.batch \in 1 .. telemetry.capacity
    /\ telemetry.sentry => telemetry.trace.endpoint # "none"
    /\ settings.ttl \in 1 .. settings.delivery
    /\ settings.interval > 0 /\ settings.merge_queue > 0

\* The retentions that no part of the process can use: from_lookup takes more
\* seconds than time::Duration holds.
Overlong(settings) == settings.delivery > I64 \/ settings.merge_queue > I64

\* Nothing an operator wrote is silently left out: credentials for the App
\* that are given are used, and headers of the generic collector are not sent
\* to a signal whose own headers were given.
Honoured(env, settings, telemetry) ==
    /\ settings.app <=>
          \/ Given(env, "GHE_GITHUB_APP_ID") \/ Given(env, "GHE_GITHUB_APP_INSTALLATION_ID")
          \/ Given(env, "GHE_GITHUB_APP_PRIVATE_KEY_PATH") \/ Given(env, "GHE_GITHUB_APP_PRIVATE_KEY")
    /\ Given(env, "OTEL_EXPORTER_OTLP_TRACES_HEADERS") => telemetry.trace.headers # "generic"
    /\ Given(env, "OTEL_EXPORTER_OTLP_LOGS_HEADERS") => telemetry.log.headers # "generic"
==============================================================================
