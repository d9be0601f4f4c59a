----------------------------- MODULE MCLifecycle -----------------------------
(***************************************************************************)
(* Instances of Lifecycle: a full and a bare environment, and every        *)
(* environment that differs from one of them in one variable, or from the  *)
(* full one in two variables that are read together.                       *)
(***************************************************************************)
EXTENDS Lifecycle

\* Two workloads, one for each of the two retention settings.
MCStores == <<"delivery", "merge_queue">>
MCAge == [s \in {"delivery", "merge_queue"} |-> s]

\* Without a prune interval of its own a process here ends before its first pass.
MCDefault ==
    [v \in Numeric |-> CASE v = "GHE_OTEL_QUEUE_CAPACITY" -> 2
                         [] v = "GHE_DELIVERY_PRUNE_INTERVAL_SECONDS" -> 4
                         [] OTHER -> 1]

Value(kind, n) == [kind |-> kind, n |-> n]
Absent == Value("absent", 0)
Values(v) ==
    {Absent, Value("notText", 0), Value("empty", 0), Value("bad", 0)} \cup
    IF v \in Numeric THEN {Value("number", n) : n \in {0, 1, 4, 9}}
    ELSE {Value("good", 0)} \cup
         IF v = "GHE_ADMIN_TOKEN" THEN {Value("masterKey", 0)} ELSE {}

Bare == [v \in Variables |-> IF v \in Required THEN Value("good", 0) ELSE Absent]
Full ==
    [Bare EXCEPT !["GHE_GITHUB_APP_ID"] = Value("number", 1),
                 !["GHE_GITHUB_APP_INSTALLATION_ID"] = Value("number", 2),
                 !["GHE_GITHUB_APP_PRIVATE_KEY"] = Value("good", 0),
                 !["OTEL_EXPORTER_OTLP_ENDPOINT"] = Value("good", 0),
                 !["OTEL_EXPORTER_OTLP_HEADERS"] = Value("good", 0),
                 !["SENTRY_DSN"] = Value("good", 0)]

Together ==
    {{"GHE_OTEL_QUEUE_CAPACITY", "GHE_OTEL_BATCH_SIZE"},
     {"GHE_GITHUB_APP_PRIVATE_KEY_PATH", "GHE_GITHUB_APP_PRIVATE_KEY"},
     {"GHE_GITHUB_APP_ID", "GHE_GITHUB_APP_PRIVATE_KEY"},
     {"OTEL_EXPORTER_OTLP_ENDPOINT", "OTEL_EXPORTER_OTLP_TRACES_ENDPOINT"},
     {"OTEL_EXPORTER_OTLP_ENDPOINT", "SENTRY_DSN"},
     {"OTEL_EXPORTER_OTLP_HEADERS", "OTEL_EXPORTER_OTLP_TRACES_HEADERS"},
     {"OTEL_EXPORTER_OTLP_HEADERS", "OTEL_EXPORTER_OTLP_LOGS_HEADERS"}}

MCEnvironments ==
    UNION {{[base EXCEPT ![v] = x] : x \in Values(v)} : base \in {Bare, Full}, v \in Variables}
    \cup UNION {{[Full EXCEPT ![v] = x, ![w] = y] : x \in Values(v), y \in Values(w)} :
                    <<v, w>> \in {p \in Variables \X Variables : {p[1], p[2]} \in Together}}

\* Databases as an earlier process may have left them.
Row(s, stamp, id) == [store |-> s, stamp |-> stamp, id |-> id]
Backlog == {Row("delivery", 0, 2), Row("delivery", 1, 3)}
Mixed == {Row("delivery", 0, 2), Row("merge_queue", 0, 3)}

\* Two processes that prune every tick: one with a backlog longer than a
\* batch, one whose merge-queue cutoff is out of range.
Often == [Bare EXCEPT !["GHE_DELIVERY_PRUNE_INTERVAL_SECONDS"] = Value("number", 1)]
Endless == [Often EXCEPT !["GHE_MERGE_QUEUE_RETENTION_DAYS"] = Value("number", 3)]

World(e, kept, bound) == [env |-> e, rows |-> kept, writes |-> bound]
MCWorlds ==
    {World(e, {}, 0) : e \in MCEnvironments}
    \cup {World(Often, Backlog, 1), World(Endless, Mixed, 1)}
==============================================================================
