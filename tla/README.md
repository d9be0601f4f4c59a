# A verification project for github_webhook_exporter

`github_webhook_exporter` receives GitHub webhooks for registered repositories,
claims each delivery in SQLite, turns the events into Prometheus metrics and
OpenTelemetry traces, and keeps a little derived state (workflow-run contexts,
job links, merge-queue attempts, required checks). This directory holds TLA+
models of it, TLC configurations that check them on small instances, and TLAPS
proofs of what matters most for every value of the constants. `PROJECT.json`
maps each definition to the lines it is translated from (`src/src/...` is the
program's source), and lists runs, mutants, findings, hazards and theorems.

Sections: [inventory](#inventory), [modules](#modules-and-how-they-correspond-to-the-code),
[runs](#runs-and-bounds), [fairness](#fairness), [proofs](#proofs),
[disagreements found](#disagreements-found), [not modelled](#what-is-not-modelled),
[plan](#plan).

## Inventory

| component | state | operations | interacts with | hard behaviour | correct when |
|---|---|---|---|---|---|
| webhook handler (`api/webhook.rs`) | one task per request, suspended at a store call | validate, authenticate, claim, dispatch by event, respond | every store, metrics, trace emitter | tasks interleave at every await; a task may be dropped there; a store may fail after an earlier one committed | a delivery has effects at most once per retention window; responses, counters and rows agree |
| delivery claims (`storage/delivery_store.rs`) | `processed_deliveries(delivery_id, received_at)` | `claim`, `prune_batch` | handler, retention | concurrent claims; pruning while a claimer runs | one `New` per identifier while its row lives, and the row lives for the retention period |
| merge-queue attempts (`api/pull_request.rs`, `storage/merge_queue_store.rs`) | `merge_queue_attempts`, one active row per pull request | `enqueue`, `complete`, `prune_completed_batch` | handler, retention, metrics | events out of order or lost; metric after the commit; truncated timestamps | an attempt opens and closes once, is counted at most once, with a genuine duration |
| run contexts and job links (`storage/workflow_run_store.rs`, `storage/workflow_job_link_store.rs`) | two cache tables keyed by run attempt | `upsert`, `get`, `record`, `list`, `prune_batch` | handler, retention | a job finishing after its run was summarised | a summary links only to emitted traces of its own attempt |
| required checks (`storage/required_check_store.rs`, `github/refresh.rs`, `github/client.rs`) | cache table, bounded queue of 64, one token | `get_fresh`, `upsert`, `request`, `refresh`, mint token | handler, GitHub, retention | full queue, GitHub failing, clock read before the calls | the handler never waits for GitHub; a burst costs one read |
| repository administration (`api/repositories.rs`, `storage/repository_store.rs`) | `repositories`, a gauge | create, update, delete, list | every table by `ON DELETE CASCADE` | identity used by suspended handlers; gauge updated after the commit | concurrent updates do not overwrite each other; gauge follows the table |
| telemetry admission boundary (`telemetry/queue.rs`) | `pending`, `dropped`, `closed`, `export_finalized` | `try_admit`, `release`, `begin_export`, `close`, `drop_pending` | SDK queue and worker, shutdown | lock-free admission against close, export and finalization | the SDK queue never overflows, no slot leaks, no record vanishes uncounted |
| telemetry runtime (`telemetry.rs`) | providers, the shutdown's outcome | start, flush, `shutdown` | both boundaries, Sentry | shared deadline over concurrent shutdowns | idempotent, bounded |
| retention (`retention.rs`) | none (cutoffs of a pass) | a pass over five stores in batches | stores, cancellation | cancelled between batches and stores | pass outcome reflects what happened; pending attempts stay |
| lifecycle and server (`app.rs`, `lifecycle.rs`, `main.rs`) | cancellation flag, drain deadline | serve, signal, drain, abort | all tasks | server ending by itself, deadline against drain | every path ends, background tasks before telemetry |
| metrics (`metrics.rs`) | in-memory counters | one per event | all | lost in a crash | never above what was committed |
| trace synthesis (`api/workflow_job.rs`, `api/workflow_run.rs`, `telemetry/workflow.rs`, `telemetry/pipeline.rs`) | none of its own; reads contexts, links and required checks | project a payload, emit a job trace, emit a pipeline trace | handler, stores, error tracker | missing, reversed and negative timestamps; two traces of one job, made at different times from different data | every failure is told once; the pipeline trace says what the job traces say |
| request observation (`app.rs`, `api/webhook.rs`, `telemetry/trace.rs`, `telemetry/workflow_error.rs`) | a cell in the request's extensions | observe, label, span | handler, metrics | three layers report on one request and share only its status and the cell | they tell one story, and nothing unauthenticated is told as authenticated |
| telemetry diagnostics (`telemetry/diagnostics.rs`, `telemetry/http_client.rs`) | one limiter per reason, failure counters | report a drop, classify a failed export | boundary, HTTP client, exporter | threads that race for one line; a failure seen at two places | each drop is in one line or count, each failure under one reason |
| configuration (`config.rs`) | none | accept or refuse an environment | every part at start-up | settings legal each by itself and not together | what is accepted runs, but for two values that fail where they are used, and nothing given is silently ignored |
| authentication and secrets (`security/`) | root key, administrator token | seal, open, authenticate | administration, handler | a row sealed by another key or for another name | only what was sealed here for that name opens |
| errors and health (`error.rs`, `health.rs`) | none | a status per error; one `SELECT` | handlers | none | bounded vocabulary |

Components interact by awaited store calls (each one a statement or transaction
on a pooled SQLite connection with a 5 s `busy_timeout`), by shared in-memory
counters, by a bounded channel to the refresher, by a watch channel for
cancellation, and by the callbacks of the OpenTelemetry SDK (`on_end`, `export`).

## Modules and how they correspond to the code

### `WebhookHandler`: the handler over its stores

One registered repository and a fixed set of deliveries; `EventOf` and
`SubjectOf` say what each delivery is about. A request `r` is a task: `pc[r]` is
the store call at which it is suspended and `answer[r]` what the call returned.

- *Store steps* (`ClaimDelivery`, `UpsertRun`, `ListLinks`, ...) are one
  statement or transaction each and commit in one step. `StoreFails` is the error answer
  of any of them.
- *Handler steps* (`Authenticated`, `Claimed`, `RunRead`, ...) run from an await
  to the next one or to the response, early returns and counters included. The
  metrics between two awaits move in one step: no other task can act on them in
  between in a way the properties tell apart. `observe_webhook_request` wraps
  the handler without an await of its own, so its counter is part of `Respond`.
- *Another method than POST* is answered 405 by the router's fallback, which
  `MethodRouter::layer` puts under the same middleware: `RespondNotAllowed` counts it as
  `unavailable`, and no failure stage with it (with debug assertions the middleware
  panics instead). So `Responses` has one more member than `Outcomes`, and `UnavailableIsAccounted` says that
  results and failure stages differ by those requests and by nothing else.
- *Surroundings*: `Drop` (the client leaves or the drain deadline passes while a
  task is suspended: a committed statement stays, the rest never happens), `Crash` (all
  tasks and counters go, rows stay), `PruneClaims` (a retention batch, any
  cutoff fixed at or before now), `Tick`.

Choices a reader should know. A delivery whose projection is malformed takes the
path of `"other"`. Signatures and projections are facts of the request, hence
nondeterministic. A job is reported by one delivery, so links are keyed by
the delivery. `Metrics` counts that no property compares, labels and histograms are
left out. Run contexts and links are never pruned here (their pruning is a
workload of `Retention`).

History variables (`wonAt`, `observed`, `jobTraces`, `pipeline`, `enqueuedBy`,
`completedBy`, `response`) record what happened and are read by properties only.

`DeliveryPromise` is the abstract specification: a request may be *granted* a
delivery only if every earlier grant of it is older than `Retention`, and only a
granted request *works*. The mapping takes grants from `wonAt` and work from the
history of effects (`Granted`, `Worked`); `KeepsPromise` says the handler implements it.

### `MergeQueue`: attempts, timestamps and outcomes

The handler module sees an attempt as a state; this one keeps its rows with
timestamps. An event is delivered at most once (what `WebhookHandler` shows),
at any time and in any order. `Receive` fixes the event timestamp (falling back
to the clock), `Enqueue` and `Complete` are the transactions, `Observe` and
`ReportMissing` the metrics after the commit, `Abandon` every way to stop short
of a step. A timestamp counts units of which a millisecond holds `Resolution`:
rows keep `Truncated` text, the completion in memory is exact, and that
asymmetry is why a duration can be off by less than a millisecond.

`AttemptPromise` is its abstract specification: one open attempt per pull
request, settled once, counted at most once and only when settled.

### `AdmissionBoundary`: the lock-free queue in front of the SDK

One action per atomic access of `try_admit`, `release` and `close`; the two
critical sections under `export_finalized` are one step each, and `drop_pending`
counts outside its section as the code does. The updates of `pending` are
AcqRel read-modify-writes of one location and `closed` is monotone, so
interleaving semantics is adequate: a stale read of `closed` is the interleaving
that reads earlier. A spurious failure of `compare_exchange_weak` changes
nothing and is no step. The SDK's channel, worker and stop are external, modelled from what
`span_processor` configures and its comment relies on. The log processor shares
the same code. The sequence of `TelemetryRuntime::shutdown` (close, stop the
provider, wait or give up, drop what is pending) is the second actor;
`ProviderReturns` is enabled at once, which covers a deadline of any length. A
shutdown thread that cannot be spawned looks like a provider that has returned at once.

### `RequiredChecks`: the cache, its refresher and the installation token

`WebhookHandler` reads the cache of required checks as a deployment without a
GitHub App does: it misses and asks nobody. This module models
`resolve_required_checks` with the App. A handler takes the clock (`Ask`), reads
(`Read`), and uses the answer or requests a refresh with `try_send` (`Resolve`).
The refresher is a task of its own: `stage` is the await at which it is, `started`
the clock it took when the refresh began and with which it judges both the
cache entry and the token, `since` the time at which its current await began.
`Take` is the body of `run`'s loop, `Stop` its cancelled branch, `Abort` the deadline of the drain;
`Crash` loses the queue and the token and keeps the rows.

What GitHub answers is abstracted to the time at which it was true, and every
`GitHubClientError` to one failure; a 404 is an answer. A token that GitHub
rejects is kept until it expires, as in the code. Time is explicit because the
properties are about it: `Timely` holds the clock back while an await is past its timeout or a
task has something to run. `StoreTimeout` stands for the pool's acquire timeout
(30 s by default) plus `busy_timeout` (5 s), `RequestTimeout` for the 10 s of the HTTP client,
`RenewalSkew` for 60 s. `ChecksAssumption` states the relations on which the
properties rest and the code's constants satisfy: a wait for the store and a call fit in the skew,
two calls fit in a token's lifetime (one hour at GitHub), and the time to live (at most
a day) does not exceed the retention period (at least a day). Wall clocks do not
go back.

### `WebhookObservation`: what a request leaves in metrics and traces

Extends `WebhookHandler`: each action is one of its actions with the metric labels and
the spans the same code writes (`ClaimedObserved`, `RespondObserved`, ...). The
router's check of the method (`Routed`) comes first, then the extractor's in the order of
`WebhookRequest::from_request` (`Extract`); a delivery is
a raw header and payload (`RawOf`) from which its path follows (`Kind`, an assumption ties it to
`EventOf`), and each error has its status. Labels and spans are history: `LayersAgree`
compares what `observe_http_request`, `observe_webhook_request` and `webhook_handler`
said of one request, and has one place where they contradict each other: a 405 is the service's failure
to the middleware and the client's to the HTTP span. `IdentityIsAuthenticated` says who was named in it.

### `WorkflowTraces`: job traces, links and pipeline traces

One delivery is one step here, because the interleavings of handlers are
`WebhookHandler`'s. What is modelled is the data: the projection of both
payloads with every refusal, the intervals and their fallbacks, the statuses, the
selection of the error that represents a job, the row in
`workflow_job_links`, and the pipeline trace that is read back from the rows. A text is a
model value, `Clean` what sanitising leaves of it; a moment is a pair of seconds and a part of one,
as far as 64 bits of nanoseconds go. An attempt whose digest is no valid
trace identifier is `Unaddressable`. There is one repository, so the attributes that name it, and the
delivery's identifier, are left out. The number of links is compared with its limit after rows
that cannot be decoded were dropped, and errors of a pipeline are reported whether or not the
job is required: both as in the code.

`FailuresAreToldOnce` admits two kinds of silent failures: of a job that is not
required (`Unprotected`: not listed, or after `MaxChecks` different names), of one that is listed but has
no place because names before it repeat (`CrowdedOut`, which a comment of the source excludes, see below),
and of no other. `ToldAlike` compares all that an error is reported with to the span it is reported at, the task and the
description included; the description of a job's error is the name of the span, not the span's description.

### `ExportDiagnostics`: what is told of drops and failed exports

Extends `AdmissionBoundary`: each action is one of its actions with what it reports. A
thread that has dropped a record walks through `claim_report` one atomic access at a time
(`LoadDeadline`, `ClaimReport`, `TakeSuppressed`), the closing thread reports its batch
the same way. `SendBytes` is the HTTP client under an export; `classified` is whether
`classified_failures` has moved since the export began. The reasons of a failure are
one, each signal has one limiter per reason of drops, lines are written in any order, and
spurious failures of the exchange are no steps, as in the boundary.

### `RepositoryAdmin` and `Credentials`: administration and what it accepts

`Credentials` holds the pure checks of `security/` and `domain/repository.rs`: a text is
its length, what it consists of and which model value it spells. Cryptography is ideal: a sealed secret opens with
its key and under its name only, a digest verifies under its secret only.

`RepositoryAdmin` is the five operations over the table next to webhook handlers that
authenticate against it and write rows that refer to it. A transaction reads
the snapshot of its first statement (`ReadRow`), and `stale` is the set of open snapshots
older than the last commit: such a transaction cannot write (`SQLITE_BUSY_SNAPSHOT`). From a
successful write to the commit it holds the write lock, so this is one step (`Update`,
`Delete` with its `Cascade`, `Create` with the lowest row number above all present ones,
which is how a number comes to be used again). `Finish` adjusts the gauge after the commit and answers
(`answer` is the kind of the request and its status; the bodies of the responses are not modelled);
`Disconnect` drops a request at any await, also between commit and gauge. `Restart`
counts the table anew. `intended`, `applied` and `unadjusted` are history: the rows as the
accepted requests ask, the requests whose write committed, and the adjustments lost
with dropped requests. The column `born` tells apart repositories that had one number, and `late`
marks a row whose handler was suspended while its repository was deleted and the number given away,
the one way to write under the wrong repository.

### `Configuration`, `Retention` and `Lifecycle`: the process

`Configuration` is `RuntimeConfig::from_lookup`: which variable may be absent, empty, not text or
out of range, which exclude or require each other, where a signal's endpoint and headers come
from, and the settings that result. `Runnable` lists what other parts take for granted of
them. Two values are accepted and fail later: a retention beyond what `time::Duration` holds (`Overlong`), which
`RetentionConfig::new` refuses at startup, and an interval by which the clock cannot be advanced (`Horizon`), with
which the retention task panics when it begins. `AcceptedIsRunnable` says that each fails there, exactly then, and
that nothing else does. (A retention that is in range and yet reaches back before the first date makes
each pass fail, which is `OutcomeIsTrue`'s question.) Which error comes first is left out.

`Retention` is `run_retention`: the ticker with `MissedTickBehavior::Skip`, the cutoffs fixed once per pass,
a store after the other, a batch as two steps (the statement is sent, its
result is seen), the look at the cancellation between both, and the algebra of
outcomes. Handlers write and refresh rows meanwhile. `owed` is the set of rows that had expired when the
pass began and are neither deleted nor refreshed.

`Lifecycle` extends both to the process from its environment to its exit code: the fallible
stages of start-up, requests that are open or over, the background task (retention
joined with the refresher), signal or end of the server, drain, deadline and
abort, and `TelemetryRuntime::shutdown` with a thread per provider and a deadline of its own.
An aborted task goes no further than its await, and a statement it has already sent may still be carried out.

### Model-checking modules

The `MC` modules only define the scenarios and the symmetry sets the configurations
name. `MCRepositoryAdmin` and `MCWorkflowTraces` also evaluate, as assumptions, the refusals and
the arithmetic of timestamps for inputs the runs do not need as behaviours.

## Runs and bounds

| run | what is asked | bounds |
|---|---|---|
| `delivery` | at most once, promise kept, durable acknowledgement | 3 requests, 2 deliveries (a completed run and a job), `Retention` 1, clock to 2, 1 crash, batches of 1 |
| `contention` | summaries, conservation, counters | 3 requests, 7 deliveries meeting on one run attempt and one pull request, 1 crash, `MaxJobs` 1 |
| `responses` | the layers agree, only what is authenticated is told, every request ends | 2 requests, 9 deliveries of every kind with unknown words and an unsigned name, every refusal and another method, tracing enabled, 1 crash |
| `unavailable_claim` | 503 means unclaimed (violated) | 2 requests |
| `attempts` | observations, promise, pruning | 6 events of two pull requests, `Resolution` 2, `MaxDuration` 3, `Retention` 1, clock to 5, 1 crash, batches of 1 |
| `authoritative_attempt` | the metric is authoritative (violated) | 4 events, clock fixed |
| `admission` | overflow, exact pending, drops against exports, nothing lost, every drop reported, every failure classified once, every record settles | 2 records, 1 slot, batches of at most 2, lines 2 apart, clock to 2 |
| `dropped_exact` | the dropped count is exact (violated) | 2 records, 1 slot |
| `required_checks` | recent answers, live token, one answer per window, pruning, nobody waits, queue drains | 3 jobs of 2 branches, a queue for 1 request, every wait 1, `TimeToLive` and `Retention` 1, tokens for 4 with skew 2, clock to 5, 1 crash |
| `service` | passes tell the truth, one batch after cancellation, one pass per interval, accepted configurations run or fail where they must, quiet before telemetry, exit code, every path ends | 508 empty databases, each with an environment of its own (a full or a bare one with one variable changed, or two that are read together) and two with rows, 2 workloads, batches of 1, clock from 2 to 4, 1 open request |
| `administration` | no lost update, success if and only if written, gauge, reused row numbers | 2 administration requests and 1 webhook request at a time, 4 in all, 2 row numbers, 2 valid names, gauge modulo 4, 3 databases (empty, one row, one row sealed by another key) |
| `traces` | every failure told once, pipeline mirrors jobs | up to 4 deliveries out of some 430 job payloads and 7 run payloads, 2 attempts of one run, every limit 2 |

Why these are enough to be interesting. Three requests allow an original, a redelivery
while the original is suspended, and a redelivery after its claim was pruned
(the clock passes `Retention`, which needs two ticks because the comparison with
the cutoff is strict). In `contention` the clock stands still: time matters to claims
only, and `delivery` covers that. With `MaxJobs` 0 in `delivery` one link is over the limit; in `contention`, where it is 1, the
one job fills it. Summaries at larger limits are the proof's (`SummariesLinkTraces`, for any number of jobs). In `attempts`, `MaxDuration` 3 lies below some durations of the
scenario and above others, updates are not all on millisecond boundaries, and e5
has no timestamp, so that the fallback clock decides its order. In `admission`
there are more threads than slots; a slot is refilled while a batch is in the worker's hands, and the
closing thread is a third one that drops records. With 3 records and 2 slots the same
model has 15 million states and shows nothing new; what is proved of the boundary
holds for every size. In `required_checks`
the queue is smaller than the number of branches, a token expires within the
run, and the clock passes the longest age of an answer (`TimeToLive` +
`RequestTimeout` + 2 `StoreTimeout` = 4), so that an answer could be too old.
In `service` the rows of one world outlast a batch, the other has a cutoff out of range, and the environments go through every
kind of value of every variable; numbers are 0, 1, 4 and 9, around `Day` = 2, `Caps` = 3, the
largest signed number 7 and the largest unsigned one 9. In `administration` a row number can be freed and given away
while a webhook request is suspended with it, two updates can read one snapshot, and the gauge can
wrap below zero. In `traces` the `Recurring` payloads are the ones that may come after another job's;
they share a run, exceed its limit of spans and repeat a job. `trunk` lists one name twice and so has no
room for the last, which the limit would leave if repetitions were dropped first (a required job that is
crowded out); `other` lists a name after two different ones (a job that is not required); of a third branch nothing is known.
`MaxTime`, `MaxCrashes` bound the clock and the crashes and occur only in the
guards of `Tick` and `Crash`.

Symmetry is used for requests and records in the safety runs, never with
liveness. Deadlock is checked everywhere: `Idle` stutters only when all actors
have ended and the clock is at its bound, so any other stuck state is an error.

Each property of a passing run has a mutant, a plausible bug defined beside the
action it changes, under which TLC finds the property violated. The type invariants
are proved (below) where a component has proofs, and the runs spend their
invariants on other questions.

## Fairness

`WebhookHandler!Fairness` is weak fairness of the store steps and handler steps
of each request. `busy_timeout` bounds how long a statement waits, so a call
always returns, if only with an error, and the tokio runtime polls every woken
task. Nothing obliges a client to send, the process to crash or a task to be dropped.

`RequiredChecks!FairSpec` assumes the same of its handlers and nothing of GitHub or the
refresher: `HandlersEnd` holds although the refresher may never run. Only
`QueueDrains` takes `RefresherFairness` as its premise: every await of the
refresher ends, at the latest by the client's timeout or SQLite's.

`AdmissionBoundary!Fairness` is weak fairness of a thread that is inside `on_end`
(the operating system schedules it), of the SDK's worker thread, and of the steps
of a shutdown that has begun; nobody is obliged to end a span or to begin the shutdown.
`FairnessTold` and `FairnessObserved` are the same of the actions with what they report.

`Lifecycle!Fairness` is weak fairness of the background tasks (the executor polls every
woken task, and each call they await has a time limit: the pool's acquire
timeout and `busy_timeout`, the HTTP client's), of `Join`, of both deadlines (timers fire) and of the exit.
Requests and provider threads get none: either may hang for ever, which is what
the deadlines are for, and `EveryPathEnds` holds all the same. Nor is a signal assumed to come.

## Proofs

The constants are arbitrary up to the named assumptions of the modules: types, at least
one slot, a batch of at least one, `None` different from data (in `NothingAssumption` and `TracesAssumption`,
from data of each kind that is compared with it), finite sets of requests
and records, the relations between timeouts named above, that cleaning a clean text changes
nothing, and for the configuration that the defaults are in range.
No bound on time, crashes or requests is used.

**`WebhookHandler_proofs`** proves `TypeCorrect`, `EffectsAtMostOncePerWindow`
and `HandlerKeepsPromise`. `AtMostOncePerWindow` speaks of effects long past
and is not inductive. The invariant adds `GateInv` (a request past its claim, or
with any effect, has won its claim), `WindowInv` (the row of a won delivery is still
there and at least as young as the win, or the win is older than the retention
period, which is what the strict comparison in `prune_batch_inner` provides) and
`SeparationInv` (two grants of one delivery are separated by more than
`Retention`). The refinement then maps `ClaimDelivery` to `Grant`, every step
with an effect to `Work`, and everything else to a stutter.

Its second part is about what the effects leave behind: `UnavailableAgrees`,
`AcceptedRunsAreStored`, `SummariesLinkTraces`, `AttemptsAreConserved` and
`OutcomesAreCommitted`. Counters are compared with cardinalities of sets of requests, so requests are finitely many: `Responded` and `StillAccounted` carry the difference between unavailable
results and failure stages, the 405s, through every step. `RunInv`
follows a counted run from its claim to its upsert, `LinkInv` the answer that a listing gave to
the traces behind it, `QueueInv` says that each request opens or closes an
attempt with the answer of its one store call, and `Past` is the set of requests that have gone past the
counting of what they closed, of which the counter is never more.

**`MergeQueue_proofs`** proves `TypeCorrect`, `MetricIsGenuine`,
`QueueKeepsPromise`, `PendingRowsStay` and `InTurnIsAuthoritative`, from the conjunction of `KindInv`
(a task is where the kind of its event
sends it), `RowInv` (a row is what its enqueue event made it, one row per attempt, one
pending row per pull request, pending until settled), `SettleInv` (a settled attempt
waits for its metric in one task at most, and that task knows the row it closed) and
`ObservationInv` (observations are genuine, and of attempts already counted).
`InTurnIsAuthoritative` adds `TurnInv`: a completion that committed while an earlier event
waited is out of turn (`OvertakenInv`), so while a row is pending and its pull request in turn, no committed
completion is later than the enqueue (`OpenInv`), and a later one would have closed the row. The
proof needs the attempt to carry GitHub's timestamp: the receipt time that
stands in for a missing one is in no order to GitHub's, so the property says so.

**`WebhookObservation_proofs`** proves that the handler with its labels, spans and cells implements the
bare handler (`ObservationIsTransparent`), so that the theorems above hold with them too, and
`IdentityIsAuthenticated` and `LayersAgree`. Labels and spans are written at one await and compared after later ones, so
`ObservationInv` tells the story of each request as far as it has come: `LabelsTell`, `SpansTell` and `UpdateTells` relate
what was said to the request, `AtAuthentication`, `AtProcessing` and `AtStore` say exactly what has been
said at the await where a request is (a 405 is at none: its story is complete at once), `Unanswered` that only the response says how it ended, and `Done` compares the layers
when it has.

**`RequiredChecks_proofs`** proves `TypeCorrect`, `EmittedAnswersAreRecent`,
`TokenOutlastsRead`, `AnswersReplacedWhenStale` and `PrunedRowsAreStale`. None of
these is inductive: each speaks of a clock read several awaits earlier. The invariant follows
the age of each clock: `CacheInv` (a row is stamped at most a request and a store wait after its answer
was true), `HandlerInv` (what a handler has found is at most a time to live and a
store wait old), `ClockInv` (how old `started` and `since` are at each await, and
that the token outlasts the read), and `StaleInv` (past its look at the cache, the refresher replaces
only a row that was stale when it looked; it is the only writer, and pruning only removes).

**`ExportDiagnostics_proofs`** has three parts. Of the bare boundary it proves `TypeCorrect`,
`SdkQueueNeverOverflows`, `PendingIsExact`, `CountedIsNotExported` and `ShutdownLosesNothing`. The key is
`SlotInv`: until the finalization `pending` is the number of slot holders, a thread
exchanges only a value below the capacity, and so the queue with everyone about to
send never exceeds the capacity; after it, `pending` is at most the number of threads
on their way out, and nobody new can be about to send. `PlaceInv` says each record is
in one place, `PhaseInv` ties the flags to the phase of the shutdown, and `SettledInv`
says a finished record is exported, counted, or holds a slot that `drop_pending` has
counted or will count, which ties `dropped` to the records behind it.

Of the boundary with its diagnostics it proves that it implements
the bare one (`DiagnosticsAreTransparent`: a step that is told of is a step of the
boundary or a stutter), so that all of the above holds in the run's specification too
(`NothingIsLostUntold` is one instance), and `FailuresAreClassifiedOnce`, from `FailureInv`:
while an export is under way, something was classified exactly when its request failed.

Its third part is `DropsAreReported`, for any number of threads that drop records at once. `Accounted` says that
the drops told of are the lines, what is suppressed, and what the lines say was omitted; `Spaced` that
the deadline is an interval past the time of every exchange that won it (by a thread that has written its line
or is about to), so those are an interval apart, and that a deadline was set by somebody once a drop was told of;
`TellersClaim` that a thread's copy of a deadline is never ahead of it. The omitted drops are a sum over a
finite set of threads. That one thread changes it by its own part is proved by a least counterexample among the finite set's
subsets, as the library's induction takes operators.

**`RepositoryAdmin_proofs`** proves `TypeCorrect`, `NoUpdateIsLost`, `RowNumbersInheritNothing` and
`GaugeFollowsTable`. `SnapInv` says that what a transaction has read is still the row
of the table unless it is `stale`, and a stale one cannot write, so an
update that writes every column from its earlier read takes nothing back. `AnswerInv`
puts the write before the answer and `Truthful` turns it into the answer's status: a write is answered with
success if and only if it has committed. The gauge wraps, so `Balanced` is an equation modulo its
width, preserved by a lemma about sums modulo a number for each request that commits,
adjusts or is dropped.

**`Lifecycle_proofs`** proves, for any stores, batch size and environments, `SuccessIsComplete`, `OutcomeTellsAll`, `CancelStopsPruning`,
`TicksAreSkipped`, `TelemetryOutlivesWork`, `ExitIsTruthful` and `AcceptedConfigurationsRun`.
`RetentionInv` follows the answers of a pass, the rows it still owes (which its next
statements would delete, so a batch that is not full settles its store) and the rows deleted since
the cancellation. `ProcessInv` says what can be running at each stage of `main`, from when the
service's answer is what it is, and what has been reported of each provider thread. `TickerInv`
keeps the ticker at a whole number of intervals from the start and after the pass that began last. `SettingsInv` keeps the accepted settings positive
as long as they are used, so that the range alone decides the two late failures.

**`WorkflowTraces_proofs`** proves `FailuresAreToldOnce` and `PipelineMirrorsJobs`, for any payloads, texts,
answers about protection and limits. `TracesInv` (TLC found it true in every state of the `traces` run) says that every emitted trace is the one that
a well-formed job makes (`EmissionsHold`), that the links are one row for each job, of a trace emitted
for it (`LinksHold`: without it nothing is known of what a run reads back, several deliveries later), and that each task of
a run mirrors such a trace (`PipelinesHold`; traces are only appended, so what mirrors one goes on to). Underneath are lemmas on the
definitions. `Enumeration` says that the elements of a finite ordered set, taken by their number of predecessors,
come once each. It stands for the loops over steps and jobs and for `ORDER BY`, which would otherwise
be recursion. `ChecksAreFirstNames` says which names are known to be required: the first usable ones, up to
the limit. `TooLateIsUnprotected` and `SuppressedIsTooLate` turn the places of names into the cases of the property: a job the code takes for
not required is `Unprotected` or `CrowdedOut`. `JobTraceTells` and `PipelineTells` say that an error is reported as its span shows it, once for each failing task, and
`BoundsExist` that a run's interval and conclusion are those of its jobs.

Only model-checked, because liveness is beyond the prover: `EveryRequestEnds`, `EveryRecordSettles`,
`HandlersEnd`, `QueueDrains` and `EveryPathEnds`.

## Disagreements found

1. `unavailable_claim`: `http-api.md` lists authentication data and the claim as
   the causes of 503. The upsert of a run context and the read of one also
   answer 503, *after* the claim committed, so a redelivery is a
   duplicate and the work is lost.
2. `dropped_exact`: `dropped_trace_records` is documented as exact. A thread
   that has exchanged but not yet looked at `closed` again is counted by
   `drop_pending` through its slot and then by its own `record_drop`.
   `NothingIsLost` shows the error is one-sided: never an undercount.
3. `authoritative_attempt`: `design-decisions.md` calls the pull-request metric
   authoritative for a specific attempt. A completion joins the active row
   whatever the timestamps say, so a late delivery pairs events of different
   attempts. `OrderedIsAuthoritative` states the condition under which the
   claim holds.

Noticed in the source while modelling, stated in properties that hold, and not the subject of a run of their own:

- `lifecycle.md:10-16` names a forced exit as what can leave the gauge stale. A request dropped
  between its commit and the adjustment does so too (`unadjusted` in `GaugeConserved`).
- A handler suspended while its repository is deleted, and its number given to a new one, writes
  its row under the new one (`late` in `NothingInherited`).
- `telemetry/workflow.rs:542-544` says that "a response repeating one name cannot crowd out the others". Both callers
  (`github/client.rs:310-322` and the decoding in `required_check_store.rs`) apply
  `.take(MAX_REQUIRED_CHECK_COUNT)` before the set is built, so it can, and the failure of a required job is then
  not reported. `FailuresAreToldOnce` admits exactly these silent failures under a name of their own, `CrowdedOut`, and the
  `traces` run reaches them.
- `book/src/reference/traces.md:118-119` gives an error the same description as its span. The error of a job is described
  by the span's name (`telemetry/workflow_error.rs:209`), the span by the job's name alone
  (`telemetry/workflow.rs:911-915`). `ToldAlike` states the difference, for jobs only.
- `api/webhook.rs:113` puts the name an unauthenticated payload claims on the authentication span, while
  `docs/superpowers/specs/2026-08-10-repository-scoped-observability-design.md:22-23` and `:72` allow a name only after
  authentication. `IdentityIsAuthenticated` exempts that one span.
- A 405 on `/webhooks/github` passes through `observe_webhook_request` and counts as `unavailable` without a
  failure stage (`api/webhook.rs:41-51`, `:594-617`, whose `debug_assert!` says that such a status does not occur), while its HTTP
  span tells a client's error. `UnavailableIsAccounted` and `LayersAgree` state it as the one difference.
- `config.rs` accepts retentions that `RetentionConfig::new` refuses (`retention.rs:39-72`) and an interval that panics at the
  first tick's instant (`retention.rs:88`). `AcceptedIsRunnable` states both, exactly.

## What is not modelled

- Payload parsing below the fields that are read, text sanitising, histograms' buckets, the exposition text,
  JSON bodies of errors, log wording: data and layout that no property distinguishes.
- Cryptography: sealing, digests and constant-time comparison are ideal.
- The OpenTelemetry and Sentry SDKs beyond the queue, the worker and the
  shutdown they are used through; samplers, resources and the log bridge in `telemetry.rs`; the wire format and limits of
  the HTTP client; attributes of spans that no property reads.
- `health.rs`: one `SELECT` and two constant answers, no state and nothing shared.
- Helm charts, dashboards, scripts, and the vendored and generated files.
- SQLite itself: statements and transactions are atomic, commits durable. A process crash loses nothing committed.

## Plan

Done: `DeliveryPromise` and `WebhookHandler` (the core), `MergeQueue` under `AttemptPromise`,
`AdmissionBoundary`, `RequiredChecks`, `Configuration`, `Retention` and `Lifecycle`,
`Credentials` and `RepositoryAdmin`, `WorkflowTraces`, `WebhookObservation`, `ExportDiagnostics`, and the
proofs of them (`Configuration`, `Retention` and `Credentials` through the modules that extend them).

What could still be added:

1. `RequiredChecks` with the errors of the client told apart, as their reasons are counted.
2. The log processor beside the span processor, under one shutdown deadline, in one instance of
   `ExportDiagnostics` each.
