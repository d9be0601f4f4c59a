------------------------------ MODULE Lifecycle ------------------------------
(***************************************************************************)
(* The process from its environment to its exit code (src/main.rs,         *)
(* src/app.rs, src/lifecycle.rs, the shutdown of src/telemetry.rs): it     *)
(* loads its configuration, starts telemetry, storage and the listener,    *)
(* serves requests next to the background task -- the retention loop of    *)
(* Retention joined with the required-check refresher of RequiredChecks -- *)
(* until a signal or the end of the server, drains, shuts telemetry down   *)
(* under its own deadline, and exits.                                      *)
(*                                                                         *)
(* What handlers do is the subject of WebhookHandler: here a request is    *)
(* open or over, and writes rows while it is open.                         *)
(***************************************************************************)
EXTENDS Retention, Configuration

CONSTANTS
    Worlds,        \* what the process may find: its environment, the rows its
                   \* database holds, and the bound on the rows it will write
    MaxRequests    \* bound: requests open at once

ASSUME LifecycleAssumption ==
    /\ \A w \in Worlds : IsFiniteSet(w.rows)
    /\ MaxRequests \in Nat
    /\ None \notin {"Completed", "TimedOut", "Ok", "Err", "Success", "Failure"}

VARIABLES
    env,         \* the environment, until it is loaded
    settings,    \* the RuntimeConfig
    providers,   \* the providers the TelemetryRuntime holds
    stage,       \* how far main has come
    requests,    \* open requests
    refresher,   \* the required-check refresher
    server,      \* the server future: serving, drained or stopped by itself
    drained,     \* ShutdownOutcome
    faults,      \* history: what went wrong while main was waiting for it
    result,      \* what run_service answers
    threads,     \* the provider shutdown threads
    unread,      \* their results nobody has received yet
    reported,    \* history: how often each provider's shutdown was reported
    code         \* the process's exit code

serviceVars == <<env, settings, providers, stage, requests, refresher, server,
                 drained, faults, result>>
telemetryVars == <<threads, unread, reported, code>>
vars == <<retentionVars, serviceVars, telemetryVars>>

Providers == {"Trace", "Log", "Sentry"}
Startup == <<"Telemetry", "Database", "GitHub", "Gauge", "Retention", "Bind", "Serving">>
Stages == {Startup[i] : i \in 1 .. Len(Startup)} \cup
          {"Loading", "Joining", "Draining", "Closing", "Waiting", "Exited"}

\* The providers telemetry::init builds.
ProvidersOf(t) == {p \in Providers :
    \/ p = "Trace" /\ t.trace.endpoint # "none"
    \/ p = "Log" /\ t.log.endpoint # "none"
    \/ p = "Sentry" /\ t.sentry}

Init ==
    /\ \E w \in Worlds : InitRetention(w.rows, w.writes) /\ env = w.env
    /\ settings = None /\ providers = {}
    /\ stage = "Loading" /\ requests = 0 /\ refresher = "Unborn"
    /\ server = "Serving" /\ drained = None /\ faults = {} /\ result = None
    /\ threads = [p \in Providers |-> "Idle"] /\ unread = {}
    /\ reported = [p \in Providers |-> 0] /\ code = None

------------------------------------------------------------------------------
\* main, run and run_service up to the listener.

Load ==
    /\ stage = "Loading"
    /\ IF Accepted(env)
          THEN /\ settings' = Settings(env)
               /\ providers' = ProvidersOf(TelemetrySettings(env))
               /\ stage' = "Telemetry" /\ UNCHANGED code
          ELSE /\ stage' = "Exited" /\ code' = "Failure"
               /\ UNCHANGED <<settings, providers>>
    /\ env' = None
    /\ UNCHANGED <<retentionVars, requests, refresher, server, drained, faults, result,
                   threads, unread, reported>>

InitTelemetry(ok) ==
    /\ stage = "Telemetry"
    /\ IF ok THEN stage' = "Database" /\ UNCHANGED code
             ELSE stage' = "Exited" /\ code' = "Failure"
    /\ UNCHANGED <<retentionVars, env, settings, providers, requests, refresher, server,
                   drained, faults, result, threads, unread, reported>>

\* run_service answers r: telemetry is then shut down, whatever it says.
Answered(r) == result' = r /\ stage' = "Closing"

\* One fallible stage of run_service; the GitHub App client is built only
\* when an App is configured, RetentionConfig::new decides by itself.
StartupStep(i, ok) ==
    /\ stage = Startup[i] /\ i \in 2 .. 6
    /\ stage = "GitHub" /\ ~settings.app => ok
    /\ stage = "Retention" => ok = RetentionAccepted(settings)
    /\ IF ok THEN stage' = Startup[i + 1] /\ UNCHANGED result ELSE Answered("Err")
    /\ limits' = IF stage = "Retention" /\ ok
                 THEN [a \in Ages \cup {"interval"} |-> settings[a]] ELSE limits
    /\ settings' = IF stage = "Retention" THEN [app |-> settings.app] ELSE settings
    /\ faults' = IF ok THEN faults ELSE faults \cup {"startup"}
    /\ UNCHANGED <<now, cancelled, rows, writes, due, task, passVars, spent, env, providers,
                   requests, refresher, server, drained, telemetryVars>>

\* serve_router_with_background_shutdown spawns the joined background tasks;
\* a panic of one is the end of both.
SpawnBackground ==
    /\ stage = "Serving" /\ Spawn
    /\ refresher' = IF task' = "Panicked" THEN "Panicked"
                    ELSE IF settings.app THEN "Waiting" ELSE "Returned"
    /\ UNCHANGED <<env, settings, providers, stage, requests, server, drained, faults, result,
                   telemetryVars>>

------------------------------------------------------------------------------
\* The server, the handlers and the refresher.

Running == stage \notin {"Loading", "Exited"}

Accept ==
    /\ stage = "Serving" /\ task # "Unborn" /\ requests < MaxRequests
    /\ requests' = requests + 1
    /\ UNCHANGED <<retentionVars, env, settings, providers, stage, refresher, server, drained,
                   faults, result, telemetryVars>>

Finish ==
    /\ Running /\ requests > 0
    /\ requests' = requests - 1
    /\ UNCHANGED <<retentionVars, env, settings, providers, stage, refresher, server, drained,
                   faults, result, telemetryVars>>

\* The shutdown future resolves: cancellation, and the drain with its deadline.
ShutdownSignal ==
    /\ stage = "Serving" /\ task # "Unborn"
    /\ Signal /\ stage' = "Draining"
    /\ UNCHANGED <<env, settings, providers, requests, refresher, server, drained, faults,
                   result, telemetryVars>>

\* The server future ends by itself, with an error or not; connections it
\* has spawned may still be open.
ServerStops(ok) ==
    /\ stage = "Serving" /\ task # "Unborn"
    /\ Signal /\ stage' = "Joining" /\ server' = "Stopped"
    /\ faults' = IF ok THEN faults ELSE faults \cup {"server"}
    /\ UNCHANGED <<env, settings, providers, requests, refresher, drained, result, telemetryVars>>

\* The refresher waits for a request, biased towards cancellation, or is busy
\* with one: a cache read, an HTTP exchange, an upsert, each bounded.
RefresherMoves(to) ==
    /\ Running /\ refresher' = to
    /\ UNCHANGED <<retentionVars, env, settings, providers, stage, requests, server, drained,
                   faults, result, telemetryVars>>
RefresherTakes == refresher = "Waiting" /\ ~cancelled /\ RefresherMoves("Busy")
RefresherDone == refresher = "Busy" /\ RefresherMoves("Waiting")
\* Mutant: the refresher ends only when the last handle to its queue is gone.
RefresherStopsWithQueue ==
    refresher = "Waiting" /\ server # "Serving" /\ requests = 0 /\ RefresherMoves("Returned")
RefresherStops == refresher = "Waiting" /\ cancelled /\ RefresherMoves("Returned")

------------------------------------------------------------------------------
\* The end of serving.

Aborting == drained = "TimedOut"
BackgroundOver == /\ task \in {"Returned", "Panicked"}
                  /\ refresher \in {"Returned", "Panicked"}

\* prioritize_server_result: an error of the server or of the join.
Joined(fine) ==
    /\ faults' = IF task = "Panicked" THEN faults \cup {"background"} ELSE faults
    /\ IF fine /\ task # "Panicked"
          THEN drained' = "Completed" /\ Answered("Ok")
          ELSE Answered("Err") /\ UNCHANGED drained

\* The server has ended by itself: the background is joined without a limit.
Join ==
    /\ stage = "Joining" /\ BackgroundOver
    /\ Joined("server" \notin faults)
    /\ UNCHANGED <<retentionVars, env, settings, providers, requests, refresher, server,
                   telemetryVars>>

\* The graceful server future ends when no request is open.
ServerDrains(ok) ==
    /\ stage = "Draining" /\ server = "Serving" /\ requests = 0
    /\ server' = "Drained"
    /\ faults' = IF ok THEN faults ELSE faults \cup {"server"}
    /\ UNCHANGED <<retentionVars, env, settings, providers, stage, requests, refresher, drained,
                   result, telemetryVars>>

\* Mutant: the drain waits for the server alone.
DrainCompletesAlone ==
    /\ stage = "Draining" /\ server = "Drained"
    /\ Joined("server" \notin faults)
    /\ UNCHANGED <<retentionVars, env, settings, providers, requests, refresher, server,
                   telemetryVars>>

DrainCompletes ==
    /\ stage = "Draining" /\ server = "Drained" /\ BackgroundOver
    /\ Joined("server" \notin faults)
    /\ UNCHANGED <<retentionVars, env, settings, providers, requests, refresher, server,
                   telemetryVars>>

\* The deadline passes first: the server future is dropped, the background
\* task is told to abort, and serving ends well.
DrainTimesOut ==
    /\ stage = "Draining"
    /\ drained' = "TimedOut" /\ Answered("Ok")
    /\ UNCHANGED <<retentionVars, env, settings, providers, requests, refresher, server,
                   faults, telemetryVars>>

\* abort takes effect, at the awaits the joined tasks are in.
BackgroundAborts ==
    /\ Aborting /\ Running /\ ~BackgroundOver
    /\ Abort \/ (task = "Returned" /\ refresher # "Aborted" /\ UNCHANGED retentionVars)
    /\ refresher' = IF refresher = "Returned" THEN "Returned" ELSE "Aborted"
    /\ UNCHANGED <<env, settings, providers, stage, requests, server, drained, faults, result,
                   telemetryVars>>

------------------------------------------------------------------------------
\* TelemetryRuntime::shutdown on a blocking thread.

Report(S) == reported' = [p \in Providers |-> reported[p] + IF p \in S THEN 1 ELSE 0]

\* A thread per provider; one that cannot be spawned is reported at once.
CloseTelemetry(unspawned) ==
    /\ stage = "Closing" /\ unspawned \subseteq providers
    /\ stage' = "Waiting"
    /\ threads' = [p \in Providers |->
                      IF p \in unspawned THEN "Unspawned"
                      ELSE IF p \in providers THEN "Running" ELSE "Idle"]
    /\ Report(unspawned)
    /\ UNCHANGED <<retentionVars, env, settings, providers, requests, refresher, server,
                   drained, faults, result, unread, code>>

\* A provider's shutdown returns and its thread sends the result.  One that
\* hangs, or panics and only drops its sender, stays as it is.
ThreadEnds(p, how) ==
    /\ stage = "Waiting" /\ threads[p] = "Running"
    /\ threads' = [threads EXCEPT ![p] = how]
    /\ unread' = unread \cup {p}
    /\ UNCHANGED <<retentionVars, serviceVars, reported, code>>

Receive(p) ==
    /\ stage = "Waiting" /\ p \in unread
    /\ unread' = unread \ {p}
    /\ Report(IF threads[p] = "Failed" THEN {p} ELSE {})
    /\ UNCHANGED <<retentionVars, serviceVars, threads, code>>

\* The providers whose result has not been received.
Pending == unread \cup {p \in Providers : threads[p] = "Running"}

\* Mutant: a failed telemetry shutdown fails the process.
ExitOfTelemetry ==
    /\ stage = "Waiting"
    /\ Report(Pending)
    /\ stage' = "Exited"
    /\ code' = IF result = "Ok" /\ Pending = {} THEN "Success" ELSE "Failure"
    /\ UNCHANGED <<retentionVars, env, settings, providers, requests, refresher, server,
                   drained, faults, result, threads, unread>>

\* All results are in, or the deadline passes (which it also does at once
\* when its sum overflows), or every sender is gone: what is unfinished is
\* reported as timed out, and the process exits with the service's result.
Exit ==
    /\ stage = "Waiting"
    /\ Report(Pending)
    /\ stage' = "Exited"
    /\ code' = IF result = "Ok" THEN "Success" ELSE "Failure"
    /\ UNCHANGED <<retentionVars, env, settings, providers, requests, refresher, server,
                   drained, faults, result, threads, unread>>

------------------------------------------------------------------------------
RetentionRuns == Running /\ RetentionStep /\ UNCHANGED <<serviceVars, telemetryVars>>
WorldGoesOn ==
    /\ stage \in {"Serving", "Draining"} /\ task # "Unborn"
    /\ \/ Tick
       \/ /\ requests > 0
          /\ \/ \E s \in StoreNames, stamp \in 0 .. now : Insert(s, stamp)
             \/ \E r \in rows : Refresh(r)
    /\ UNCHANGED <<serviceVars, telemetryVars>>
Over == stage = "Exited" /\ UNCHANGED vars

Next ==
    \/ Load \/ \E ok \in BOOLEAN : InitTelemetry(ok)
    \/ \E i \in 2 .. 6, ok \in BOOLEAN : StartupStep(i, ok)
    \/ SpawnBackground \/ Accept \/ Finish
    \/ ShutdownSignal \/ \E ok \in BOOLEAN : ServerStops(ok)
    \/ RefresherTakes \/ RefresherDone \/ RefresherStops
    \/ Join \/ \E ok \in BOOLEAN : ServerDrains(ok)
    \/ DrainCompletes \/ DrainTimesOut \/ BackgroundAborts
    \/ \E S \in SUBSET Providers : CloseTelemetry(S)
    \/ \E p \in Providers, how \in {"Done", "Failed"} : ThreadEnds(p, how)
    \/ \E p \in Providers : Receive(p)
    \/ Exit
    \/ RetentionRuns \/ WorldGoesOn
    \/ Over

Spec == Init /\ [][Next]_vars

\* The executor runs every task that is ready, every call it awaits has a
\* time limit of its own (the pool's acquire timeout, the HTTP client's), and
\* deadlines pass.  Requests are not assumed to end, nor provider threads,
\* nor is a signal assumed to come.
Fairness ==
    /\ WF_vars(RetentionRuns)
    /\ WF_vars(RefresherDone) /\ WF_vars(RefresherStops)
    /\ WF_vars(Join) /\ WF_vars(DrainTimesOut)
    /\ WF_vars(CloseTelemetry({})) /\ WF_vars(Exit)
FairSpec == Spec /\ Fairness

------------------------------------------------------------------------------
TypeOK ==
    /\ RetentionTypeOK
    /\ stage \in Stages /\ requests \in 0 .. MaxRequests
    /\ refresher \in {"Unborn", "Waiting", "Busy", "Returned", "Aborted", "Panicked"}
    /\ server \in {"Serving", "Drained", "Stopped"}
    /\ drained \in {None, "Completed", "TimedOut"}
    /\ faults \subseteq {"startup", "server", "background"}
    /\ result \in {None, "Ok", "Err"} /\ code \in {None, "Success", "Failure"}
    /\ threads \in [Providers -> {"Idle", "Unspawned", "Running", "Done", "Failed"}]
    /\ unread \subseteq Providers /\ reported \in [Providers -> Nat]

\* A configuration that is accepted is one the rest of the process can run
\* on, and uses what the operator gave it (config.rs:334-584), but for two
\* values that loading does not check for what they are used for.  These fail
\* later, and no other value does: RetentionConfig::new refuses the startup
\* exactly for a retention out of time::Duration's range (retention.rs:66-71),
\* and the background task panics, when it is spawned and never after, exactly
\* with an interval the clock cannot be advanced by (retention.rs:88).
AcceptedIsRunnable ==
    [][/\ stage = "Loading" /\ stage' = "Telemetry" =>
              LET t == TelemetrySettings(env)
              IN  Runnable(settings', t) /\ Honoured(env, settings', t)
       /\ stage = "Retention" /\ stage' # stage => (stage' = "Closing" <=> Overlong(settings))
       /\ task = "Unborn" /\ task' # task => (task' = "Panicked" <=> limits.interval > Horizon)
       /\ task' = "Panicked" => task \in {"Unborn", "Panicked"}]_vars

\* Telemetry is shut down after the work that reports to it: unless the drain
\* ran out of time, no background task is left by then, and no request
\* unless the server stopped without being asked to (app.rs:403-427,
\* main.rs:43-51).
QuietBeforeTelemetry ==
    (stage \in {"Closing", "Waiting", "Exited"} /\ drained # "TimedOut") =>
        /\ task \in {"Unborn", "Returned", "Panicked"}
        /\ refresher \notin {"Waiting", "Busy"}
        /\ requests > 0 => server = "Stopped"

\* The exit code is the service's alone: failure exactly when startup, the
\* server or the background task failed in time to be waited for, whatever
\* telemetry's shutdown does, and each provider whose shutdown was not seen
\* to succeed is reported once, the others never (lifecycle.md:84-88,
\* telemetry.rs:302-380).
ExitTellsTheTruth ==
    (stage = "Exited" /\ result # None) =>
        /\ code = "Success" <=> (drained = "TimedOut" \/ faults = {})
        /\ \A p \in providers :
               reported[p] = IF threads[p] = "Done" /\ p \notin unread THEN 0 ELSE 1

\* Once shutdown has begun, by a signal or by the end of the server, the
\* process exits, although requests and provider shutdowns may hang
\* (app.rs:403, 418-427; telemetry.rs:337-358).
EveryPathEnds == cancelled ~> stage = "Exited"
==============================================================================
