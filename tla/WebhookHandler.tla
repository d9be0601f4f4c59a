--------------------------- MODULE WebhookHandler ---------------------------
(***************************************************************************)
(* The webhook handler of src/src/api/webhook.rs over the SQLite stores it *)
(* calls, for one registered repository.  Each request is a task that      *)
(* suspends at every store call: a store step commits on the connection's  *)
(* worker thread, a handler step resumes the task with the answer and runs *)
(* to the next await or to the response.  A task can be dropped at any     *)
(* await (the client went away, the shutdown deadline expired) and the     *)
(* process can die; a statement that has committed stays committed.        *)
(*                                                                         *)
(* The deployment modelled has no GitHub App, so a completed job reads the *)
(* required-check cache and never queues a refresh.                        *)
(***************************************************************************)
EXTENDS Integers, FiniteSets

CONSTANTS
  Requests,        \* HTTP requests, each one used once
  Deliveries,      \* X-GitHub-Delivery identifiers
  Subjects,        \* workflow-run attempts and pull requests
  EventOf,         \* EventOf[d]: the normalised event and action of d
  SubjectOf,       \* SubjectOf[d]: the run attempt or pull request of d
  TracingEnabled,  \* workflow_trace_emitter().is_enabled()
  MaxJobs,         \* MAX_PIPELINE_JOB_SPANS
  Retention,       \* ticks before a delivery claim may be pruned
  PruneBatch,      \* DELIVERY_PRUNE_BATCH_SIZE
  MaxTime,         \* bound on the clock
  MaxCrashes,      \* bound on the number of process crashes
  None             \* no value

\* A delivery whose specialised projection is absent or malformed (no run
\* context, no inspectable job, an invalid pull-request number) takes the
\* path of "other": it is claimed and counted, and nothing else happens.
Events == {"run_requested", "run_completed", "job_completed", "job_oversized",
           "pr_enqueued", "pr_dequeued", "pr_merged", "merge_group", "other"}

RunEvents == {"run_requested", "run_completed"}
CompletionEvents == {"pr_dequeued", "pr_merged"}

StoreCalls == {"authenticate", "claim", "upsert_run", "list_links", "get_run",
               "get_checks", "record_link", "enqueue", "complete"}
Answers == {"ok", "error", "unauthorized", "new", "duplicate", "found", "missing",
            "listed", "created", "already_active", "completed", "already_completed"}
Outcomes == {"accepted", "malformed", "unauthorized", "unavailable"}
Responses == Outcomes \union {"not_allowed"}

ASSUME ConstantsAssumption ==
  /\ IsFiniteSet(Requests)
  /\ EventOf \in [Deliveries -> Events]
  /\ SubjectOf \in [Deliveries -> Subjects]
  /\ TracingEnabled \in BOOLEAN
  /\ MaxJobs \in Nat /\ Retention \in Nat /\ PruneBatch \in Nat \ {0}
  /\ MaxTime \in Nat /\ MaxCrashes \in Nat
  /\ None \notin Nat /\ None \notin Deliveries
  /\ None \notin Answers /\ None \notin Responses
  /\ None \notin [delivery : Deliveries, at : Nat]

VARIABLES
  \* SQLite
  claimedAt,   \* claimedAt[d]: processed_deliveries.received_at, None if absent
  runs,        \* the run attempts with a workflow_run_contexts row
  links,       \* the job deliveries with a workflow_job_links row
  attempts,    \* attempts[s]: the states of the merge_queue_attempts rows of s
  \* the process
  pc,          \* pc[r]: the await at which the task of r is suspended
  answer,      \* answer[r]: what the awaited store call returned, None before
  listed,      \* listed[r]: the linked jobs the awaited query returned
  delivery,    \* delivery[r]: the identifier r carries
  metrics,     \* the in-memory Prometheus counters
  now,         \* the wall clock
  crashes,     \* the number of crashes so far
  \* history
  response,    \* response[r]: how r was answered, None if it was not
  wonAt,       \* wonAt[r]: when the claim of r answered New, None if it did not
  observed,    \* the requests whose event was counted
  jobTraces,   \* the requests that emitted a workflow-job trace
  pipeline,    \* pipeline[r]: the jobs summarised by the trace r emitted
  enqueuedBy,  \* the requests whose enqueue created an attempt
  completedBy  \* the requests whose completion closed an attempt

durable == <<claimedAt, runs, links, attempts>>
traces  == <<jobTraces, pipeline>>
history == <<response, wonAt, observed, jobTraces, pipeline, enqueuedBy, completedBy>>
vars == <<durable, pc, answer, listed, delivery, metrics, now, crashes, history>>

FailureStages == {"authentication", "delivery_claim", "database", "queue_state",
                  "workflow_link"}
Counters == Outcomes \union FailureStages \union
            {"events", "duplicates", "job_steps", "too_many_steps", "too_many_jobs",
             "merge_group_events", "queue_outcomes", "queue_transition_failures"}

Init ==
  /\ claimedAt = [d \in Deliveries |-> None]
  /\ runs = {}
  /\ links = {}
  /\ attempts = [s \in Subjects |-> {}]
  /\ pc = [r \in Requests |-> "unsent"]
  /\ answer = [r \in Requests |-> None]
  /\ listed = [r \in Requests |-> {}]
  /\ delivery = [r \in Requests |-> None]
  /\ metrics = [c \in Counters |-> 0]
  /\ now = 0
  /\ crashes = 0
  /\ response = [r \in Requests |-> None]
  /\ wonAt = [r \in Requests |-> None]
  /\ observed = {}
  /\ jobTraces = {}
  /\ pipeline = [r \in Requests |-> {}]
  /\ enqueuedBy = {}
  /\ completedBy = {}

InFlight(r) == pc[r] \in StoreCalls
Waiting(r, call) == pc[r] = call /\ answer[r] = None
Answered(r, call) == pc[r] = call /\ answer[r] # None
Event(r) == EventOf[delivery[r]]
Subject(r) == SubjectOf[delivery[r]]

-----------------------------------------------------------------------------
(* The stores: one step per statement or transaction.                      *)

Answer(r, a) ==
  /\ answer' = [answer EXCEPT ![r] = a]
  /\ UNCHANGED <<pc, delivery, metrics, now, crashes, response, observed, traces>>

\* WebhookAuthenticator::authenticate: reads the repository row and checks the
\* signature.  Whether it matches is a fact of the request.
Authenticate(r) ==
  /\ Waiting(r, "authenticate")
  /\ \E a \in {"ok", "unauthorized"} : Answer(r, a)
  /\ UNCHANGED <<durable, listed, wonAt, enqueuedBy, completedBy>>

\* Mutant: ON CONFLICT DO UPDATE, which always affects a row.
ClaimDeliveryOverwrites(r) ==
  /\ Waiting(r, "claim")
  /\ claimedAt' = [claimedAt EXCEPT ![delivery[r]] = now]
  /\ wonAt' = [wonAt EXCEPT ![r] = now]
  /\ Answer(r, "new")
  /\ UNCHANGED <<runs, links, attempts, listed, enqueuedBy, completedBy>>

\* INSERT ... ON CONFLICT(delivery_id) DO NOTHING, stamped with the time of the
\* statement; rows_affected tells New from Duplicate.
ClaimDelivery(r) ==
  /\ Waiting(r, "claim")
  /\ IF claimedAt[delivery[r]] = None
       THEN /\ claimedAt' = [claimedAt EXCEPT ![delivery[r]] = now]
            /\ wonAt' = [wonAt EXCEPT ![r] = now]
            /\ Answer(r, "new")
       ELSE /\ UNCHANGED <<claimedAt, wonAt>>
            /\ Answer(r, "duplicate")
  /\ UNCHANGED <<runs, links, attempts, listed, enqueuedBy, completedBy>>

UpsertRun(r) ==
  /\ Waiting(r, "upsert_run")
  /\ runs' = runs \union {Subject(r)}
  /\ Answer(r, "ok")
  /\ UNCHANGED <<claimedAt, links, attempts, listed, wonAt, enqueuedBy, completedBy>>

GetRun(r) ==
  /\ Waiting(r, "get_run")
  /\ Answer(r, IF Subject(r) \in runs THEN "found" ELSE "missing")
  /\ UNCHANGED <<durable, listed, wonAt, enqueuedBy, completedBy>>

\* Mutant: the WHERE clause forgets the run attempt.
ListLinksOfAnyRun(r) ==
  /\ Waiting(r, "list_links")
  /\ \E page \in SUBSET links :
       /\ page = links \/ Cardinality(page) = MaxJobs + 1
       /\ listed' = [listed EXCEPT ![r] = page]
  /\ Answer(r, "listed")
  /\ UNCHANGED <<durable, wonAt, enqueuedBy, completedBy>>

\* SELECT ... ORDER BY started_at_nanos, job_id LIMIT MaxJobs + 1: start times
\* are not modelled, so an over-full attempt answers any set of that size.
ListLinks(r) ==
  /\ Waiting(r, "list_links")
  /\ LET rows == {j \in links : SubjectOf[j] = Subject(r)}
     IN  \E page \in SUBSET rows :
           /\ \/ page = rows /\ Cardinality(rows) <= MaxJobs + 1
              \/ Cardinality(page) = MaxJobs + 1
           /\ listed' = [listed EXCEPT ![r] = page]
  /\ Answer(r, "listed")
  /\ UNCHANGED <<durable, wonAt, enqueuedBy, completedBy>>

\* Without a GitHub App nothing fills the cache.
GetChecks(r) ==
  /\ Waiting(r, "get_checks")
  /\ Answer(r, "missing")
  /\ UNCHANGED <<durable, listed, wonAt, enqueuedBy, completedBy>>

RecordLink(r) ==
  /\ Waiting(r, "record_link")
  /\ links' = links \union {delivery[r]}
  /\ Answer(r, "ok")
  /\ UNCHANGED <<claimedAt, runs, attempts, listed, wonAt, enqueuedBy, completedBy>>

\* Mutant: no unique index on active attempts.
EnqueueUnguarded(r) ==
  /\ Waiting(r, "enqueue")
  /\ attempts' = [attempts EXCEPT ![Subject(r)] = @ \union {"pending"}]
  /\ enqueuedBy' = enqueuedBy \union {r}
  /\ Answer(r, "created")
  /\ UNCHANGED <<claimedAt, runs, links, listed, wonAt, completedBy>>

\* The insert conflicts with the partial unique index on active attempts.
Enqueue(r) ==
  /\ Waiting(r, "enqueue")
  /\ IF "pending" \in attempts[Subject(r)]
       THEN /\ Answer(r, "already_active")
            /\ UNCHANGED <<attempts, enqueuedBy>>
       ELSE /\ attempts' = [attempts EXCEPT ![Subject(r)] = @ \union {"pending"}]
            /\ enqueuedBy' = enqueuedBy \union {r}
            /\ Answer(r, "created")
  /\ UNCHANGED <<claimedAt, runs, links, listed, wonAt, completedBy>>

\* Mutant: the update also matches a row that is already completed.
CompleteTwice(r) ==
  /\ Waiting(r, "complete")
  /\ IF attempts[Subject(r)] # {}
       THEN /\ attempts' = [attempts EXCEPT ![Subject(r)] = {"completed"}]
            /\ completedBy' = IF "pending" \in attempts[Subject(r)]
                                THEN completedBy \union {r} ELSE completedBy
            /\ Answer(r, "completed")
       ELSE Answer(r, "missing") /\ UNCHANGED <<attempts, completedBy>>
  /\ UNCHANGED <<claimedAt, runs, links, listed, wonAt, enqueuedBy>>

\* UPDATE the active row, else look for a completed one, in one transaction.
Complete(r) ==
  /\ Waiting(r, "complete")
  /\ IF "pending" \in attempts[Subject(r)]
       THEN /\ attempts' = [attempts EXCEPT ![Subject(r)] = {"completed"}]
            /\ completedBy' = completedBy \union {r}
            /\ Answer(r, "completed")
       ELSE /\ Answer(r, IF "completed" \in attempts[Subject(r)]
                           THEN "already_completed" ELSE "missing")
            /\ UNCHANGED <<attempts, completedBy>>
  /\ UNCHANGED <<claimedAt, runs, links, listed, wonAt, enqueuedBy>>

\* SQLite is busy past its timeout, or fails: the statement has no effect.
StoreFails(r) ==
  /\ InFlight(r)
  /\ answer[r] = None
  /\ Answer(r, "error")
  /\ UNCHANGED <<durable, listed, wonAt, enqueuedBy, completedBy>>

-----------------------------------------------------------------------------
(* The handler: one step from an await to the next one or to the response. *)

Count(cs) ==
  metrics' = [c \in Counters |-> IF c \in cs THEN metrics[c] + 1 ELSE metrics[c]]

\* Suspends the task at a store call.
Call(r, call) ==
  /\ pc' = [pc EXCEPT ![r] = call]
  /\ answer' = [answer EXCEPT ![r] = None]
  /\ UNCHANGED response

\* Ends the task.  The request-observing middleware has no await of its own, so
\* its counter moves in the same step as the counters cs of the handler.
Respond(r, outcome, cs) ==
  /\ pc' = [pc EXCEPT ![r] = "done"]
  /\ answer' = [answer EXCEPT ![r] = None]
  /\ response' = [response EXCEPT ![r] = outcome]
  /\ Count(cs \union {outcome})

\* The router's 405 to another method than POST.  MethodRouter::layer puts the
\* middleware around it too, and result_for_status counts a status it does not
\* expect as unavailable (in a build without debug assertions: one with them panics).
RespondNotAllowed(r) ==
  /\ pc' = [pc EXCEPT ![r] = "done"]
  /\ answer' = [answer EXCEPT ![r] = None]
  /\ response' = [response EXCEPT ![r] = "not_allowed"]
  /\ Count({"unavailable"})

HandlerFrame ==
  UNCHANGED <<durable, listed, now, crashes, wonAt, enqueuedBy, completedBy>>

\* The method, then content type, headers, body size, body JSON and repository name.
\* The rejections of the extractor (400, 413, 415) differ only in their label.
Receive(r) ==
  /\ pc[r] = "unsent"
  /\ \/ /\ RespondNotAllowed(r) \/ Respond(r, "malformed", {})
        /\ UNCHANGED delivery
     \/ /\ \E d \in Deliveries : delivery' = [delivery EXCEPT ![r] = d]
        /\ Call(r, "authenticate")
        /\ UNCHANGED metrics
  /\ HandlerFrame
  /\ UNCHANGED <<observed, traces>>

Authenticated(r) ==
  /\ Answered(r, "authenticate")
  /\ \/ answer[r] = "unauthorized" /\ Respond(r, "unauthorized", {})
     \/ answer[r] = "error" /\ Respond(r, "unavailable", {"authentication"})
     \/ answer[r] = "ok" /\ Respond(r, "malformed", {})  \* event projection rejected
     \/ answer[r] = "ok" /\ Call(r, "claim") /\ UNCHANGED metrics
  /\ HandlerFrame
  /\ UNCHANGED <<delivery, observed, traces>>

\* A completed job: the steps are counted whatever the limit decides.
AdmitJob(r) ==
  \/ /\ Event(r) = "job_oversized"
     /\ Respond(r, "accepted", {"events", "job_steps", "too_many_steps"})
  \/ /\ Event(r) = "job_completed"
     /\ Call(r, "get_run")
     /\ Count({"events", "job_steps"})

\* What a New claim leads to, by event.
Dispatch(r) ==
  \/ /\ Event(r) \in RunEvents
     /\ Call(r, "upsert_run")
     /\ Count({"events"})
  \/ AdmitJob(r)
  \/ /\ Event(r) = "pr_enqueued"
     /\ Call(r, "enqueue")
     /\ Count({"events"})
  \/ /\ Event(r) \in CompletionEvents
     /\ Call(r, "complete")
     /\ Count({"events"})
  \/ Event(r) = "merge_group" /\ Respond(r, "accepted", {"events", "merge_group_events"})
  \/ Event(r) = "other" /\ Respond(r, "accepted", {"events"})

Claimed(r) ==
  /\ Answered(r, "claim")
  /\ \/ answer[r] = "duplicate" /\ Respond(r, "accepted", {"duplicates"}) /\ UNCHANGED observed
     \/ answer[r] = "error" /\ Respond(r, "unavailable", {"delivery_claim"}) /\ UNCHANGED observed
     \/ answer[r] = "new" /\ Dispatch(r) /\ observed' = observed \union {r}
  /\ HandlerFrame
  /\ UNCHANGED <<delivery, traces>>

\* Mutant: a failed upsert is only counted, as the enrichment paths do.
RunUpsertedLeniently(r) ==
  /\ Answered(r, "upsert_run")
  /\ Respond(r, "accepted", IF answer[r] = "error" THEN {"database"} ELSE {})
  /\ HandlerFrame
  /\ UNCHANGED <<delivery, observed, traces>>

\* A completed run goes on to its pipeline summary, if tracing is enabled.
RunUpserted(r) ==
  /\ Answered(r, "upsert_run")
  /\ LET summarise == Event(r) = "run_completed" /\ TracingEnabled
     IN  \/ answer[r] = "error" /\ Respond(r, "unavailable", {"database"})
         \/ answer[r] = "ok" /\ summarise /\ Call(r, "list_links") /\ UNCHANGED metrics
         \/ answer[r] = "ok" /\ ~summarise /\ Respond(r, "accepted", {})
  /\ HandlerFrame
  /\ UNCHANGED <<delivery, observed, traces>>

LinksListed(r) ==
  /\ Answered(r, "list_links")
  /\ \/ /\ answer[r] = "error"
        /\ Respond(r, "accepted", {"workflow_link"})
        /\ UNCHANGED pipeline
     \/ /\ answer[r] = "listed" /\ Cardinality(listed[r]) > MaxJobs
        /\ Respond(r, "accepted", {"too_many_jobs"})
        /\ UNCHANGED pipeline
     \/ /\ answer[r] = "listed" /\ Cardinality(listed[r]) <= MaxJobs
        /\ Respond(r, "accepted", {})
        /\ pipeline' = [pipeline EXCEPT ![r] = listed[r]]  \* empty: no trace
  /\ HandlerFrame
  /\ UNCHANGED <<delivery, observed, jobTraces>>

\* project_completed_job may reject the job; a disabled emitter has no identity.
EmitJob(r) ==
  \/ Respond(r, "accepted", {}) /\ UNCHANGED jobTraces
  \/ /\ TracingEnabled
     /\ jobTraces' = jobTraces \union {r}
     /\ Call(r, "record_link")
     /\ UNCHANGED metrics

\* Mutant: a failed read answers 503 and is not counted.
RunReadUncounted(r) ==
  /\ Answered(r, "get_run")
  /\ \/ answer[r] = "error" /\ Respond(r, "unavailable", {}) /\ UNCHANGED jobTraces
     \/ answer[r] # "error" /\ EmitJob(r)
  /\ HandlerFrame
  /\ UNCHANGED <<delivery, observed, pipeline>>

\* Required checks are looked up only for a known run with a known target branch.
RunRead(r) ==
  /\ Answered(r, "get_run")
  /\ \/ answer[r] = "error" /\ Respond(r, "unavailable", {"database"}) /\ UNCHANGED jobTraces
     \/ answer[r] = "found" /\ Call(r, "get_checks") /\ UNCHANGED <<metrics, jobTraces>>
     \/ answer[r] \in {"found", "missing"} /\ EmitJob(r)
  /\ HandlerFrame
  /\ UNCHANGED <<delivery, observed, pipeline>>

\* A stale, absent or unreadable entry alike leaves the required flag unknown.
ChecksRead(r) ==
  /\ Answered(r, "get_checks")
  /\ EmitJob(r)
  /\ HandlerFrame
  /\ UNCHANGED <<delivery, observed, pipeline>>

LinkRecorded(r) ==
  /\ Answered(r, "record_link")
  /\ Respond(r, "accepted", IF answer[r] = "error" THEN {"workflow_link"} ELSE {})
  /\ HandlerFrame
  /\ UNCHANGED <<delivery, observed, traces>>

\* Mutant: the task waits for an attempt it did not find.
QueueAppliedOrWaits(r) ==
  /\ Answered(r, "enqueue") \/ Answered(r, "complete")
  /\ answer[r] # "missing"
  /\ Respond(r, "accepted", {})
  /\ HandlerFrame
  /\ UNCHANGED <<delivery, observed, traces>>

\* A completion whose duration is out of range counts a transition failure
\* in place of an outcome.
QueueApplied(r) ==
  /\ Answered(r, "enqueue") \/ Answered(r, "complete")
  /\ \/ answer[r] = "error" /\ Respond(r, "accepted", {"queue_state"})
     \/ answer[r] = "completed" /\ Respond(r, "accepted", {"queue_outcomes"})
     \/ /\ answer[r] \in {"completed", "missing"}
        /\ Respond(r, "accepted", {"queue_transition_failures"})
     \/ /\ answer[r] \in {"created", "already_active", "already_completed"}
        /\ Respond(r, "accepted", {})
  /\ HandlerFrame
  /\ UNCHANGED <<delivery, observed, traces>>

-----------------------------------------------------------------------------
(* The surroundings.                                                       *)

\* The connection closes or the drain deadline passes while r is suspended.
Drop(r) ==
  /\ InFlight(r)
  /\ pc' = [pc EXCEPT ![r] = "dropped"]
  /\ answer' = [answer EXCEPT ![r] = None]
  /\ UNCHANGED <<durable, listed, delivery, metrics, now, crashes, history>>

\* The process dies and starts again: tasks and counters are gone, rows stay.
Crash ==
  /\ crashes < MaxCrashes
  /\ crashes' = crashes + 1
  /\ pc' = [r \in Requests |-> IF InFlight(r) THEN "dropped" ELSE pc[r]]
  /\ answer' = [r \in Requests |-> None]
  /\ metrics' = [c \in Counters |-> 0]
  /\ UNCHANGED <<durable, listed, delivery, now, history>>

\* Mutant: a claim received exactly at the cutoff is pruned too.
PruneClaimsInclusive ==
  \E cutoff \in 0 .. now - Retention :
    \E d \in Deliveries :
      /\ claimedAt[d] # None
      /\ claimedAt[d] <= cutoff
      /\ claimedAt' = [claimedAt EXCEPT ![d] = None]
      /\ UNCHANGED <<runs, links, attempts, pc, answer, listed, delivery, metrics,
                     now, crashes, history>>

\* One batch of a retention pass, whose cutoff was fixed at or before now: at
\* most PruneBatch of the claims received before the cutoff, oldest first.
PruneClaims ==
  \E cutoff \in 0 .. now - Retention :
    LET eligible == {d \in Deliveries : claimedAt[d] # None /\ claimedAt[d] < cutoff}
    IN  \E batch \in SUBSET eligible :
          /\ batch # {}
          /\ \/ batch = eligible /\ Cardinality(eligible) <= PruneBatch
             \/ Cardinality(batch) = PruneBatch
          /\ \A d \in batch, e \in eligible \ batch : claimedAt[d] <= claimedAt[e]
          /\ claimedAt' = [d \in Deliveries |-> IF d \in batch THEN None ELSE claimedAt[d]]
          /\ UNCHANGED <<runs, links, attempts, pc, answer, listed, delivery, metrics,
                         now, crashes, history>>

Tick ==
  /\ now < MaxTime
  /\ now' = now + 1
  /\ UNCHANGED <<durable, pc, answer, listed, delivery, metrics, crashes, history>>

\* Every request has ended and the clock is at its bound: idling is no deadlock.
Idle ==
  /\ \A r \in Requests : pc[r] \in {"done", "dropped"}
  /\ now = MaxTime
  /\ UNCHANGED vars

StoreStep(r) ==
  \/ Authenticate(r) \/ ClaimDelivery(r) \/ UpsertRun(r) \/ ListLinks(r) \/ GetRun(r)
  \/ GetChecks(r) \/ RecordLink(r) \/ Enqueue(r) \/ Complete(r) \/ StoreFails(r)

HandlerStep(r) ==
  \/ Authenticated(r) \/ Claimed(r) \/ RunUpserted(r) \/ LinksListed(r) \/ RunRead(r)
  \/ ChecksRead(r) \/ LinkRecorded(r) \/ QueueApplied(r)

Next ==
  \/ \E r \in Requests : Receive(r) \/ StoreStep(r) \/ HandlerStep(r) \/ Drop(r)
  \/ Crash \/ PruneClaims \/ Tick \/ Idle

Spec == Init /\ [][Next]_vars

\* busy_timeout bounds every statement and the runtime polls every woken task.
Fairness == \A r \in Requests : WF_vars(StoreStep(r)) /\ WF_vars(HandlerStep(r))

FairSpec == Spec /\ Fairness

-----------------------------------------------------------------------------
(* Properties.                                                             *)

TypeOK ==
  /\ claimedAt \in [Deliveries -> Nat \union {None}]
  /\ runs \subseteq Subjects
  /\ links \subseteq Deliveries
  /\ attempts \in [Subjects -> SUBSET {"pending", "completed"}]
  /\ pc \in [Requests -> StoreCalls \union {"unsent", "done", "dropped"}]
  /\ answer \in [Requests -> Answers \union {None}]
  /\ listed \in [Requests -> SUBSET Deliveries]
  /\ delivery \in [Requests -> Deliveries \union {None}]
  /\ metrics \in [Counters -> Nat]
  /\ now \in Nat
  /\ crashes \in Nat
  /\ response \in [Requests -> Responses \union {None}]
  /\ wonAt \in [Requests -> Nat \union {None}]
  /\ observed \subseteq Requests
  /\ jobTraces \subseteq Requests
  /\ pipeline \in [Requests -> SUBSET Deliveries]
  /\ enqueuedBy \subseteq Requests
  /\ completedBy \subseteq Requests

\* r changed a counter other than its own outcome, a trace or a queue attempt.
Effected(r) == \/ r \in observed \union jobTraces \union enqueuedBy \union completedBy
               \/ pipeline[r] # {}

Won(r) == wonAt[r] # None

\* A redelivery never repeats the effects of a delivery: of two requests that
\* carry the same identifier and both had effects, one was claimed more than
\* Retention after the other, however requests, drops, crashes and prune
\* batches interleave.  claim_inner is the only gate of webhook_handler.
AtMostOncePerWindow ==
  \A r, q \in Requests :
    r # q /\ Effected(r) /\ Effected(q) /\ delivery[r] = delivery[q] =>
      /\ Won(r) /\ Won(q)
      /\ wonAt[r] - wonAt[q] > Retention \/ wonAt[q] - wonAt[r] > Retention

\* A workflow_run delivery that was claimed and answered 204 has its context in
\* workflow_run_contexts, until retention prunes contexts (which this module leaves out): an
\* upsert that failed is never acknowledged as done.
AcceptedRunIsDurable ==
  \A r \in observed :
    Event(r) \in RunEvents /\ response[r] = "accepted" => Subject(r) \in runs

\* A pipeline summary links only to job traces that were emitted, of its own run
\* attempt, and to no more than MAX_PIPELINE_JOB_SPANS of them, even when the
\* process crashed between the job and the run.
PipelineLinksEmittedTraces ==
  \A r \in Requests :
    /\ Cardinality(pipeline[r]) <= MaxJobs
    /\ \A j \in pipeline[r] :
         /\ SubjectOf[j] = Subject(r)
         /\ \E q \in jobTraces : delivery[q] = j

\* Every attempt is opened by one request and closed by at most one, so the
\* pending row of a pull request is exactly the difference of the two, whatever
\* completions race for it and whatever tasks die after the commit.
QueueConservation ==
  \A s \in Subjects :
    LET By(set) == Cardinality({r \in set : Subject(r) = s})
    IN  By(enqueuedBy) - By(completedBy) = IF "pending" \in attempts[s] THEN 1 ELSE 0

\* Outcome counters only follow durable transitions: a crash may undercount
\* them, nothing overcounts them.
OutcomesFollowCommits == metrics["queue_outcomes"] <= Cardinality(completedBy)

\* The middleware's unavailable results and the handler's failure stages are
\* counted in different layers.  They differ by the requests of another method,
\* which count as unavailable without a stage, and by nothing else: exactly by
\* them until the process dies, and then by those that came since.
FailureStagesCounted ==
  metrics["authentication"] + metrics["delivery_claim"] + metrics["database"]
NotAllowed == {r \in Requests : response[r] = "not_allowed"}
UnavailableIsAccounted ==
  LET excess == metrics["unavailable"] - FailureStagesCounted
  IN  /\ excess \in 0 .. Cardinality(NotAllowed)
      /\ crashes = 0 => excess = Cardinality(NotAllowed)

\* Every request that reached authentication ends: with a response, or dropped.
EveryRequestEnds == \A r \in Requests : InFlight(r) ~> pc[r] \in {"done", "dropped"}

\* The right to act that each request holds, and the requests that acted on it.
Granted == [r \in Requests |-> IF Won(r) THEN [delivery |-> delivery[r], at |-> wonAt[r]]
                                        ELSE None]
Worked == {r \in Requests : Effected(r)}

\* The handler keeps the promise of DeliveryPromise: a grant is a New answer.
Promise == INSTANCE DeliveryPromise WITH grant <- Granted, worked <- Worked

KeepsPromise == Promise!Spec

\* http-api.md on 503: "SQLite could not load authentication data or claim the
\* delivery", so a request answered 503 left its delivery unclaimed.
UnavailableMeansUnclaimed ==
  \A r \in Requests : response[r] = "unavailable" => ~Won(r)
=============================================================================
