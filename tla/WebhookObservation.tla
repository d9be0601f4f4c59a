------------------------- MODULE WebhookObservation -------------------------
(***************************************************************************)
(* What a webhook request leaves in metrics and traces.  Three layers that *)
(* know nothing of each other report on one request: observe_http_request  *)
(* (app.rs), observe_webhook_request and webhook_handler (api/webhook.rs). *)
(* They are joined only by the response status and by a cell in the        *)
(* request's extensions that holds its authenticated repository.           *)
(*                                                                         *)
(* Each action is one of WebhookHandler with what it records.  Labels and  *)
(* spans are history: what was recorded, by whichever process.             *)
(***************************************************************************)
EXTENDS WebhookHandler

CONSTANTS
  Registered,  \* the canonical name of the registered repository
  Names,       \* the names payloads claim
  RawOf        \* RawOf[d]: the event header and the payload of d

-----------------------------------------------------------------------------
(* The bounded vocabulary.                                                 *)

EventTypes ==
  {"branch_protection_rule", "check_run", "check_suite", "create", "delete", "deployment",
   "deployment_status", "discussion", "discussion_comment", "issues", "issue_comment",
   "merge_group", "pull_request", "pull_request_review", "pull_request_review_comment",
   "push", "release", "repository", "status", "workflow_job", "workflow_run"}

Actions ==
  {"assigned", "checks_requested", "closed", "completed", "created", "deleted", "dequeued",
   "destroyed", "edited", "enqueued", "in_progress", "labeled", "opened", "published",
   "queued", "reopened", "requested", "requested_action", "rerequested", "submitted",
   "synchronize", "unassigned", "unlabeled", "unpublished", "updated", "waiting"}

EventType(raw) == IF raw.event \in EventTypes THEN raw.event ELSE "other"
Action(raw) == IF raw.action \in Actions \union {"none"} THEN raw.action ELSE "other"

DestroyedReason(raw) ==
  IF raw.reason \in {"merged", "dequeued", "invalidated"} THEN raw.reason ELSE "other"

\* The path webhook_handler takes with a New delivery.  raw.body says what the
\* specialised projection finds: nothing, a usable one, a job with too many steps,
\* or a pull request that was merged.
Kind(raw) ==
  LET is(type, action) == EventType(raw) = type /\ Action(raw) = action
  IN  CASE EventType(raw) = "workflow_run" /\ raw.body # "absent" ->
             IF Action(raw) = "completed" THEN "run_completed" ELSE "run_requested"
        [] is("workflow_job", "completed") /\ raw.body = "usable" -> "job_completed"
        [] is("workflow_job", "completed") /\ raw.body = "oversized" -> "job_oversized"
        [] is("pull_request", "enqueued") /\ raw.body # "absent" -> "pr_enqueued"
        [] is("pull_request", "dequeued") /\ raw.body # "absent" -> "pr_dequeued"
        [] is("pull_request", "closed") /\ raw.body = "merged" -> "pr_merged"
        [] is("merge_group", "checks_requested") \/ is("merge_group", "destroyed") -> "merge_group"
        [] OTHER -> "other"

ASSUME ObservationAssumption ==
  /\ Registered \in Names /\ None \notin Names /\ "unknown" \notin Names
  /\ \A d \in Deliveries : EventOf[d] = Kind(RawOf[d])

\* error.rs: the status of each AppError the handler can return; and the router's
\* own answer to a method without a handler.
StatusOf(error) ==
  CASE error = "invalid_webhook" -> 400
    [] error = "unauthorized" -> 401
    [] error = "method_not_allowed" -> 405
    [] error = "payload_too_large" -> 413
    [] error = "unsupported_media_type" -> 415
    [] error = "service_unavailable" -> 503
    [] error = None -> 204

\* result_for_status: any status it does not know, such as 405, counts as unavailable.
ResultOf(status) ==
  CASE status = 204 -> "accepted"
    [] status = 400 -> "malformed"
    [] status = 401 -> "unauthorized"
    [] status = 413 -> "too_large"
    [] status = 415 -> "unsupported"
    [] OTHER -> "unavailable"

HttpResult(code) ==
  CASE code \in 100 .. 399 -> "success"
    [] code \in 400 .. 499 -> "client_error"
    [] code \in 500 .. 599 -> "server_error"
    [] OTHER -> "other"
HttpOutcome(code) == IF HttpResult(code) = "success" THEN "success" ELSE "failure"

Requested == [post : BOOLEAN, contentType : {"absent", "json", "other"}, headers : BOOLEAN,
              size : {"within", "beyond", "broken"}, payload : BOOLEAN]

ValidateContentType(contentType) ==
  CASE contentType = "absent" -> "invalid_webhook"
    [] contentType = "json" -> None
    [] contentType = "other" -> "unsupported_media_type"

\* Beyond the limit, or not read to its end.
MapBodyRejection(size) ==
  CASE size = "beyond" -> "payload_too_large"
    [] size = "broken" -> "invalid_webhook"
    [] size = "within" -> None

\* WebhookRequest::from_request: the first check that fails decides the error.
Extract(parts) ==
  IF ValidateContentType(parts.contentType) # None THEN ValidateContentType(parts.contentType)
  ELSE IF ~parts.headers THEN "invalid_webhook"
  ELSE IF MapBodyRejection(parts.size) # None THEN MapBodyRejection(parts.size)
  ELSE IF parts.payload THEN None ELSE "invalid_webhook"

\* The route has a handler for POST only.
Routed(parts) == IF parts.post THEN Extract(parts) ELSE "method_not_allowed"

-----------------------------------------------------------------------------

VARIABLES
  named,     \* named[r]: the repository the payload of r claims to be about
  identity,  \* identity[r]: RequestRepositoryContext, None until authenticated
  status,    \* status[r]: the status of the response, None if there was none
  labels,    \* labels[r]: the label sets of the counters r incremented
  spans      \* spans[r]: by operation, [outcome, repository, attributes], a set of
             \* keys and values; None if not begun

observation == <<named, identity, status, labels, spans>>
observed_vars == <<vars, observation>>

Operations == {"http", "authenticate", "process", "update", "database"}
SpanKeys == {"webhook.event_type", "webhook.action", "queue.entity", "queue.outcome", "queue.reason",
             "merge_group.action", "merge_group.reason", "repository.id", "delivery.id",
             "http.status_code", "http.result", "operation.failure", "db.operation.name"}
Begun(repository, attributes) ==
  [outcome |-> None, repository |-> repository, attributes |-> attributes]
With(span, attributes) == [span EXCEPT !.attributes = @ \union attributes]
WithOutcome(span, outcome) == [span EXCEPT !.outcome = outcome]

InitObserved ==
  /\ Init
  /\ named = [r \in Requests |-> None]
  /\ identity = [r \in Requests |-> None]
  /\ status = [r \in Requests |-> None]
  /\ labels = [r \in Requests |-> {}]
  /\ spans = [r \in Requests |-> [o \in Operations |-> None]]

RepositoryLabel(repository) == IF repository = None THEN "unknown" ELSE repository

\* Mutant: a failed authentication is counted under the name it was tried for.
StageRepositoryNamed(r, stage) == named[r]

\* unavailable_error is told no name before authentication has succeeded.
StageRepository(r, stage) == IF stage = "authentication" THEN None ELSE named[r]

EventLabels(raw) == <<EventType(raw), Action(raw)>>

\* merge_group_transition: what both the counter and the span are told.
MergeGroupTransition(raw) ==
  [action |-> Action(raw),
   reason |-> IF Action(raw) = "checks_requested" THEN "none" ELSE DestroyedReason(raw)]

MergeGroupLabels(transition) == <<transition.action, transition.reason>>

Completion(r) == IF Event(r) = "pr_merged" THEN "PullRequestMerged" ELSE "UnclassifiedDequeue"

\* Mutant: one outcome for every completion.
CompletionLabelsSucceeded(completion) == <<"succeeded", "pull_request_merged">>

CompletionLabels(completion) ==
  CASE completion = "PullRequestMerged" -> <<"succeeded", "pull_request_merged">>
    [] completion = "UnclassifiedDequeue" -> <<"unknown", "unclassified_dequeue">>

\* The attributes of spans; set_merge_queue_completion has a table of its own.
SetWebhookEvent(raw) == {<<"webhook.event_type", EventType(raw)>>, <<"webhook.action", Action(raw)>>}
SetQueueEntity(entity) == {<<"queue.entity", entity>>}
SetMergeGroupTransition(transition) ==
  {<<"merge_group.action", transition.action>>, <<"merge_group.reason", transition.reason>>}
SetMergeQueueCompletion(completion) ==
  IF completion = "PullRequestMerged"
  THEN {<<"queue.outcome", "succeeded">>, <<"queue.reason", "pull_request_merged">>}
  ELSE {<<"queue.outcome", "unknown">>, <<"queue.reason", "unclassified_dequeue">>}
SetRepositoryId(name) == {<<"repository.id", name>>}  \* one row, one name
SetDeliveryId(d) == {<<"delivery.id", d>>}
SetHttpResponse(code) == {<<"http.status_code", code>>, <<"http.result", HttpResult(code)>>}
AddFailureEvent(reason) == {<<"operation.failure", reason>>}

\* DatabaseOperation: what a store call is to be called.
DatabaseOperation(call) ==
  CASE call = "authenticate" -> "repository.authenticate"
    [] call = "claim" -> "delivery.claim"
    [] call = "upsert_run" -> "workflow_run.upsert"
    [] call = "get_run" -> "workflow_run.get"
    [] call = "get_checks" -> "required_check.get"
    [] call = "record_link" -> "workflow_job_link.record"
    [] call = "list_links" -> "workflow_job_link.list"
    [] call = "enqueue" -> "merge_queue.enqueue"
    [] call = "complete" -> "merge_queue.complete"

DatabaseSpan(call) == Begun(None, {<<"db.operation.name", DatabaseOperation(call)>>})

\* Everything a span can hold, so that no error, no outcome and no span is None.
AppErrors == {"invalid_webhook", "unauthorized", "payload_too_large", "unsupported_media_type",
              "service_unavailable"}
SpanOutcomes == {"success", "failure", "duplicate", "no_op"}
AttributeValues ==
  {EventType(RawOf[d]) : d \in Deliveries} \union {Action(RawOf[d]) : d \in Deliveries}
        \union {DestroyedReason(RawOf[d]) : d \in Deliveries}
        \union Deliveries \union Names \union Nat
        \union {DatabaseOperation(call) : call \in StoreCalls}
        \union {"none", "merge_group", "pull_request", "succeeded", "pull_request_merged", "unknown",
                "unclassified_dequeue", "queue_state", "success", "client_error", "server_error"}
SpansBegun == [outcome : SpanOutcomes \union {None}, repository : Names \union {None},
               attributes : SUBSET (SpanKeys \X AttributeValues)]

ASSUME NothingAssumption ==
  /\ None \notin AppErrors /\ None # "method_not_allowed" /\ None \notin SpanOutcomes /\ None \notin SpansBegun

\* What Metrics puts beside the counter c when r increments it.
LabelSet(r, c) ==
  LET raw == RawOf[delivery[r]]
      set(repository, values) == [counter |-> c, repository |-> RepositoryLabel(repository),
                                  values |-> values]
  IN  CASE c \in Outcomes -> [counter |-> "requests",
                              repository |-> RepositoryLabel(identity'[r]),
                              values |-> <<ResultOf(status'[r])>>]
        [] c \in FailureStages -> set(StageRepository(r, c), <<c>>)
        [] c = "events" -> set(named[r], EventLabels(raw))
        [] c = "merge_group_events" -> set(named[r], MergeGroupLabels(MergeGroupTransition(raw)))
        [] c = "queue_outcomes" -> set(named[r], CompletionLabels(Completion(r)))
        [] c = "queue_transition_failures" ->
             set(named[r], <<IF answer[r] = "missing" THEN "missing_active_attempt"
                                                      ELSE "invalid_duration">>)
        [] OTHER -> set(named[r], <<>>)  \* duplicates, job_steps and the rejections

\* Every counter the step of r moves is recorded under its labels.
Label(r) ==
  labels' = [labels EXCEPT ![r] = @ \union
               {LabelSet(r, c) : c \in {k \in Counters : metrics'[k] # metrics[k]}}]

\* observe_http_request after the response: the span learns the repository from the
\* cell, the status from the response.
HttpSpan(r) ==
  [repository |-> IF status'[r] = None THEN None ELSE identity'[r],
   outcome |-> IF status'[r] = None THEN None ELSE HttpOutcome(status'[r]),
   attributes |-> IF status'[r] = None THEN {} ELSE SetHttpResponse(status'[r])]

-----------------------------------------------------------------------------
(* The steps of a request, with what they record.                          *)

\* The authentication span carries the name the payload claims.
ReceiveObserved(r) ==
  /\ Receive(r)
  /\ \E parts \in Requested, name \in Names :
       LET error == Routed(parts)
       IN  /\ (error = None) = (pc'[r] # "done")
           /\ (error = "method_not_allowed") = (response'[r] = "not_allowed")
           /\ named' = [named EXCEPT ![r] = IF error = None THEN name ELSE None]
           /\ status' = [status EXCEPT ![r] = IF error = None THEN None ELSE StatusOf(error)]
           /\ UNCHANGED identity
           /\ spans' = [spans EXCEPT
                ![r]["http"] = HttpSpan(r),
                ![r]["authenticate"] = IF error = None
                                          THEN Begun(name, SetDeliveryId(delivery'[r])) ELSE None]
  /\ Label(r)

\* A store call and its span.  Only the registered repository authenticates; an
\* authentication can also fail although its query succeeded (a secret that does
\* not decrypt).
StoreObserved(r) ==
  /\ StoreStep(r)
  /\ answer'[r] = "ok" /\ pc[r] = "authenticate" => named[r] = Registered
  /\ \E outcome \in {"success", "failure"} :
       /\ answer'[r] # "error" => outcome = "success"
       /\ answer'[r] = "error" /\ pc[r] # "authenticate" => outcome = "failure"
       /\ spans' = [spans EXCEPT ![r]["database"] = WithOutcome(DatabaseSpan(pc[r]), outcome)]
  /\ UNCHANGED <<named, identity, status, labels>>

\* The error of the handler's answer, None for a 204.
Failure(r) ==
  CASE response'[r] = "malformed" -> "invalid_webhook"
    [] response'[r] = "unauthorized" -> "unauthorized"
    [] response'[r] = "unavailable" -> "service_unavailable"
    [] response'[r] = "accepted" -> None

Responds(r) == pc'[r] = "done"
Suspends(r, call) == pc'[r] = call

StatusNext(r) ==
  status' = [status EXCEPT ![r] = IF Responds(r) THEN StatusOf(Failure(r)) ELSE None]

\* The span of the whole processing: set once, after the inner block has returned.
ProcessSpan(r, span) ==
  IF ~Responds(r) THEN span
  ELSE WithOutcome(span, IF Failure(r) # None THEN "failure"
                         ELSE IF answer[r] = "duplicate" THEN "duplicate" ELSE "success")

\* A span begun for an event whose repository has been authenticated.
Processing(r) ==
  Begun(named[r], SetRepositoryId(named[r]) \union SetDeliveryId(delivery[r])
                    \union SetWebhookEvent(RawOf[delivery[r]]))

\* The span of a queue update: one of its own for a merge group, and around the
\* transition of a pull request.
UpdateSpan(r, span) ==
  CASE answer[r] = "new" /\ Event(r) = "merge_group" ->
         WithOutcome(With(Processing(r), SetQueueEntity("merge_group")
             \union SetMergeGroupTransition(MergeGroupTransition(RawOf[delivery[r]]))), "success")
    [] Suspends(r, "enqueue") -> With(Processing(r), SetQueueEntity("pull_request"))
    [] Suspends(r, "complete") ->
         With(Processing(r), SetQueueEntity("pull_request") \union SetMergeQueueCompletion(Completion(r)))
    [] pc[r] \in {"enqueue", "complete"} ->
         CASE answer[r] = "error" -> WithOutcome(With(span, AddFailureEvent("queue_state")), "failure")
           [] answer[r] \in {"created", "completed"} -> WithOutcome(span, "success")
           [] OTHER -> WithOutcome(span, "no_op")
    [] OTHER -> span

\* The event is told to the span only once the projection of the body has succeeded;
\* when it fails, the request is answered at once.
Unparsed(r) ==
  IF Responds(r)
  THEN Begun(named[r], SetRepositoryId(named[r]) \union SetDeliveryId(delivery[r]))
  ELSE Processing(r)

\* Authentication is behind: the cell is filled, or the request is refused.
AuthenticatedObserved(r) ==
  /\ Authenticated(r)
  /\ identity' = [identity EXCEPT ![r] = IF answer[r] = "ok" THEN named[r] ELSE None]
  /\ StatusNext(r)
  /\ spans' = [spans EXCEPT
       ![r]["authenticate"] = IF answer[r] = "ok"
                                THEN WithOutcome(With(@, SetRepositoryId(named[r])), "success")
                                ELSE WithOutcome(@, "failure"),
       ![r]["process"] = IF answer[r] # "ok" THEN None ELSE ProcessSpan(r, Unparsed(r)),
       ![r]["database"] = IF Responds(r) THEN @ ELSE DatabaseSpan(pc'[r]),
       ![r]["http"] = HttpSpan(r)]
  /\ Label(r)
  /\ UNCHANGED named

\* Any later step of the handler.
ProcessedObserved(r) ==
  /\ HandlerStep(r) /\ pc[r] # "authenticate"
  /\ StatusNext(r)
  /\ UNCHANGED <<named, identity>>
  /\ spans' = [spans EXCEPT
       ![r]["process"] = ProcessSpan(r, @),
       ![r]["update"] = UpdateSpan(r, @),
       ![r]["database"] = IF Responds(r) THEN @ ELSE DatabaseSpan(pc'[r]),
       ![r]["http"] = HttpSpan(r)]
  /\ Label(r)

\* A dropped request ends its open spans as they are; observe_http_request and
\* observe_webhook_request are dropped with it and record nothing.
DropObserved(r) == Drop(r) /\ UNCHANGED observation

SurroundingsObserved == (Crash \/ PruneClaims \/ Tick \/ Idle) /\ UNCHANGED observation

NextObserved ==
  \/ \E r \in Requests :
       ReceiveObserved(r) \/ StoreObserved(r) \/ AuthenticatedObserved(r)
       \/ ProcessedObserved(r) \/ DropObserved(r)
  \/ SurroundingsObserved

SpecObserved == InitObserved /\ [][NextObserved]_observed_vars

\* As in WebhookHandler: recording takes no await.
FairnessObserved ==
  \A r \in Requests : /\ WF_observed_vars(StoreObserved(r))
                      /\ WF_observed_vars(AuthenticatedObserved(r) \/ ProcessedObserved(r))

FairSpecObserved == SpecObserved /\ FairnessObserved

-----------------------------------------------------------------------------
(* Properties.                                                             *)

Told(r, counters) == {l \in labels[r] : l.counter \in counters}
Begins(r, o) == spans[r][o] # None
Outcome(r, o) == IF Begins(r, o) THEN spans[r][o].outcome ELSE None
Values(r, o, key) == IF Begins(r, o) THEN {a[2] : a \in {b \in spans[r][o].attributes : b[1] = key}} ELSE {}

\* Nothing but the authentication span is named after a repository that did not
\* authenticate: neither a metric label nor the HTTP span, whatever fails, and
\* whatever name an unsigned payload claims; and no span at all shows its row.  An
\* authenticated request carries its name in all of them.
IdentityIsAuthenticated ==
  \A r \in Requests :
    LET authenticated == Outcome(r, "authenticate") = "success"
        name == IF authenticated THEN named[r] ELSE None
    IN  /\ authenticated => named[r] = Registered
        /\ \A l \in labels[r] : l.repository = RepositoryLabel(name)
        /\ \A o \in Operations : Values(r, o, "repository.id") \subseteq {Registered} \intersect {name}
        /\ \A o \in {"process", "update"} :
             Begins(r, o) => spans[r][o].repository = name
        /\ Begins(r, "http") =>
             spans[r]["http"].repository = IF status[r] = None THEN None ELSE name

\* The store calls whose failure is the failure of the request, by failure stage.
FatalCalls(stage) ==
  CASE stage = "authentication" -> {"repository.authenticate"}
    [] stage = "delivery_claim" -> {"delivery.claim"}
    [] stage = "database" -> {"workflow_run.upsert", "workflow_run.get"}

\* A counter's labels and the attributes of the span around it are two renderings of
\* one event, made by two modules: they say the same.  An event is counted only under
\* a processing span that tells it, a merge group exactly when its update has a span, and
\* an attempt only under the outcome and reason that its update's span announced.
RenderingsAgree(r) ==
  /\ \A l \in Told(r, {"events"}) :
       \A o \in {"process", "update"} : Begins(r, o) =>
         /\ Values(r, o, "webhook.event_type") = {l.values[1]}
         /\ Values(r, o, "webhook.action") = {l.values[2]}
  /\ Begins(r, "update") => Told(r, {"events"}) # {}
  /\ Told(r, {"merge_group_events"}) # {} <=> Values(r, "update", "queue.entity") = {"merge_group"}
  /\ \A l \in Told(r, {"merge_group_events"}) :
       /\ Values(r, "update", "merge_group.action") = {l.values[1]}
       /\ Values(r, "update", "merge_group.reason") = {l.values[2]}
  /\ \A l \in Told(r, {"queue_outcomes"}) :
       /\ Values(r, "update", "queue.outcome") = {l.values[1]}
       /\ Values(r, "update", "queue.reason") = {l.values[2]}

\* The layers tell one story of a request.  It is counted once, under a result that
\* names its error, if and only if it was answered; its HTTP span fails with the status,
\* its processing span with what happened after authentication; exactly one failure stage is
\* counted with a 503, the one of the store call whose span comes last, and only stages
\* that do not change the answer with a 204; a queue update fails exactly when its state
\* could not be saved; a dropped request reports no outcome of the whole; and the labels
\* of its counters say what the attributes of its spans say.  Of a 405 two layers tell two
\* stories: the middleware counts the service as unavailable, the HTTP span blames the
\* client, and there is no failure stage nor any other span.
LayersAgree ==
  \A r \in Requests :
    LET results == Told(r, {"requests"})
        fatal == Told(r, {"authentication", "delivery_claim", "database"})
    IN  /\ RenderingsAgree(r)
        /\ pc[r] # "done" =>
             /\ results = {} /\ status[r] = None
             /\ Outcome(r, "http") = None /\ Outcome(r, "process") = None
        /\ pc[r] = "done" =>
             /\ Cardinality(results) = 1
             /\ \A l \in results :
                  l.values = <<CASE status[r] = 204 -> "accepted"
                                 [] status[r] = 400 -> "malformed"
                                 [] status[r] = 401 -> "unauthorized"
                                 [] status[r] = 413 -> "too_large"
                                 [] status[r] = 415 -> "unsupported"
                                 [] status[r] \in {405, 503} -> "unavailable">>
             /\ Outcome(r, "http") = "success" <=> status[r] = 204
             /\ Values(r, "http", "http.result") = {"server_error"} <=> fatal # {}
             /\ Values(r, "http", "http.result") = {"client_error"} <=> status[r] \in 400 .. 499
             /\ Cardinality(fatal) = IF status[r] = 503 THEN 1 ELSE 0
             /\ status[r] = 405 => \A o \in Operations \ {"http"} : ~Begins(r, o)
             /\ \A l \in fatal :
                  /\ Values(r, "database", "db.operation.name") \subseteq FatalCalls(l.values[1])
                  /\ l.counter # "authentication" => Outcome(r, "database") = "failure"
             /\ identity[r] # None =>
                  /\ Outcome(r, "process") = "failure" <=> status[r] # 204
                  /\ Outcome(r, "process") = "duplicate" <=> Told(r, {"duplicates"}) # {}
             /\ identity[r] = None => ~Begins(r, "process")
             /\ Outcome(r, "update") = "failure" <=> Told(r, {"queue_state"}) # {}
             /\ Values(r, "update", "operation.failure") # {} <=> Told(r, {"queue_state"}) # {}
             /\ Told(r, {"queue_outcomes"}) # {} => Outcome(r, "update") = "success"
=============================================================================
