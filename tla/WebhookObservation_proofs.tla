---------------------- MODULE WebhookObservation_proofs ----------------------
(***************************************************************************)
(* Proofs about what the requests of WebhookObservation leave in metrics   *)
(* and traces, for any number of requests, deliveries and names.           *)
(***************************************************************************)
EXTENDS WebhookObservation, WebhookHandler_proofs

-----------------------------------------------------------------------------
(* Spans.                                                                  *)

\* The values of a key among attributes.
ValuesOf(attributes, key) == {a[2] : a \in {b \in attributes : b[1] = key}}

Attributes == SUBSET (SpanKeys \X AttributeValues)

LEMMA ValuesOfSpan ==
  ASSUME NEW r, NEW o, NEW key
  PROVE  Values(r, o, key) = IF spans[r][o] = None THEN {} ELSE ValuesOf(spans[r][o].attributes, key)
BY DEF Values, Begins, ValuesOf

LEMMA ValuesMember ==
  ASSUME NEW A \in Attributes, NEW key, NEW v
  PROVE  v \in ValuesOf(A, key) <=> <<key, v>> \in A
<1>1. ASSUME v \in ValuesOf(A, key) PROVE <<key, v>> \in A
  <2>1. PICK a \in A : a[1] = key /\ a[2] = v
    BY <1>1 DEF ValuesOf
  <2>2. a \in SpanKeys \X AttributeValues
    BY DEF Attributes
  <2>3. a = <<a[1], a[2]>>
    BY <2>2
  <2> QED BY <2>1, <2>3
<1>2. ASSUME <<key, v>> \in A PROVE v \in ValuesOf(A, key)
  <2> DEFINE a == <<key, v>>
  <2>1. a[1] = key /\ a[2] = v
    OBVIOUS
  <2>2. a \in A
    BY <1>2
  <2> HIDE DEF a
  <2> QED BY <2>1, <2>2 DEF ValuesOf
<1> QED BY <1>1, <1>2

LEMMA OneAttribute ==
  ASSUME NEW k \in SpanKeys, NEW v \in AttributeValues
  PROVE  {<<k, v>>} \in Attributes
<1>1. <<k, v>> \in SpanKeys \X AttributeValues
  OBVIOUS
<1> QED BY <1>1, Zenon DEF Attributes

LEMMA AttributesUnion ==
  ASSUME NEW A \in Attributes, NEW B \in Attributes
  PROVE  A \union B \in Attributes
BY DEF Attributes

LEMMA TwoAttributes ==
  ASSUME NEW k \in SpanKeys, NEW v \in AttributeValues, NEW l \in SpanKeys, NEW w \in AttributeValues
  PROVE  {<<k, v>>, <<l, w>>} \in Attributes
<1>1. {<<k, v>>, <<l, w>>} = {<<k, v>>} \union {<<l, w>>}
  OBVIOUS
<1>2. {<<k, v>>} \in Attributes /\ {<<l, w>>} \in Attributes
  BY OneAttribute
<1> QED BY <1>1, <1>2, AttributesUnion

\* The groups of attributes that the spans of a webhook are given.
LEMMA EventAttributes ==
  ASSUME NEW d \in Deliveries
  PROVE  /\ SetWebhookEvent(RawOf[d]) \in Attributes
         /\ SetMergeGroupTransition(MergeGroupTransition(RawOf[d])) \in Attributes
         /\ SetDeliveryId(d) \in Attributes
<1>1. /\ EventType(RawOf[d]) \in AttributeValues /\ Action(RawOf[d]) \in AttributeValues
      /\ DestroyedReason(RawOf[d]) \in AttributeValues /\ "none" \in AttributeValues
      /\ d \in AttributeValues
  BY DEF AttributeValues
<1>2. /\ MergeGroupTransition(RawOf[d]).action \in AttributeValues
      /\ MergeGroupTransition(RawOf[d]).reason \in AttributeValues
  BY <1>1 DEF MergeGroupTransition
<1>3. /\ "webhook.event_type" \in SpanKeys /\ "webhook.action" \in SpanKeys
      /\ "merge_group.action" \in SpanKeys /\ "merge_group.reason" \in SpanKeys
      /\ "delivery.id" \in SpanKeys
  BY DEF SpanKeys
<1>4. SetWebhookEvent(RawOf[d]) \in Attributes
  BY <1>1, <1>3, TwoAttributes DEF SetWebhookEvent
<1>5. SetMergeGroupTransition(MergeGroupTransition(RawOf[d])) \in Attributes
  BY <1>2, <1>3, TwoAttributes DEF SetMergeGroupTransition
<1>6. SetDeliveryId(d) \in Attributes
  BY <1>1, <1>3, OneAttribute DEF SetDeliveryId
<1> QED BY <1>4, <1>5, <1>6

LEMMA OtherAttributes ==
  /\ \A n \in Names : SetRepositoryId(n) \in Attributes
  /\ \A e \in {"merge_group", "pull_request"} : SetQueueEntity(e) \in Attributes
  /\ AddFailureEvent("queue_state") \in Attributes
  /\ \A r : SetMergeQueueCompletion(Completion(r)) \in Attributes
  /\ \A code \in {204, 400, 401, 405, 413, 415, 503} : SetHttpResponse(code) \in Attributes
  /\ {} \in Attributes
<1>1. "repository.id" \in SpanKeys /\ "queue.entity" \in SpanKeys /\ "operation.failure" \in SpanKeys
  BY DEF SpanKeys
<1>2. "queue.outcome" \in SpanKeys /\ "queue.reason" \in SpanKeys
  BY DEF SpanKeys
<1>3. "http.status_code" \in SpanKeys /\ "http.result" \in SpanKeys
  BY DEF SpanKeys
<1>4. ASSUME NEW n \in Names PROVE SetRepositoryId(n) \in Attributes
  <2>1. n \in AttributeValues
    BY DEF AttributeValues
  <2> QED BY <1>1, <2>1, OneAttribute DEF SetRepositoryId
<1>5. ASSUME NEW e \in {"merge_group", "pull_request"} PROVE SetQueueEntity(e) \in Attributes
  <2>1. e \in AttributeValues
    BY DEF AttributeValues
  <2> QED BY <1>1, <2>1, OneAttribute DEF SetQueueEntity
<1>6. AddFailureEvent("queue_state") \in Attributes
  <2>1. "queue_state" \in AttributeValues
    BY DEF AttributeValues
  <2> QED BY <1>1, <2>1, OneAttribute DEF AddFailureEvent
<1>7. ASSUME NEW r PROVE SetMergeQueueCompletion(Completion(r)) \in Attributes
  <2>1. /\ "succeeded" \in AttributeValues /\ "pull_request_merged" \in AttributeValues
        /\ "unknown" \in AttributeValues /\ "unclassified_dequeue" \in AttributeValues
    BY DEF AttributeValues
  <2> QED BY <1>2, <2>1, TwoAttributes DEF SetMergeQueueCompletion
<1>8. ASSUME NEW code \in {204, 400, 401, 405, 413, 415, 503} PROVE SetHttpResponse(code) \in Attributes
  <2>1. HttpResult(code) \in AttributeValues /\ code \in AttributeValues
    BY DEF HttpResult, AttributeValues
  <2> QED BY <1>3, <2>1, TwoAttributes DEF SetHttpResponse
<1>9. {} \in Attributes
  BY DEF Attributes
<1> QED BY <1>4, <1>5, <1>6, <1>7, <1>8, <1>9

\* The three ways to make a span make one, and a span is not None.
LEMMA BegunSpan ==
  ASSUME NEW n \in Names \union {None}, NEW A \in Attributes
  PROVE  /\ Begun(n, A) \in SpansBegun /\ Begun(n, A).outcome = None
         /\ Begun(n, A).repository = n /\ Begun(n, A).attributes = A
BY DEF Begun, SpansBegun, Attributes

LEMMA SpanWith ==
  ASSUME NEW s \in SpansBegun, NEW A \in Attributes
  PROVE  /\ With(s, A) \in SpansBegun /\ With(s, A).outcome = s.outcome
         /\ With(s, A).repository = s.repository
         /\ With(s, A).attributes = s.attributes \union A
BY DEF With, SpansBegun, Attributes

LEMMA SpanWithOutcome ==
  ASSUME NEW s \in SpansBegun, NEW o \in SpanOutcomes \union {None}
  PROVE  /\ WithOutcome(s, o) \in SpansBegun /\ WithOutcome(s, o).outcome = o
         /\ WithOutcome(s, o).repository = s.repository
         /\ WithOutcome(s, o).attributes = s.attributes
BY DEF WithOutcome, SpansBegun, SpanOutcomes

LEMMA BegunIsSomething == ASSUME NEW s \in SpansBegun PROVE s # None /\ s.attributes \in Attributes
BY NothingAssumption DEF SpansBegun, Attributes

LEMMA DatabaseBegins ==
  ASSUME NEW call \in StoreCalls
  PROVE  /\ DatabaseSpan(call) \in SpansBegun
         /\ ValuesOf(DatabaseSpan(call).attributes, "repository.id") = {}
         /\ ValuesOf(DatabaseSpan(call).attributes, "db.operation.name") = {DatabaseOperation(call)}
<1>1. DatabaseOperation(call) \in AttributeValues /\ "db.operation.name" \in SpanKeys
  BY DEF AttributeValues, SpanKeys
<1> DEFINE A == {<<"db.operation.name", DatabaseOperation(call)>>}
<1>2. A \in Attributes
  BY <1>1, OneAttribute
<1>3. DatabaseSpan(call) \in SpansBegun /\ DatabaseSpan(call).attributes = A
  BY <1>2, BegunSpan DEF DatabaseSpan
<1>4. \A key, v : v \in ValuesOf(A, key) <=> <<key, v>> \in A
  BY <1>2, ValuesMember
<1> QED BY <1>3, <1>4

\* The span of the processing, once the repository has been authenticated.
LEMMA ProcessingSpan ==
  ASSUME NEW r, named[r] \in Names, delivery[r] \in Deliveries
  PROVE  /\ Processing(r) \in SpansBegun /\ Processing(r).outcome = None
         /\ Processing(r).repository = named[r]
         /\ Processing(r).attributes = SetRepositoryId(named[r]) \union SetDeliveryId(delivery[r])
                                         \union SetWebhookEvent(RawOf[delivery[r]])
         /\ ValuesOf(Processing(r).attributes, "repository.id") = {named[r]}
         /\ ValuesOf(Processing(r).attributes, "webhook.event_type") = {EventType(RawOf[delivery[r]])}
         /\ ValuesOf(Processing(r).attributes, "webhook.action") = {Action(RawOf[delivery[r]])}
<1> DEFINE A == SetRepositoryId(named[r]) \union SetDeliveryId(delivery[r])
                  \union SetWebhookEvent(RawOf[delivery[r]])
<1>1. A \in Attributes
  BY EventAttributes, OtherAttributes, AttributesUnion
<1>2. /\ Processing(r) \in SpansBegun /\ Processing(r).outcome = None
      /\ Processing(r).repository = named[r] /\ Processing(r).attributes = A
  BY <1>1, BegunSpan DEF Processing
<1>3. \A key, v : v \in ValuesOf(A, key) <=> <<key, v>> \in A
  BY <1>1, ValuesMember
<1>4. /\ ValuesOf(A, "repository.id") = {named[r]}
      /\ ValuesOf(A, "webhook.event_type") = {EventType(RawOf[delivery[r]])}
      /\ ValuesOf(A, "webhook.action") = {Action(RawOf[delivery[r]])}
  BY <1>3 DEF SetRepositoryId, SetDeliveryId, SetWebhookEvent
<1> QED BY <1>2, <1>4

\* A span of the processing with more attributes.
LEMMA ProcessingWith ==
  ASSUME NEW r, named[r] \in Names, delivery[r] \in Deliveries, NEW A \in Attributes
  PROVE  LET u == With(Processing(r), A)
         IN  /\ u \in SpansBegun /\ u.outcome = None /\ u.repository = named[r]
             /\ \A key, v : v \in ValuesOf(u.attributes, key) <=>
                  (<<key, v>> \in SetRepositoryId(named[r]) \union SetDeliveryId(delivery[r])
                                    \union SetWebhookEvent(RawOf[delivery[r]]) \union A)
<1> DEFINE u == With(Processing(r), A)
<1>1. /\ u \in SpansBegun /\ u.outcome = None /\ u.repository = named[r]
      /\ u.attributes = SetRepositoryId(named[r]) \union SetDeliveryId(delivery[r])
                          \union SetWebhookEvent(RawOf[delivery[r]]) \union A
  BY ProcessingSpan, SpanWith
<1>2. u.attributes \in Attributes
  BY <1>1, BegunIsSomething
<1> HIDE DEF u
<1>3. \A key, v : v \in ValuesOf(u.attributes, key) <=> <<key, v>> \in u.attributes
  BY <1>2, ValuesMember
<1> QED BY <1>1, <1>3 DEF u

\* What is common to the spans of queue updates.
UpdateOf(r, entity, span) ==
  /\ span \in SpansBegun /\ span.outcome = None /\ span.repository = named[r]
  /\ ValuesOf(span.attributes, "repository.id") = {named[r]}
  /\ ValuesOf(span.attributes, "webhook.event_type") = {EventType(RawOf[delivery[r]])}
  /\ ValuesOf(span.attributes, "webhook.action") = {Action(RawOf[delivery[r]])}
  /\ ValuesOf(span.attributes, "queue.entity") = {entity}
  /\ ValuesOf(span.attributes, "operation.failure") = {}

LEMMA MergeGroupSpan ==
  ASSUME NEW r, named[r] \in Names, delivery[r] \in Deliveries
  PROVE  LET transition == MergeGroupTransition(RawOf[delivery[r]])
             u == With(Processing(r), SetQueueEntity("merge_group") \union SetMergeGroupTransition(transition))
         IN  /\ UpdateOf(r, "merge_group", u)
             /\ ValuesOf(u.attributes, "merge_group.action") = {transition.action}
             /\ ValuesOf(u.attributes, "merge_group.reason") = {transition.reason}
<1> DEFINE transition == MergeGroupTransition(RawOf[delivery[r]])
           A == SetQueueEntity("merge_group") \union SetMergeGroupTransition(transition)
           u == With(Processing(r), A)
<1>1. A \in Attributes
  BY EventAttributes, OtherAttributes, AttributesUnion
<1>2. /\ u \in SpansBegun /\ u.outcome = None /\ u.repository = named[r]
      /\ \A key, v : v \in ValuesOf(u.attributes, key) <=>
           (<<key, v>> \in SetRepositoryId(named[r]) \union SetDeliveryId(delivery[r])
                             \union SetWebhookEvent(RawOf[delivery[r]]) \union A)
  BY <1>1, ProcessingWith, ZenonT(40)
<1> HIDE DEF u, transition
<1>3. /\ UpdateOf(r, "merge_group", u)
      /\ ValuesOf(u.attributes, "merge_group.action") = {transition.action}
      /\ ValuesOf(u.attributes, "merge_group.reason") = {transition.reason}
  BY <1>2 DEF UpdateOf, SetRepositoryId, SetDeliveryId, SetWebhookEvent, SetQueueEntity,
              SetMergeGroupTransition
<1> QED BY <1>3 DEF u, transition

LEMMA EnqueueSpan ==
  ASSUME NEW r, named[r] \in Names, delivery[r] \in Deliveries
  PROVE  UpdateOf(r, "pull_request", With(Processing(r), SetQueueEntity("pull_request")))
<1> DEFINE u == With(Processing(r), SetQueueEntity("pull_request"))
<1>1. /\ u \in SpansBegun /\ u.outcome = None /\ u.repository = named[r]
      /\ \A key, v : v \in ValuesOf(u.attributes, key) <=>
           (<<key, v>> \in SetRepositoryId(named[r]) \union SetDeliveryId(delivery[r])
                             \union SetWebhookEvent(RawOf[delivery[r]]) \union SetQueueEntity("pull_request"))
  BY OtherAttributes, ProcessingWith
<1> HIDE DEF u
<1>2. UpdateOf(r, "pull_request", u)
  BY <1>1 DEF UpdateOf, SetRepositoryId, SetDeliveryId, SetWebhookEvent, SetQueueEntity
<1> QED BY <1>2 DEF u

LEMMA CompletionSpan ==
  ASSUME NEW r, named[r] \in Names, delivery[r] \in Deliveries
  PROVE  LET u == With(Processing(r), SetQueueEntity("pull_request")
                                        \union SetMergeQueueCompletion(Completion(r)))
         IN  /\ UpdateOf(r, "pull_request", u)
             /\ ValuesOf(u.attributes, "queue.outcome") = {CompletionLabels(Completion(r))[1]}
             /\ ValuesOf(u.attributes, "queue.reason") = {CompletionLabels(Completion(r))[2]}
<1> DEFINE A == SetQueueEntity("pull_request") \union SetMergeQueueCompletion(Completion(r))
           u == With(Processing(r), A)
<1>1. A \in Attributes
  BY OtherAttributes, AttributesUnion
<1>2. /\ u \in SpansBegun /\ u.outcome = None /\ u.repository = named[r]
      /\ \A key, v : v \in ValuesOf(u.attributes, key) <=>
           (<<key, v>> \in SetRepositoryId(named[r]) \union SetDeliveryId(delivery[r])
                             \union SetWebhookEvent(RawOf[delivery[r]]) \union A)
  BY <1>1, ProcessingWith
<1> HIDE DEF u
<1> USE DEF UpdateOf, SetRepositoryId, SetDeliveryId, SetWebhookEvent, SetQueueEntity
<1>3. CASE Completion(r) = "PullRequestMerged"
  <2>1. CompletionLabels(Completion(r)) = <<"succeeded", "pull_request_merged">>
    BY <1>3 DEF CompletionLabels
  <2>2. SetMergeQueueCompletion(Completion(r)) =
          {<<"queue.outcome", "succeeded">>, <<"queue.reason", "pull_request_merged">>}
    BY <1>3 DEF SetMergeQueueCompletion
  <2>3. /\ UpdateOf(r, "pull_request", u)
        /\ ValuesOf(u.attributes, "queue.outcome") = {"succeeded"}
        /\ ValuesOf(u.attributes, "queue.reason") = {"pull_request_merged"}
    BY <1>2, <2>2
  <2>4. CompletionLabels(Completion(r))[1] = "succeeded" /\ CompletionLabels(Completion(r))[2] = "pull_request_merged"
    BY <2>1
  <2>6. /\ UpdateOf(r, "pull_request", u)
        /\ ValuesOf(u.attributes, "queue.outcome") = {CompletionLabels(Completion(r))[1]}
        /\ ValuesOf(u.attributes, "queue.reason") = {CompletionLabels(Completion(r))[2]}
    BY <2>3, <2>4, Zenon
  <2> QED BY <2>6, Zenon DEF u
<1>4. CASE Completion(r) = "UnclassifiedDequeue"
  <2>1. CompletionLabels(Completion(r)) = <<"unknown", "unclassified_dequeue">>
    BY <1>4 DEF CompletionLabels
  <2>2. SetMergeQueueCompletion(Completion(r)) =
          {<<"queue.outcome", "unknown">>, <<"queue.reason", "unclassified_dequeue">>}
    BY <1>4 DEF SetMergeQueueCompletion
  <2>3. /\ UpdateOf(r, "pull_request", u)
        /\ ValuesOf(u.attributes, "queue.outcome") = {"unknown"}
        /\ ValuesOf(u.attributes, "queue.reason") = {"unclassified_dequeue"}
    BY <1>2, <2>2
  <2>4. CompletionLabels(Completion(r))[1] = "unknown" /\ CompletionLabels(Completion(r))[2] = "unclassified_dequeue"
    BY <2>1
  <2>6. /\ UpdateOf(r, "pull_request", u)
        /\ ValuesOf(u.attributes, "queue.outcome") = {CompletionLabels(Completion(r))[1]}
        /\ ValuesOf(u.attributes, "queue.reason") = {CompletionLabels(Completion(r))[2]}
    BY <2>3, <2>4, Zenon
  <2> QED BY <2>6, Zenon DEF u
<1> QED BY <1>3, <1>4 DEF Completion

\* A failed update keeps what its span told and adds the failure.
LEMMA FailedSpan ==
  ASSUME NEW s \in SpansBegun
  PROVE  LET u == With(s, AddFailureEvent("queue_state"))
         IN  /\ u \in SpansBegun /\ u.repository = s.repository
             /\ \A key : key # "operation.failure" => ValuesOf(u.attributes, key) = ValuesOf(s.attributes, key)
             /\ ValuesOf(u.attributes, "operation.failure") # {}
<1> DEFINE u == With(s, AddFailureEvent("queue_state"))
<1>1. /\ u \in SpansBegun /\ u.repository = s.repository
      /\ u.attributes = s.attributes \union AddFailureEvent("queue_state")
  BY OtherAttributes, SpanWith, ZenonT(40)
<1>2. s.attributes \in Attributes /\ u.attributes \in Attributes
  BY <1>1, BegunIsSomething
<1> HIDE DEF u
<1>3. \A key, v : /\ v \in ValuesOf(u.attributes, key) <=> <<key, v>> \in u.attributes
                  /\ v \in ValuesOf(s.attributes, key) <=> <<key, v>> \in s.attributes
  BY <1>2, ValuesMember
<1>4. ASSUME NEW key, key # "operation.failure"
      PROVE  ValuesOf(u.attributes, key) = ValuesOf(s.attributes, key)
  <2>1. \A v : <<key, v>> \notin AddFailureEvent("queue_state")
    BY <1>4 DEF AddFailureEvent
  <2> QED BY <1>1, <1>3, <2>1
<1>5. <<"operation.failure", "queue_state">> \in u.attributes
  BY <1>1 DEF AddFailureEvent
<1>6. ValuesOf(u.attributes, "operation.failure") # {}
  BY <1>3, <1>5
<1> QED BY <1>1, <1>4, <1>6 DEF u

LEMMA ResponseAttributes ==
  ASSUME NEW code, SetHttpResponse(code) \in Attributes
  PROVE  /\ ValuesOf(SetHttpResponse(code), "repository.id") = {}
         /\ ValuesOf(SetHttpResponse(code), "http.result") = {HttpResult(code)}
<1>1. \A key, v : v \in ValuesOf(SetHttpResponse(code), key) <=> <<key, v>> \in SetHttpResponse(code)
  BY ValuesMember
<1> QED BY <1>1 DEF SetHttpResponse

LEMMA HttpSpans ==
  ASSUME NEW r, identity'[r] \in Names \union {None},
         status'[r] \in {204, 400, 401, 405, 413, 415, 503, None}
  PROVE  /\ HttpSpan(r) \in SpansBegun
         /\ HttpSpan(r).repository = IF status'[r] = None THEN None ELSE identity'[r]
         /\ ValuesOf(HttpSpan(r).attributes, "repository.id") = {}
         /\ status'[r] = None => HttpSpan(r).outcome = None
         /\ status'[r] # None =>
              /\ HttpSpan(r).outcome = HttpOutcome(status'[r])
              /\ ValuesOf(HttpSpan(r).attributes, "http.result") = {HttpResult(status'[r])}
<1> DEFINE A == IF status'[r] = None THEN {} ELSE SetHttpResponse(status'[r])
<1>1. A \in Attributes
  BY OtherAttributes
<1>2. \A code : HttpOutcome(code) \in SpanOutcomes
  BY DEF HttpOutcome, SpanOutcomes
<1>3. HttpSpan(r) \in SpansBegun
  BY <1>1, <1>2 DEF HttpSpan, SpansBegun, Attributes
<1>4. /\ HttpSpan(r).attributes = A
      /\ HttpSpan(r).repository = IF status'[r] = None THEN None ELSE identity'[r]
      /\ HttpSpan(r).outcome = IF status'[r] = None THEN None ELSE HttpOutcome(status'[r])
  BY DEF HttpSpan
<1>5. ValuesOf({}, "repository.id") = {}
  BY DEF ValuesOf
<1>6. status'[r] # None => SetHttpResponse(status'[r]) \in Attributes
  BY <1>1
<1>7. ValuesOf(A, "repository.id") = {}
  BY <1>5, <1>6, ResponseAttributes, Zenon
<1>8. status'[r] # None => ValuesOf(A, "http.result") = {HttpResult(status'[r])}
  BY <1>6, ResponseAttributes, Zenon
<1> QED BY <1>3, <1>4, <1>7, <1>8

-----------------------------------------------------------------------------
(* What holds of a request at every await.                                 *)

\* The counters of which a request has left labels.
Recorded(r) == {l.counter : l \in labels[r]}

FatalStages == {"authentication", "delivery_claim", "database"}
Statuses == {204, 400, 401, 405, 413, 415, 503}

ObservedTypes ==
  /\ named \in [Requests -> Names \union {None}]
  /\ identity \in [Requests -> Names \union {None}]
  /\ status \in [Requests -> Statuses \union {None}]
  /\ labels = [r \in Requests |-> labels[r]]
  /\ spans \in [Requests -> [Operations -> SpansBegun \union {None}]]

\* A label set is made from its counter and from what the request is.
LabelOf(r, l) ==
  /\ l = [counter |-> l.counter, repository |-> RepositoryLabel(identity[r]), values |-> l.values]
  /\ l.counter = "requests" => l.values = <<ResultOf(status[r])>>
  /\ l.counter \in FailureStages => l.values = <<l.counter>>
  /\ l.counter = "events" => l.values = EventLabels(RawOf[delivery[r]])
  /\ l.counter = "merge_group_events" =>
       l.values = MergeGroupLabels(MergeGroupTransition(RawOf[delivery[r]]))
  /\ l.counter = "queue_outcomes" => l.values = CompletionLabels(Completion(r))

LabelsTell(r) == \A l \in labels[r] : LabelOf(r, l)

\* Whose repository the spans show.
SpansTell(r) ==
  /\ Outcome(r, "authenticate") = "success" <=> identity[r] # None
  /\ identity[r] # None => identity[r] = named[r] /\ named[r] = Registered
  /\ \A o \in Operations : Values(r, o, "repository.id") \subseteq {identity[r]} \ {None}
  /\ \A o \in {"process", "update"} : Begins(r, o) => identity[r] # None /\ spans[r][o].repository = identity[r]
  /\ Begins(r, "http") =>
       spans[r]["http"].repository = IF status[r] = None THEN None ELSE identity[r]

\* What the update span says is what the counters say.
UpdateTells(r) ==
  LET raw == RawOf[delivery[r]]
  IN  /\ \A o \in {"process", "update"} : Begins(r, o) /\ "events" \in Recorded(r) =>
           /\ Values(r, o, "webhook.event_type") = {EventType(raw)}
           /\ Values(r, o, "webhook.action") = {Action(raw)}
      /\ Begins(r, "update") => "events" \in Recorded(r)
      /\ "merge_group_events" \in Recorded(r) <=> Values(r, "update", "queue.entity") = {"merge_group"}
      /\ "merge_group_events" \in Recorded(r) =>
           /\ Values(r, "update", "merge_group.action") = {MergeGroupTransition(raw).action}
           /\ Values(r, "update", "merge_group.reason") = {MergeGroupTransition(raw).reason}
      /\ "queue_outcomes" \in Recorded(r) =>
           /\ Values(r, "update", "queue.outcome") = {CompletionLabels(Completion(r))[1]}
           /\ Values(r, "update", "queue.reason") = {CompletionLabels(Completion(r))[2]}

\* Before the response.
Unanswered(r) ==
  pc[r] # "done" =>
    /\ "requests" \notin Recorded(r) /\ status[r] = None
    /\ Outcome(r, "http") = None /\ Outcome(r, "process") = None

AtAuthentication(r) ==
  /\ pc[r] = "unsent" =>
       /\ labels[r] = {} /\ identity[r] = None /\ \A o \in Operations : spans[r][o] = None
  /\ pc[r] = "authenticate" =>
       /\ labels[r] = {} /\ named[r] \in Names /\ identity[r] = None
       /\ Begins(r, "authenticate") /\ spans[r]["authenticate"].attributes = SetDeliveryId(delivery[r])
       /\ spans[r]["process"] = None /\ spans[r]["update"] = None
       /\ answer[r] = "ok" => named[r] = Registered

RecordedAt(call) ==
  CASE call = "claim" -> {}
    [] call \in {"get_run", "get_checks", "record_link"} -> {"events", "job_steps"}
    [] OTHER -> {"events"}

UpdateAt(r) ==
  CASE pc[r] = "enqueue" -> With(Processing(r), SetQueueEntity("pull_request"))
    [] pc[r] = "complete" -> With(Processing(r), SetQueueEntity("pull_request")
                                                  \union SetMergeQueueCompletion(Completion(r)))
    [] OTHER -> None

AtProcessing(r) ==
  pc[r] \in StoreCalls \ {"authenticate"} =>
    /\ identity[r] # None
    /\ Recorded(r) = RecordedAt(pc[r])
    /\ spans[r]["process"] = Processing(r)
    /\ spans[r]["update"] = UpdateAt(r)

AtStore(r) ==
  pc[r] \in StoreCalls /\ answer[r] # None =>
    /\ answer[r] \in {"new", "duplicate"} => pc[r] = "claim"
    /\ answer[r] = "completed" => pc[r] = "complete"
    /\ \E outcome \in {"success", "failure"} :
         /\ spans[r]["database"] = WithOutcome(DatabaseSpan(pc[r]), outcome)
         /\ answer[r] = "error" /\ pc[r] # "authenticate" => outcome = "failure"

Done(r) ==
  pc[r] = "done" =>
    /\ "requests" \in Recorded(r) /\ status[r] # None
    /\ Outcome(r, "http") = HttpOutcome(status[r])
    /\ Values(r, "http", "http.result") = {HttpResult(status[r])}
    /\ status[r] # 503 => Recorded(r) \intersect FatalStages = {}
    /\ status[r] = 503 => \E stage \in FatalStages :
         /\ Recorded(r) \intersect FatalStages = {stage}
         /\ Values(r, "database", "db.operation.name") \subseteq FatalCalls(stage)
         /\ stage # "authentication" => Outcome(r, "database") = "failure"
    /\ identity[r] # None =>
         /\ Outcome(r, "process") = "failure" <=> status[r] # 204
         /\ Outcome(r, "process") = "duplicate" <=> "duplicates" \in Recorded(r)
    /\ identity[r] = None => ~Begins(r, "process")
    /\ Outcome(r, "update") = "failure" <=> "queue_state" \in Recorded(r)
    /\ Values(r, "update", "operation.failure") # {} <=> "queue_state" \in Recorded(r)
    /\ "queue_outcomes" \in Recorded(r) => Outcome(r, "update") = "success"

\* A request of another method is answered before anything is done for it.
RouterAnswers(r) ==
  pc[r] = "done" /\ status[r] = 405 => \A o \in Operations \ {"http"} : ~Begins(r, o)

Story(r) ==
  /\ LabelsTell(r) /\ SpansTell(r) /\ UpdateTells(r)
  /\ Unanswered(r) /\ AtAuthentication(r) /\ AtProcessing(r) /\ AtStore(r) /\ Done(r)
  /\ RouterAnswers(r)

ObservationInv == ObservedTypes /\ \A r \in Requests : Story(r)

-----------------------------------------------------------------------------
(* Labels.                                                                 *)

LEMMA CounterNames ==
  /\ \A c \in Outcomes : c \notin FailureStages
  /\ \A c \in FailureStages \union Outcomes :
       c \notin {"requests", "events", "merge_group_events", "queue_outcomes",
                 "queue_transition_failures", "duplicates", "job_steps"}
BY DEF Outcomes, FailureStages

\* A counter is named by its label set; the outcomes are the results of one counter.
NameOf(c) == IF c \in Outcomes THEN "requests" ELSE c

LEMMA LabelSetTells ==
  ASSUME NEW r, NEW c \in Counters, NEW l, l = LabelSet(r, c), delivery'[r] = delivery[r],
         c \notin Outcomes => RepositoryLabel(identity'[r]) = RepositoryLabel(StageRepository(r, c))
  PROVE  LabelOf(r, l)' /\ l.counter = NameOf(c)
<1>0. Completion(r)' = Completion(r)
  BY DEF Completion, Event
<1>1. CASE c \in Outcomes
  <2>1. l = [counter |-> "requests", repository |-> RepositoryLabel(identity'[r]),
             values |-> <<ResultOf(status'[r])>>]
    BY <1>1, CounterNames DEF LabelSet
  <2>2. LabelOf(r, l)'
    BY <2>1, CounterNames DEF LabelOf, RepositoryLabel, FailureStages
  <2> QED BY <1>1, <2>1, <2>2 DEF NameOf
<1>2. CASE c \in FailureStages
  <2>1. l = [counter |-> c, repository |-> RepositoryLabel(StageRepository(r, c)), values |-> <<c>>]
    BY <1>2, CounterNames DEF LabelSet
  <2>2. LabelOf(r, l)'
    BY <1>2, <2>1, CounterNames DEF LabelOf, RepositoryLabel
  <2> QED BY <1>2, <2>1, <2>2, CounterNames DEF NameOf
<1>3. CASE c \notin Outcomes \union FailureStages
  <2>1. StageRepository(r, c) = named[r]
    BY <1>3 DEF StageRepository, FailureStages
  <2>2. \/ /\ c = "events"
           /\ l = [counter |-> c, repository |-> RepositoryLabel(named[r]),
                   values |-> EventLabels(RawOf[delivery[r]])]
        \/ /\ c = "merge_group_events"
           /\ l = [counter |-> c, repository |-> RepositoryLabel(named[r]),
                   values |-> MergeGroupLabels(MergeGroupTransition(RawOf[delivery[r]]))]
        \/ /\ c = "queue_outcomes"
           /\ l = [counter |-> c, repository |-> RepositoryLabel(named[r]),
                   values |-> CompletionLabels(Completion(r))]
        \/ /\ c \notin {"events", "merge_group_events", "queue_outcomes", "requests"}
           /\ l.counter = c
           /\ l = [counter |-> c, repository |-> RepositoryLabel(named[r]), values |-> l.values]
    BY <1>3 DEF LabelSet, Counters
  <2>3. LabelOf(r, l)'
    BY <1>0, <1>3, <2>1, <2>2 DEF LabelOf, RepositoryLabel
  <2> QED BY <1>3, <2>2, <2>3 DEF NameOf
<1> QED BY <1>1, <1>2, <1>3

\* The counters cs moved, and no other.
LEMMA CountMoves ==
  ASSUME metrics \in [Counters -> Nat], NEW cs \in SUBSET Counters,
         Count(cs) \/ (UNCHANGED metrics /\ cs = {})
  PROVE  {c \in Counters : metrics'[c] # metrics[c]} = cs
BY DEF Count

\* What a request has been told stays true of it while it keeps its name and has no response.
LEMMA LabelStays ==
  ASSUME NEW r, NEW l, LabelOf(r, l), l.counter # "requests",
         identity'[r] = identity[r], delivery'[r] = delivery[r]
  PROVE  LabelOf(r, l)'
BY DEF LabelOf, RepositoryLabel, Completion, Event

LEMMA LabelsNext ==
  ASSUME metrics \in [Counters -> Nat], NEW r \in Requests, labels = [q \in Requests |-> labels[q]],
         Label(r), NEW cs \in SUBSET Counters, Count(cs) \/ (UNCHANGED metrics /\ cs = {}),
         LabelsTell(r), "requests" \notin Recorded(r),
         labels[r] = {} \/ identity'[r] = identity[r],
         (labels[r] = {} /\ cs = {}) \/ delivery'[r] = delivery[r],
         \A c \in cs \ Outcomes : RepositoryLabel(identity'[r]) = RepositoryLabel(StageRepository(r, c))
  PROVE  /\ LabelsTell(r)'
         /\ Recorded(r)' = Recorded(r) \union {NameOf(c) : c \in cs}
         /\ \A q \in Requests : q # r => labels'[q] = labels[q]
         /\ labels' = [q \in Requests |-> labels'[q]]
<1>1. labels' = [labels EXCEPT ![r] = @ \union {LabelSet(r, c) : c \in cs}]
  BY CountMoves, Zenon DEF Label
<1>2. /\ labels'[r] = labels[r] \union {LabelSet(r, c) : c \in cs}
      /\ \A q \in Requests : q # r => labels'[q] = labels[q]
      /\ labels' = [q \in Requests |-> labels'[q]]
  BY <1>1
<1>3. ASSUME NEW l \in labels[r] PROVE LabelOf(r, l)'
  BY <1>3, LabelStays DEF LabelsTell, Recorded
<1>4. ASSUME NEW c \in cs PROVE \A l : l = LabelSet(r, c) => LabelOf(r, l)' /\ l.counter = NameOf(c)
  BY <1>4, LabelSetTells
<1>5. LabelsTell(r)'
  BY <1>2, <1>3, <1>4 DEF LabelsTell
<1>6. Recorded(r)' = Recorded(r) \union {NameOf(c) : c \in cs}
  BY <1>2, <1>4 DEF Recorded
<1> QED BY <1>2, <1>5, <1>6

-----------------------------------------------------------------------------
(* Requests that a step leaves alone.                                      *)

Same(q) ==
  /\ named'[q] = named[q] /\ identity'[q] = identity[q] /\ status'[q] = status[q]
  /\ labels'[q] = labels[q] /\ spans'[q] = spans[q] /\ delivery'[q] = delivery[q]

LEMMA SameReadings ==
  ASSUME NEW q, Same(q)
  PROVE  /\ \A o, key : Values(q, o, key)' = Values(q, o, key)
         /\ \A o : Outcome(q, o)' = Outcome(q, o) /\ Begins(q, o)' = Begins(q, o)
         /\ Recorded(q)' = Recorded(q) /\ Processing(q)' = Processing(q)
         /\ Completion(q)' = Completion(q)
         /\ \A l : LabelOf(q, l)' = LabelOf(q, l)
<1>1. \A o : Begins(q, o)' = Begins(q, o)
  BY DEF Same, Begins
<1>2. \A o : Outcome(q, o)' = Outcome(q, o)
  BY <1>1 DEF Same, Outcome
<1>3. \A o, key : Values(q, o, key)' = Values(q, o, key)
  BY <1>1, Zenon DEF Same, Values
<1>4. Recorded(q)' = Recorded(q)
  BY DEF Same, Recorded
<1>5. Processing(q)' = Processing(q)
  BY DEF Same, Processing
<1>6. Completion(q)' = Completion(q)
  BY DEF Same, Completion, Event
<1>7. \A l : LabelOf(q, l)' = LabelOf(q, l)
  BY <1>6, Zenon DEF Same, LabelOf
<1> QED BY <1>1, <1>2, <1>3, <1>4, <1>5, <1>6, <1>7

LEMMA StoryStays ==
  ASSUME NEW q, Story(q), Same(q),
         \/ pc'[q] = pc[q] /\ (pc[q] \in StoreCalls => answer'[q] = answer[q])
         \/ pc'[q] = "dropped" /\ pc[q] \in StoreCalls
  PROVE  Story(q)'
<1>s. \A call \in StoreCalls : call # "done" /\ call # "dropped" /\ call # "unsent"
  BY DEF StoreCalls
<1>1. LabelsTell(q)'
  BY SameReadings DEF Story, LabelsTell, Same
<1>2. SpansTell(q)'
  BY SameReadings, Zenon DEF Story, SpansTell, Same
<1>3. UpdateTells(q)'
  <2>1. /\ Recorded(q)' = Recorded(q) /\ Completion(q)' = Completion(q) /\ delivery'[q] = delivery[q]
        /\ \A o : Begins(q, o)' = Begins(q, o)
        /\ \A o, key : Values(q, o, key)' = Values(q, o, key)
    BY SameReadings DEF Same
  <2>2. UpdateTells(q)
    BY DEF Story
  <2> QED BY <2>1, <2>2, SMT DEF UpdateTells
<1>4. Unanswered(q)'
  BY SameReadings, <1>s DEF Story, Unanswered, Same
<1>5. AtAuthentication(q)'
  <2>1. pc'[q] \in {"unsent", "authenticate"} => pc[q] = pc'[q]
    OBVIOUS
  <2>2. pc'[q] = "authenticate" => answer'[q] = answer[q]
    BY DEF StoreCalls
  <2>3. /\ Begins(q, "authenticate")' = Begins(q, "authenticate") /\ AtAuthentication(q)
        /\ named'[q] = named[q] /\ identity'[q] = identity[q] /\ labels'[q] = labels[q]
        /\ spans'[q] = spans[q] /\ delivery'[q] = delivery[q]
    BY SameReadings DEF Story, Same
  <2> QED BY <2>1, <2>2, <2>3, SMT DEF AtAuthentication
<1>6. AtProcessing(q)'
  <2>1. pc'[q] = pc[q] => UpdateAt(q)' = UpdateAt(q)
    BY SameReadings DEF UpdateAt
  <2> QED BY <2>1, SameReadings, <1>s DEF Story, AtProcessing, Same
<1>7. AtStore(q)'
  BY <1>s DEF Story, AtStore, Same
<1>8. Done(q)'
  <2>1. pc'[q] = "done" => pc[q] = "done"
    OBVIOUS
  <2>2. /\ Recorded(q)' = Recorded(q)
        /\ Outcome(q, "http")' = Outcome(q, "http") /\ Outcome(q, "process")' = Outcome(q, "process")
        /\ Outcome(q, "update")' = Outcome(q, "update") /\ Begins(q, "process")' = Begins(q, "process")
        /\ Outcome(q, "database")' = Outcome(q, "database")
        /\ Values(q, "http", "http.result")' = Values(q, "http", "http.result")
        /\ Values(q, "update", "operation.failure")' = Values(q, "update", "operation.failure")
        /\ Values(q, "database", "db.operation.name")' = Values(q, "database", "db.operation.name")
    BY SameReadings
  <2>3. Done(q) /\ status'[q] = status[q] /\ identity'[q] = identity[q]
    BY DEF Story, Same
  <2> QED BY <2>1, <2>2, <2>3, SMT DEF Done
<1>9. RouterAnswers(q)'
  <2>1. /\ \A o : Begins(q, o)' = Begins(q, o)
        /\ status'[q] = status[q] /\ RouterAnswers(q)
        /\ pc'[q] = "done" => pc[q] = "done"
    BY SameReadings DEF Story, Same
  <2> QED BY <2>1, Zenon DEF RouterAnswers
<1> QED BY <1>1, <1>2, <1>3, <1>4, <1>5, <1>6, <1>7, <1>8, <1>9 DEF Story

-----------------------------------------------------------------------------
(* Statuses.                                                               *)

LEMMA ErrorStatuses ==
  /\ StatusOf(None) = 204 /\ StatusOf("invalid_webhook") = 400 /\ StatusOf("unauthorized") = 401
  /\ StatusOf("payload_too_large") = 413 /\ StatusOf("unsupported_media_type") = 415
  /\ StatusOf("service_unavailable") = 503 /\ StatusOf("method_not_allowed") = 405
BY NothingAssumption DEF StatusOf, AppErrors

LEMMA HttpReadings ==
  /\ HttpOutcome(204) = "success" /\ HttpResult(204) = "success"
  /\ \A code \in {400, 401, 405, 413, 415} : HttpOutcome(code) = "failure" /\ HttpResult(code) = "client_error"
  /\ HttpOutcome(503) = "failure" /\ HttpResult(503) = "server_error"
BY DEF HttpOutcome, HttpResult

\* No status is None.
LEMMA StatusIsSomething == \A code \in Statuses : code # None
BY ConstantsAssumption DEF Statuses

LEMMA OutcomeStatus ==
  ASSUME NEW r, StatusNext(r), r \in DOMAIN status, Responds(r), response'[r] \in Outcomes
  PROVE  /\ Failure(r) \in AppErrors \union {None}
         /\ Failure(r) = None <=> response'[r] = "accepted"
         /\ status'[r] \in Statuses /\ status'[r] # 405
         /\ response'[r] = "accepted" => status'[r] = 204
         /\ response'[r] = "malformed" => status'[r] = 400
         /\ response'[r] = "unauthorized" => status'[r] = 401
         /\ response'[r] = "unavailable" => status'[r] = 503
<1>1. status'[r] = StatusOf(Failure(r))
  BY DEF StatusNext
<1>2. /\ response'[r] = "accepted" => Failure(r) = None
      /\ response'[r] = "malformed" => Failure(r) = "invalid_webhook"
      /\ response'[r] = "unauthorized" => Failure(r) = "unauthorized"
      /\ response'[r] = "unavailable" => Failure(r) = "service_unavailable"
  BY DEF Failure
<1>3. response'[r] \in {"accepted", "malformed", "unauthorized", "unavailable"}
  BY DEF Outcomes
<1>4. \A e \in AppErrors : e # None
  BY NothingAssumption
<1>5. /\ Failure(r) \in AppErrors \union {None}
      /\ Failure(r) = None <=> response'[r] = "accepted"
  BY <1>2, <1>3, <1>4 DEF AppErrors
<1>6. /\ response'[r] = "accepted" => status'[r] = 204
      /\ response'[r] = "malformed" => status'[r] = 400
      /\ response'[r] = "unauthorized" => status'[r] = 401
      /\ response'[r] = "unavailable" => status'[r] = 503
  BY <1>1, <1>2, ErrorStatuses
<1>7. status'[r] \in Statuses /\ status'[r] # 405
  BY <1>3, <1>6 DEF Statuses
<1> QED BY <1>5, <1>6, <1>7

\* What StatusNext leaves: a status exactly for a response.
LEMMA StatusMoves ==
  ASSUME ObservedTypes, NEW r \in Requests, StatusNext(r),
         Responds(r) => response'[r] \in Outcomes
  PROVE  /\ status' \in [Requests -> Statuses \union {None}]
         /\ \A q \in Requests : q # r => status'[q] = status[q]
         /\ ~Responds(r) => status'[r] = None
         /\ Responds(r) => status'[r] \in Statuses /\ status'[r] # None /\ status'[r] # 405
<1>1. status' = [status EXCEPT ![r] = status'[r]] /\ r \in DOMAIN status
  BY DEF StatusNext, ObservedTypes
<1>2. ~Responds(r) => status'[r] = None
  BY DEF StatusNext, ObservedTypes
<1>3. Responds(r) => status'[r] \in Statuses /\ status'[r] # 405
  BY <1>1, OutcomeStatus
<1>4. status' \in [Requests -> Statuses \union {None}]
  BY <1>1, <1>2, <1>3 DEF ObservedTypes
<1> QED BY <1>1, <1>2, <1>3, <1>4, StatusIsSomething DEF ObservedTypes

-----------------------------------------------------------------------------
(* The steps of a request after its authentication.                        *)

LEMMA ProcessedSpans ==
  ASSUME ObservedTypes, NEW r \in Requests, ProcessedObserved(r)
  PROVE  /\ spans'[r]["process"] = ProcessSpan(r, spans[r]["process"])
         /\ spans'[r]["update"] = UpdateSpan(r, spans[r]["update"])
         /\ spans'[r]["database"] = IF Responds(r) THEN spans[r]["database"] ELSE DatabaseSpan(pc'[r])
         /\ spans'[r]["http"] = HttpSpan(r)
         /\ spans'[r]["authenticate"] = spans[r]["authenticate"]
         /\ \A q \in Requests : q # r => spans'[q] = spans[q]
         /\ (\A o \in Operations : spans'[r][o] \in SpansBegun \union {None})
              => spans' \in [Requests -> [Operations -> SpansBegun \union {None}]]
<1>1. /\ spans' = [spans EXCEPT
           ![r]["process"] = ProcessSpan(r, @),
           ![r]["update"] = UpdateSpan(r, @),
           ![r]["database"] = IF Responds(r) THEN @ ELSE DatabaseSpan(pc'[r]),
           ![r]["http"] = HttpSpan(r)]
      /\ spans \in [Requests -> [Operations -> SpansBegun \union {None}]]
  BY DEF ProcessedObserved, ObservedTypes
<1> QED BY <1>1 DEF Operations

\* What the span of an update has to say about the counters C.
UpdateFits(r, u, C) ==
  LET raw == RawOf[delivery[r]]
  IN  /\ u \in SpansBegun \union {None}
      /\ u # None =>
           /\ u.repository = named[r] /\ "events" \in C
           /\ ValuesOf(u.attributes, "repository.id") = {named[r]}
           /\ ValuesOf(u.attributes, "webhook.event_type") = {EventType(raw)}
           /\ ValuesOf(u.attributes, "webhook.action") = {Action(raw)}
      /\ "merge_group_events" \in C <=> (u # None /\ ValuesOf(u.attributes, "queue.entity") = {"merge_group"})
      /\ "merge_group_events" \in C =>
           /\ u # None
           /\ ValuesOf(u.attributes, "merge_group.action") = {MergeGroupTransition(raw).action}
           /\ ValuesOf(u.attributes, "merge_group.reason") = {MergeGroupTransition(raw).reason}
      /\ "queue_outcomes" \in C =>
           /\ u # None
           /\ ValuesOf(u.attributes, "queue.outcome") = {CompletionLabels(Completion(r))[1]}
           /\ ValuesOf(u.attributes, "queue.reason") = {CompletionLabels(Completion(r))[2]}

Processes(r) == pc[r] \in StoreCalls \ {"authenticate"}

\* A request in processing is about the registered repository.
LEMMA ProcessesKnown ==
  ASSUME TypeInv, ObservationInv, NEW r \in Requests, Processes(r)
  PROVE  /\ identity[r] = named[r] /\ named[r] \in Names /\ named[r] # None
         /\ delivery[r] \in Deliveries
         /\ spans[r]["process"] = Processing(r) /\ Recorded(r) = RecordedAt(pc[r])
         /\ "requests" \notin Recorded(r)
         /\ Outcome(r, "authenticate") = "success"
<1>1. Story(r)
  BY DEF ObservationInv
<1>2. identity[r] # None /\ Recorded(r) = RecordedAt(pc[r]) /\ spans[r]["process"] = Processing(r)
  BY <1>1 DEF Processes, Story, AtProcessing
<1>3. identity[r] = named[r] /\ named[r] = Registered /\ Outcome(r, "authenticate") = "success"
  BY <1>1, <1>2 DEF Story, SpansTell
<1>4. delivery[r] \in Deliveries
  BY DEF TypeInv, Carries, InFlight, Processes
<1>5. "requests" \notin Recorded(r)
  BY <1>1 DEF Story, Unanswered, Processes, StoreCalls
<1> QED BY <1>2, <1>3, <1>4, <1>5, ObservationAssumption

\* The span of the whole processing says whose event it is, whatever its outcome.
LEMMA ProcessSpans ==
  ASSUME NEW r, named[r] \in Names, delivery[r] \in Deliveries,
         Responds(r) => Failure(r) \in AppErrors \union {None}
  PROVE  LET s == ProcessSpan(r, Processing(r))
         IN  /\ s \in SpansBegun /\ s.repository = named[r]
             /\ s.attributes = Processing(r).attributes
             /\ ~Responds(r) => s = Processing(r)
             /\ Responds(r) => s.outcome = IF Failure(r) # None THEN "failure"
                                           ELSE IF answer[r] = "duplicate" THEN "duplicate" ELSE "success"
<1> DEFINE o == IF Failure(r) # None THEN "failure"
                ELSE IF answer[r] = "duplicate" THEN "duplicate" ELSE "success"
<1>1. o \in SpanOutcomes \union {None}
  BY DEF SpanOutcomes
<1>2. Processing(r) \in SpansBegun /\ Processing(r).repository = named[r]
  BY ProcessingSpan
<1>3. Responds(r) => ProcessSpan(r, Processing(r)) = WithOutcome(Processing(r), o)
  BY DEF ProcessSpan
<1>4. ~Responds(r) => ProcessSpan(r, Processing(r)) = Processing(r)
  BY DEF ProcessSpan
<1> QED BY <1>1, <1>2, <1>3, <1>4, SpanWithOutcome

\* The readings of the next state.
LEMMA NextReadings ==
  ASSUME NEW r
  PROVE  /\ \A o, key : Values(r, o, key)' =
              IF spans'[r][o] = None THEN {} ELSE ValuesOf(spans'[r][o].attributes, key)
         /\ \A o : Begins(r, o)' <=> spans'[r][o] # None
         /\ \A o : Outcome(r, o)' = IF spans'[r][o] = None THEN None ELSE spans'[r][o].outcome
BY DEF Values, Begins, Outcome, ValuesOf

LEMMA Processed ==
  ASSUME TypeInv, ObservationInv, NEW r \in Requests, ProcessedObserved(r), Processes(r),
         Responds(r) => response'[r] \in Outcomes, ~Responds(r) => pc'[r] \in StoreCalls,
         NEW cs \in SUBSET Counters, Count(cs) \/ (UNCHANGED metrics /\ cs = {}),
         "authentication" \notin cs,
         NEW u, u = UpdateSpan(r, spans[r]["update"]),
         NEW C, C = Recorded(r) \union {NameOf(c) : c \in cs}, UpdateFits(r, u, C)
  PROVE  /\ ObservedTypes' /\ LabelsTell(r)' /\ SpansTell(r)' /\ UpdateTells(r)' /\ Recorded(r)' = C
         /\ \A q \in Requests : q # r => Same(q)
         /\ spans'[r]["update"] = u
<1>1. Story(r) /\ ObservedTypes
  BY DEF ObservationInv
<1>2. /\ UNCHANGED <<named, identity, delivery>> /\ StatusNext(r) /\ Label(r)
  BY HandlerMoves DEF ProcessedObserved
<1>3. /\ identity[r] = named[r] /\ named[r] \in Names /\ named[r] # None
      /\ delivery[r] \in Deliveries /\ spans[r]["process"] = Processing(r)
      /\ "requests" \notin Recorded(r) /\ Outcome(r, "authenticate") = "success"
  BY ProcessesKnown
<1>4. /\ status' \in [Requests -> Statuses \union {None}]
      /\ \A q \in Requests : q # r => status'[q] = status[q]
      /\ ~Responds(r) => status'[r] = None
      /\ Responds(r) => status'[r] # None
  BY <1>1, <1>2, StatusMoves
<1>5. /\ LabelsTell(r)' /\ Recorded(r)' = C
      /\ \A q \in Requests : q # r => labels'[q] = labels[q]
      /\ labels' = [q \in Requests |-> labels'[q]]
  <2>1. \A c \in cs \ Outcomes : StageRepository(r, c) = named[r]
    BY DEF StageRepository
  <2>2. metrics \in [Counters -> Nat] /\ labels = [q \in Requests |-> labels[q]] /\ LabelsTell(r)
    BY <1>1 DEF TypeInv, TypeOK, ObservedTypes, Story
  <2> QED BY <1>2, <1>3, <2>1, <2>2, LabelsNext
<1>6. Responds(r) => Failure(r) \in AppErrors \union {None}
  BY <1>1, <1>2, OutcomeStatus DEF ObservedTypes
<1> DEFINE p == ProcessSpan(r, Processing(r))
<1>7. /\ p \in SpansBegun /\ p.repository = named[r] /\ p.attributes = Processing(r).attributes
  BY <1>3, <1>6, ProcessSpans
<1>8. /\ ValuesOf(p.attributes, "repository.id") = {named[r]}
      /\ ValuesOf(p.attributes, "webhook.event_type") = {EventType(RawOf[delivery[r]])}
      /\ ValuesOf(p.attributes, "webhook.action") = {Action(RawOf[delivery[r]])}
  BY <1>3, <1>7, ProcessingSpan
<1> HIDE DEF p
<1>9. /\ HttpSpan(r) \in SpansBegun
      /\ HttpSpan(r).repository = IF status'[r] = None THEN None ELSE identity'[r]
      /\ ValuesOf(HttpSpan(r).attributes, "repository.id") = {}
  <2>1. identity'[r] \in Names \union {None} /\ status'[r] \in {204, 400, 401, 405, 413, 415, 503, None}
    BY <1>2, <1>3, <1>4 DEF Statuses
  <2> QED BY <2>1, HttpSpans
<1>10. /\ spans'[r]["process"] = p /\ spans'[r]["update"] = u
       /\ spans'[r]["database"] = IF Responds(r) THEN spans[r]["database"] ELSE DatabaseSpan(pc'[r])
       /\ spans'[r]["http"] = HttpSpan(r)
       /\ spans'[r]["authenticate"] = spans[r]["authenticate"]
       /\ \A q \in Requests : q # r => spans'[q] = spans[q]
       /\ (\A o \in Operations : spans'[r][o] \in SpansBegun \union {None})
            => spans' \in [Requests -> [Operations -> SpansBegun \union {None}]]
  BY <1>1, <1>3, ProcessedSpans DEF p
<1>11. spans'[r]["database"] \in SpansBegun \union {None}
  BY <1>1, <1>10, DatabaseBegins DEF ObservedTypes, Operations
<1>12. \A o \in Operations : spans'[r][o] \in SpansBegun \union {None}
  BY <1>1, <1>7, <1>9, <1>10, <1>11 DEF ObservedTypes, Operations, UpdateFits
<1>13. ObservedTypes'
  BY <1>1, <1>2, <1>4, <1>5, <1>10, <1>12 DEF ObservedTypes
<1>14. \A q \in Requests : q # r => Same(q)
  BY <1>2, <1>4, <1>5, <1>10 DEF Same
<1>15. SpansTell(r)'
  <2>1. Outcome(r, "authenticate")' = Outcome(r, "authenticate")
    BY <1>10 DEF Outcome, Begins
  <2>2. ASSUME NEW o \in Operations PROVE Values(r, o, "repository.id")' \subseteq {named[r]}
    <3>1. CASE o = "authenticate"
      <4>1. Values(r, o, "repository.id")' = Values(r, o, "repository.id")
        BY <1>10, <3>1 DEF Values, Begins
      <4> QED BY <1>1, <1>3, <4>1 DEF Story, SpansTell
    <3>2. CASE o = "process"
      BY <1>8, <1>10, <3>2, NextReadings
    <3>3. CASE o = "update"
      BY <1>10, <3>3, NextReadings DEF UpdateFits
    <3>4. CASE o = "database" /\ Responds(r)
      <4>1. Values(r, o, "repository.id")' = Values(r, o, "repository.id")
        BY <1>10, <3>4 DEF Values, Begins
      <4> QED BY <1>1, <1>3, <4>1 DEF Story, SpansTell
    <3>5. CASE o = "database" /\ ~Responds(r)
      BY <1>10, <3>5, NextReadings, DatabaseBegins
    <3>6. CASE o = "http"
      BY <1>9, <1>10, <3>6, NextReadings
    <3> QED BY <3>1, <3>2, <3>3, <3>4, <3>5, <3>6 DEF Operations
  <2>3. Begins(r, "process")' => spans'[r]["process"].repository = named[r]
    BY <1>7, <1>10
  <2>4. Begins(r, "update")' => spans'[r]["update"].repository = named[r]
    BY <1>10, NextReadings DEF UpdateFits
  <2>5. Registered = named[r]
    BY <1>1, <1>3 DEF Story, SpansTell
  <2> QED BY <1>2, <1>3, <1>9, <1>10, <2>1, <2>2, <2>3, <2>4, <2>5 DEF SpansTell
<1>16. UpdateTells(r)'
  <2>1. \A key : Values(r, "process", key)' = ValuesOf(p.attributes, key)
    BY <1>7, <1>10, NextReadings, BegunIsSomething
  <2>2. \A key : Values(r, "update", key)' = IF u = None THEN {} ELSE ValuesOf(u.attributes, key)
    BY <1>10, NextReadings
  <2>3. Begins(r, "update")' <=> u # None
    BY <1>10, NextReadings
  <2>4. Completion(r)' = Completion(r) /\ delivery'[r] = delivery[r]
    BY <1>2 DEF Completion, Event
  <2> QED BY <1>5, <1>8, <2>1, <2>2, <2>3, <2>4, SMT DEF UpdateTells, UpdateFits
<1> QED BY <1>5, <1>10, <1>13, <1>14, <1>15, <1>16

LEMMA RecordedBefore ==
  ASSUME NEW call
  PROVE  /\ RecordedAt(call) \subseteq {"events", "job_steps"}
         /\ call # "claim" => "events" \in RecordedAt(call)
BY DEF RecordedAt

\* The handler goes on to another store call.
LEMMA ProcessedCalls ==
  ASSUME TypeInv, ObservationInv, NEW r \in Requests, ProcessedObserved(r), Processes(r),
         NEW call \in StoreCalls \ {"authenticate", "claim"}, Call(r, call),
         NEW cs \in SUBSET {"events", "job_steps"}, Count(cs) \/ (UNCHANGED metrics /\ cs = {}),
         Recorded(r) \union cs = RecordedAt(call),
         pc[r] \notin {"enqueue", "complete"}, ~(answer[r] = "new" /\ Event(r) = "merge_group")
  PROVE  ObservedTypes' /\ Story(r)' /\ \A q \in Requests : q # r => Same(q)
<1>1. /\ pc'[r] = call /\ answer'[r] = None /\ ~Responds(r)
  BY DEF Call, TypeInv, TypeOK, Responds, StoreCalls
<1>2. /\ identity[r] = named[r] /\ named[r] \in Names /\ named[r] # None /\ delivery[r] \in Deliveries
      /\ spans[r]["process"] = Processing(r)
  BY ProcessesKnown
<1>3. Story(r) /\ ObservedTypes
  BY DEF ObservationInv
<1>4. spans[r]["update"] = None
  BY <1>3 DEF Story, AtProcessing, Processes, UpdateAt
<1>5. UNCHANGED <<named, identity, delivery>> /\ StatusNext(r)
  BY HandlerMoves DEF ProcessedObserved
<1>6. Processing(r)' = Processing(r) /\ Completion(r)' = Completion(r)
  BY <1>5 DEF Processing, Completion, Event
<1>7. UpdateSpan(r, spans[r]["update"]) = UpdateAt(r)'
  <2>1. /\ call = "enqueue" => UpdateAt(r)' = With(Processing(r), SetQueueEntity("pull_request"))
        /\ call = "complete" =>
             UpdateAt(r)' = With(Processing(r), SetQueueEntity("pull_request")
                                                  \union SetMergeQueueCompletion(Completion(r)))
        /\ call \notin {"enqueue", "complete"} => UpdateAt(r)' = None
    BY <1>1, <1>6, Zenon DEF UpdateAt
  <2>2. /\ Suspends(r, "enqueue") <=> call = "enqueue"
        /\ Suspends(r, "complete") <=> call = "complete"
    BY <1>1 DEF Suspends
  <2>3. /\ call = "enqueue" => UpdateSpan(r, spans[r]["update"]) = With(Processing(r), SetQueueEntity("pull_request"))
        /\ call = "complete" =>
             UpdateSpan(r, spans[r]["update"]) = With(Processing(r), SetQueueEntity("pull_request")
                                                  \union SetMergeQueueCompletion(Completion(r)))
        /\ call \notin {"enqueue", "complete"} => UpdateSpan(r, spans[r]["update"]) = None
    BY <1>4, <2>2 DEF UpdateSpan
  <2> QED BY <2>1, <2>3
<1>8. \A c \in cs : NameOf(c) = c /\ c \in Counters /\ c # "authentication"
  BY DEF NameOf, Outcomes, Counters
<1>9. RecordedAt(call) = Recorded(r) \union {NameOf(c) : c \in cs}
  BY <1>8
<1>10. "events" \in RecordedAt(call) /\ RecordedAt(call) \subseteq {"events", "job_steps"}
  BY RecordedBefore
<1>11. ASSUME NEW u, u = UpdateSpan(r, spans[r]["update"]) PROVE UpdateFits(r, u, RecordedAt(call))
  <2>1. u = None \/ UpdateOf(r, "pull_request", u)
    <3>1. /\ UpdateOf(r, "pull_request", With(Processing(r), SetQueueEntity("pull_request")))
          /\ UpdateOf(r, "pull_request", With(Processing(r), SetQueueEntity("pull_request")
                                            \union SetMergeQueueCompletion(Completion(r))))
      BY <1>2, EnqueueSpan, CompletionSpan, Zenon
    <3>2. \/ u = None
          \/ u = With(Processing(r), SetQueueEntity("pull_request"))
          \/ u = With(Processing(r), SetQueueEntity("pull_request")
                                            \union SetMergeQueueCompletion(Completion(r)))
      BY <1>4, <1>11, <1>1 DEF UpdateSpan, Suspends
    <3> QED BY <3>1, <3>2, Zenon
  <2> QED BY <1>10, <2>1 DEF UpdateFits, UpdateOf
<1>12. /\ ObservedTypes' /\ LabelsTell(r)' /\ SpansTell(r)' /\ UpdateTells(r)'
       /\ Recorded(r)' = RecordedAt(call)
       /\ \A q \in Requests : q # r => Same(q)
       /\ spans'[r]["update"] = UpdateSpan(r, spans[r]["update"])
  BY <1>1, <1>8, <1>9, <1>11, Processed
<1>13. spans'[r]["process"] = Processing(r) /\ spans'[r]["http"] = HttpSpan(r)
  BY <1>1, <1>2, <1>3, ProcessedSpans DEF ProcessSpan
<1>14. status'[r] = None
  BY <1>1, <1>3, <1>5, StatusMoves
<1>15. Unanswered(r)'
  <2>1. Outcome(r, "http")' = None
    BY <1>13, <1>14, NextReadings DEF HttpSpan
  <2>2. Outcome(r, "process")' = None
    BY <1>2, <1>13, NextReadings, ProcessingSpan
  <2> QED BY <1>10, <1>12, <1>14, <2>1, <2>2 DEF Unanswered
<1>16. AtProcessing(r)'
  BY <1>1, <1>2, <1>5, <1>6, <1>7, <1>12, <1>13 DEF AtProcessing
<1>17. AtStore(r)' /\ AtAuthentication(r)' /\ Done(r)' /\ RouterAnswers(r)'
  BY <1>1 DEF AtStore, AtAuthentication, Done, RouterAnswers, StoreCalls
<1> QED BY <1>12, <1>15, <1>16, <1>17 DEF Story

\* What the span of an update has to say of its end.
UpdateEnds(u, C) ==
  /\ (u # None /\ u.outcome = "failure") <=> "queue_state" \in C
  /\ (u # None /\ ValuesOf(u.attributes, "operation.failure") # {}) <=> "queue_state" \in C
  /\ "queue_outcomes" \in C => u # None /\ u.outcome = "success"

\* The handler answers.
LEMMA ProcessedEnds ==
  ASSUME TypeInv, ObservationInv, NEW r \in Requests, ProcessedObserved(r), Processes(r),
         NEW outcome \in {"accepted", "unavailable"}, NEW cs \in SUBSET (Counters \ Outcomes),
         Respond(r, outcome, cs), "authentication" \notin cs,
         NEW u, u = UpdateSpan(r, spans[r]["update"]),
         NEW C, C = Recorded(r) \union cs \union {"requests"}, UpdateFits(r, u, C), UpdateEnds(u, C),
         outcome = "accepted" => cs \intersect FatalStages = {},
         outcome = "unavailable" =>
           /\ answer[r] = "error"
           /\ \E stage \in {"delivery_claim", "database"} :
                cs \intersect FatalStages = {stage} /\ DatabaseOperation(pc[r]) \in FatalCalls(stage),
         answer[r] = "duplicate" <=> "duplicates" \in cs
  PROVE  ObservedTypes' /\ Story(r)' /\ \A q \in Requests : q # r => Same(q)
<1>1. /\ pc'[r] = "done" /\ Responds(r) /\ response'[r] = outcome /\ outcome \in Outcomes
      /\ Count(cs \union {outcome})
  BY DEF Respond, TypeInv, TypeOK, Responds, Outcomes
<1>2. /\ identity[r] = named[r] /\ named[r] \in Names /\ named[r] # None /\ delivery[r] \in Deliveries
      /\ spans[r]["process"] = Processing(r) /\ Recorded(r) = RecordedAt(pc[r])
  BY ProcessesKnown
<1>3. Story(r) /\ ObservedTypes
  BY DEF ObservationInv
<1>5. UNCHANGED <<named, identity, delivery>> /\ StatusNext(r) /\ InFlight(r) /\ answer[r] # None
  BY HandlerMoves DEF ProcessedObserved
<1>6. C = Recorded(r) \union {NameOf(c) : c \in cs \union {outcome}}
  <2>1. NameOf(outcome) = "requests" /\ \A c \in cs : NameOf(c) = c
    BY <1>1 DEF NameOf
  <2> QED BY <2>1
<1>7. cs \union {outcome} \in SUBSET Counters /\ "authentication" \notin cs \union {outcome}
  BY <1>1 DEF Counters
<1>8. /\ ObservedTypes' /\ LabelsTell(r)' /\ SpansTell(r)' /\ UpdateTells(r)'
      /\ Recorded(r)' = C
      /\ \A q \in Requests : q # r => Same(q)
      /\ spans'[r]["update"] = u
  BY <1>1, <1>6, <1>7, Processed
<1>9. /\ Failure(r) \in AppErrors \union {None}
      /\ Failure(r) = None <=> outcome = "accepted"
      /\ status'[r] \in Statuses /\ status'[r] # None /\ status'[r] # 405
      /\ outcome = "accepted" => status'[r] = 204
      /\ outcome = "unavailable" => status'[r] = 503
  BY <1>1, <1>3, <1>5, OutcomeStatus, StatusIsSomething DEF ObservedTypes
<1>10. /\ spans'[r]["process"] = ProcessSpan(r, Processing(r)) /\ spans'[r]["http"] = HttpSpan(r)
       /\ spans'[r]["database"] = spans[r]["database"]
  BY <1>1, <1>2, <1>3, ProcessedSpans
<1>11. Outcome(r, "http")' = HttpOutcome(status'[r]) /\ Values(r, "http", "http.result")' = {HttpResult(status'[r])}
  <2>1. identity'[r] \in Names \union {None} /\ status'[r] \in {204, 400, 401, 405, 413, 415, 503, None}
    BY <1>2, <1>5, <1>9 DEF Statuses
  <2>2. /\ HttpSpan(r) \in SpansBegun /\ HttpSpan(r).outcome = HttpOutcome(status'[r])
        /\ ValuesOf(HttpSpan(r).attributes, "http.result") = {HttpResult(status'[r])}
    BY <1>9, <2>1, HttpSpans
  <2> QED BY <1>10, <2>2, NextReadings, BegunIsSomething
<1>12. C \intersect FatalStages = cs \intersect FatalStages /\ ("duplicates" \in C <=> "duplicates" \in cs)
  BY <1>2, RecordedBefore DEF FatalStages
<1>13. ASSUME outcome = "unavailable"
       PROVE  /\ Outcome(r, "database")' = "failure"
              /\ Values(r, "database", "db.operation.name")' = {DatabaseOperation(pc[r])}
  <2>1. spans[r]["database"] = WithOutcome(DatabaseSpan(pc[r]), "failure")
    BY <1>3, <1>5, <1>13 DEF Story, AtStore, Processes
  <2>2. /\ DatabaseSpan(pc[r]) \in SpansBegun
        /\ ValuesOf(DatabaseSpan(pc[r]).attributes, "db.operation.name") = {DatabaseOperation(pc[r])}
    BY DatabaseBegins DEF Processes
  <2>3. /\ WithOutcome(DatabaseSpan(pc[r]), "failure") \in SpansBegun
        /\ WithOutcome(DatabaseSpan(pc[r]), "failure").outcome = "failure"
        /\ WithOutcome(DatabaseSpan(pc[r]), "failure").attributes = DatabaseSpan(pc[r]).attributes
    BY <2>2, SpanWithOutcome DEF SpanOutcomes
  <2> QED BY <1>10, <2>1, <2>2, <2>3, NextReadings, BegunIsSomething
<1>14. /\ Begins(r, "process")'
       /\ Outcome(r, "process")' = "failure" <=> outcome # "accepted"
       /\ Outcome(r, "process")' = "duplicate" <=> (answer[r] = "duplicate" /\ outcome = "accepted")
  <2>1. /\ ProcessSpan(r, Processing(r)) \in SpansBegun
        /\ ProcessSpan(r, Processing(r)).outcome =
             IF Failure(r) # None THEN "failure"
             ELSE IF answer[r] = "duplicate" THEN "duplicate" ELSE "success"
    BY <1>1, <1>2, <1>9, ProcessSpans
  <2> QED BY <1>9, <1>10, <2>1, NextReadings, BegunIsSomething
<1>15. /\ Outcome(r, "update")' = "failure" <=> "queue_state" \in C
       /\ Values(r, "update", "operation.failure")' # {} <=> "queue_state" \in C
       /\ "queue_outcomes" \in C => Outcome(r, "update")' = "success"
  <2>1. None # "failure" /\ None # "success"
    BY NothingAssumption DEF SpanOutcomes
  <2>2. /\ Outcome(r, "update")' = IF u = None THEN None ELSE u.outcome
        /\ Values(r, "update", "operation.failure")' =
             IF u = None THEN {} ELSE ValuesOf(u.attributes, "operation.failure")
    BY <1>8, NextReadings
  <2> QED BY <2>1, <2>2 DEF UpdateEnds
<1>16. outcome = "unavailable" => \E stage \in FatalStages :
         /\ C \intersect FatalStages = {stage}
         /\ Values(r, "database", "db.operation.name")' \subseteq FatalCalls(stage)
         /\ stage # "authentication" => Outcome(r, "database")' = "failure"
  BY <1>12, <1>13 DEF FatalStages
<1>17. /\ status'[r] = 204 <=> outcome = "accepted"
       /\ status'[r] = 503 <=> outcome = "unavailable"
  BY <1>9
<1>18. Done(r)'
  <2>1. "requests" \in C /\ identity'[r] # None
    BY <1>2, <1>5
  <2>2. status'[r] # 503 => C \intersect FatalStages = {}
    BY <1>12, <1>17
  <2>3. outcome = "unavailable" => answer[r] # "duplicate"
    OBVIOUS
  <2>4. Outcome(r, "process")' = "duplicate" <=> "duplicates" \in C
    BY <1>12, <1>14, <2>3
  <2> QED BY <1>8, <1>9, <1>11, <1>14, <1>15, <1>16, <1>17, <2>1, <2>2, <2>4 DEF Done
<1>19. Unanswered(r)' /\ AtAuthentication(r)' /\ AtProcessing(r)' /\ AtStore(r)'
  BY <1>1 DEF Unanswered, AtAuthentication, AtProcessing, AtStore, StoreCalls
<1>20. RouterAnswers(r)'
  BY <1>9 DEF RouterAnswers
<1> QED BY <1>8, <1>18, <1>19, <1>20 DEF Story

\* An answer that is not about the queue.
LEMMA EndsWithoutUpdate ==
  ASSUME TypeInv, ObservationInv, NEW r \in Requests, ProcessedObserved(r), Processes(r),
         NEW outcome \in {"accepted", "unavailable"}, NEW cs \in SUBSET (Counters \ Outcomes),
         Respond(r, outcome, cs),
         cs \intersect {"authentication", "merge_group_events", "queue_outcomes", "queue_state"} = {},
         pc[r] \notin {"enqueue", "complete"}, ~(answer[r] = "new" /\ Event(r) = "merge_group"),
         outcome = "accepted" => cs \intersect FatalStages = {},
         outcome = "unavailable" =>
           /\ answer[r] = "error"
           /\ \E stage \in {"delivery_claim", "database"} :
                cs \intersect FatalStages = {stage} /\ DatabaseOperation(pc[r]) \in FatalCalls(stage),
         answer[r] = "duplicate" <=> "duplicates" \in cs
  PROVE  ObservedTypes' /\ Story(r)' /\ \A q \in Requests : q # r => Same(q)
<1>1. pc'[r] = "done"
  BY DEF Respond, TypeInv, TypeOK
<1>2. spans[r]["update"] = None
  BY DEF ObservationInv, Story, AtProcessing, Processes, UpdateAt
<1>3. UpdateSpan(r, spans[r]["update"]) = None
  BY <1>1, <1>2 DEF UpdateSpan, Suspends
<1> DEFINE C == Recorded(r) \union cs \union {"requests"}
<1>4. C \intersect {"merge_group_events", "queue_outcomes", "queue_state"} = {}
  BY ProcessesKnown, RecordedBefore
<1>5. UpdateFits(r, None, C) /\ UpdateEnds(None, C)
  BY <1>4 DEF UpdateFits, UpdateEnds
<1> HIDE DEF C
<1>6. \A u : u = UpdateSpan(r, spans[r]["update"]) => UpdateFits(r, u, C) /\ UpdateEnds(u, C)
  BY <1>3, <1>5
<1>7. "authentication" \notin cs
  OBVIOUS
<1> QED BY <1>6, <1>7, ProcessedEnds DEF C

LEMMA ClaimedObserved ==
  ASSUME TypeInv, ObservationInv, NEW r \in Requests, ProcessedObserved(r), Claimed(r)
  PROVE  ObservedTypes' /\ Story(r)' /\ \A q \in Requests : q # r => Same(q)
<1>1. /\ Processes(r) /\ pc[r] = "claim" /\ pc[r] \notin {"enqueue", "complete"}
  BY DEF Claimed, Answered, Processes, StoreCalls
<1>2. /\ identity[r] = named[r] /\ named[r] \in Names /\ delivery[r] \in Deliveries
      /\ Recorded(r) = {}
  BY <1>1, ProcessesKnown DEF RecordedAt
<1>3. CASE answer[r] = "duplicate" /\ Respond(r, "accepted", {"duplicates"})
  <2>1. {"duplicates"} \in SUBSET (Counters \ Outcomes)
    BY DEF Counters, Outcomes
  <2>2. {"duplicates"} \intersect FatalStages = {}
    BY DEF FatalStages
  <2> QED BY <1>1, <1>3, <2>1, <2>2, EndsWithoutUpdate
<1>4. CASE answer[r] = "error" /\ Respond(r, "unavailable", {"delivery_claim"})
  <2>1. {"delivery_claim"} \in SUBSET (Counters \ Outcomes)
    BY DEF Counters, Outcomes, FailureStages
  <2>2. /\ {"delivery_claim"} \intersect FatalStages = {"delivery_claim"}
        /\ DatabaseOperation(pc[r]) \in FatalCalls("delivery_claim")
    BY <1>1 DEF FatalStages, DatabaseOperation, FatalCalls
  <2> QED BY <1>1, <1>4, <2>1, <2>2, EndsWithoutUpdate
<1>5. ASSUME answer[r] = "new", Event(r) # "merge_group", NEW cs \in SUBSET {"events", "job_steps"},
             NEW call \in StoreCalls \ {"authenticate", "claim"}, Call(r, call), Count(cs),
             cs = RecordedAt(call)
      PROVE  ObservedTypes' /\ Story(r)' /\ \A q \in Requests : q # r => Same(q)
  BY <1>1, <1>2, <1>5, ProcessedCalls
<1>6. ASSUME answer[r] = "new", Event(r) # "merge_group",
             NEW cs \in SUBSET {"events", "job_steps", "too_many_steps"}, Respond(r, "accepted", cs)
      PROVE  ObservedTypes' /\ Story(r)' /\ \A q \in Requests : q # r => Same(q)
  <2>1. cs \in SUBSET (Counters \ Outcomes)
    BY DEF Counters, Outcomes
  <2>2. /\ cs \intersect FatalStages = {} /\ "duplicates" \notin cs
        /\ cs \intersect {"authentication", "merge_group_events", "queue_outcomes", "queue_state"} = {}
    BY DEF FatalStages
  <2> QED BY <1>1, <1>6, <2>1, <2>2, EndsWithoutUpdate
<1>7. CASE answer[r] = "new" /\ Event(r) = "merge_group"
           /\ Respond(r, "accepted", {"events", "merge_group_events"})
  <2> DEFINE transition == MergeGroupTransition(RawOf[delivery[r]])
             m == With(Processing(r), SetQueueEntity("merge_group") \union SetMergeGroupTransition(transition))
             cs == {"events", "merge_group_events"}
             C == Recorded(r) \union cs \union {"requests"}
  <2>1. /\ UpdateOf(r, "merge_group", m)
        /\ ValuesOf(m.attributes, "merge_group.action") = {transition.action}
        /\ ValuesOf(m.attributes, "merge_group.reason") = {transition.reason}
    BY <1>2, MergeGroupSpan, Zenon
  <2>2. UpdateSpan(r, spans[r]["update"]) = WithOutcome(m, "success")
    <3>1. pc'[r] = "done"
      BY <1>7 DEF Respond, TypeInv, TypeOK
    <3> QED BY <1>1, <1>7, <3>1 DEF UpdateSpan, Suspends
  <2> HIDE DEF m, transition
  <2>3. /\ WithOutcome(m, "success") \in SpansBegun
        /\ WithOutcome(m, "success").outcome = "success"
        /\ WithOutcome(m, "success").repository = m.repository
        /\ WithOutcome(m, "success").attributes = m.attributes
    BY <2>1, SpanWithOutcome DEF UpdateOf, SpanOutcomes
  <2>4. /\ "events" \in C /\ "merge_group_events" \in C
        /\ "queue_outcomes" \notin C /\ "queue_state" \notin C
    BY <1>2
  <2>5. ASSUME NEW u, u = UpdateSpan(r, spans[r]["update"]) PROVE UpdateFits(r, u, C) /\ UpdateEnds(u, C)
    <3> HIDE DEF C
    <3>1. /\ u \in SpansBegun /\ u # None /\ u.outcome = "success" /\ u.repository = named[r]
          /\ u.attributes = m.attributes
      BY <2>1, <2>2, <2>3, <2>5, BegunIsSomething DEF UpdateOf
    <3>2. UpdateFits(r, u, C)
      BY <2>1, <2>4, <3>1 DEF UpdateFits, UpdateOf, transition
    <3>3. UpdateEnds(u, C)
      BY <2>1, <2>4, <3>1 DEF UpdateEnds, UpdateOf
    <3> QED BY <3>2, <3>3
  <2>6. cs \in SUBSET (Counters \ Outcomes)
    BY DEF Counters, Outcomes
  <2>7. cs \intersect FatalStages = {} /\ "duplicates" \notin cs /\ "authentication" \notin cs
    BY DEF FatalStages
  <2>8. Respond(r, "accepted", cs) /\ answer[r] # "duplicate"
    BY <1>7
  <2> HIDE DEF cs
  <2> QED BY <1>1, <2>5, <2>6, <2>7, <2>8, ProcessedEnds
<1>8. CASE answer[r] = "new" /\ Dispatch(r)
  <2>1. CASE Event(r) \in RunEvents
    <3>1. Call(r, "upsert_run") /\ Count({"events"}) /\ Event(r) # "merge_group"
      BY <1>8, <2>1 DEF Dispatch, AdmitJob, RunEvents, CompletionEvents
    <3> QED BY <1>5, <1>8, <3>1 DEF RecordedAt, StoreCalls
  <2>2. CASE AdmitJob(r)
    <3>1. CASE Event(r) = "job_oversized" /\ Respond(r, "accepted", {"events", "job_steps", "too_many_steps"})
      BY <1>6, <1>8, <3>1
    <3>2. CASE Event(r) = "job_completed" /\ Call(r, "get_run") /\ Count({"events", "job_steps"})
      BY <1>5, <1>8, <3>2 DEF RecordedAt, StoreCalls
    <3> QED BY <2>2, <3>1, <3>2 DEF AdmitJob
  <2>3. CASE Event(r) = "pr_enqueued" /\ Call(r, "enqueue") /\ Count({"events"})
    BY <1>5, <1>8, <2>3 DEF RecordedAt, StoreCalls
  <2>4. CASE Event(r) \in CompletionEvents /\ Call(r, "complete") /\ Count({"events"})
    BY <1>5, <1>8, <2>4 DEF RecordedAt, StoreCalls, CompletionEvents
  <2>5. CASE Event(r) = "merge_group" /\ Respond(r, "accepted", {"events", "merge_group_events"})
    BY <1>7, <1>8, <2>5
  <2>6. CASE Event(r) = "other" /\ Respond(r, "accepted", {"events"})
    BY <1>6, <1>8, <2>6
  <2> QED BY <1>8, <2>1, <2>2, <2>3, <2>4, <2>5, <2>6 DEF Dispatch
<1> QED BY <1>3, <1>4, <1>8 DEF Claimed

LEMMA LinkedJobsObserved ==
  ASSUME TypeInv, ObservationInv, NEW r \in Requests, ProcessedObserved(r),
         RunUpserted(r) \/ LinksListed(r) \/ RunRead(r) \/ ChecksRead(r) \/ LinkRecorded(r)
  PROVE  ObservedTypes' /\ Story(r)' /\ \A q \in Requests : q # r => Same(q)
<1>1. /\ Processes(r) /\ pc[r] \notin {"enqueue", "complete"} /\ answer[r] # None
      /\ pc[r] \in {"upsert_run", "list_links", "get_run", "get_checks", "record_link"}
  BY DEF RunUpserted, LinksListed, RunRead, ChecksRead, LinkRecorded, Answered, Processes, StoreCalls
<1>2. answer[r] # "new" /\ answer[r] # "duplicate"
  BY <1>1 DEF ObservationInv, Story, AtStore, Processes
<1>3. Recorded(r) = RecordedAt(pc[r])
  BY <1>1, ProcessesKnown
<1>4. ASSUME NEW cs \in SUBSET {"workflow_link", "too_many_jobs"}, Respond(r, "accepted", cs)
      PROVE  ObservedTypes' /\ Story(r)' /\ \A q \in Requests : q # r => Same(q)
  <2>1. cs \in SUBSET (Counters \ Outcomes)
    BY DEF Counters, Outcomes, FailureStages
  <2>2. /\ cs \intersect FatalStages = {} /\ "duplicates" \notin cs
        /\ cs \intersect {"authentication", "merge_group_events", "queue_outcomes", "queue_state"} = {}
    BY DEF FatalStages
  <2> QED BY <1>1, <1>2, <1>4, <2>1, <2>2, EndsWithoutUpdate
<1>5. ASSUME answer[r] = "error", Respond(r, "unavailable", {"database"}), pc[r] \in {"upsert_run", "get_run"}
      PROVE  ObservedTypes' /\ Story(r)' /\ \A q \in Requests : q # r => Same(q)
  <2>1. {"database"} \in SUBSET (Counters \ Outcomes)
    BY DEF Counters, Outcomes, FailureStages
  <2>2. /\ {"database"} \intersect FatalStages = {"database"}
        /\ DatabaseOperation(pc[r]) \in FatalCalls("database")
    BY <1>5 DEF FatalStages, DatabaseOperation, FatalCalls
  <2> QED BY <1>1, <1>5, <2>1, <2>2, EndsWithoutUpdate
<1>6. ASSUME NEW call \in {"list_links", "get_checks", "record_link"}, Call(r, call), UNCHANGED metrics,
             Recorded(r) = RecordedAt(call)
      PROVE  ObservedTypes' /\ Story(r)' /\ \A q \in Requests : q # r => Same(q)
  <2>1. /\ {} \in SUBSET {"events", "job_steps"} /\ Recorded(r) \union {} = RecordedAt(call)
        /\ call \in StoreCalls \ {"authenticate", "claim"}
    BY <1>6 DEF StoreCalls
  <2> QED BY <1>1, <1>2, <1>6, <2>1, ProcessedCalls
<1>7. ASSUME EmitJob(r), pc[r] \in {"get_run", "get_checks"}
      PROVE  ObservedTypes' /\ Story(r)' /\ \A q \in Requests : q # r => Same(q)
  <2>1. CASE Respond(r, "accepted", {})
    BY <1>4, <2>1
  <2>2. CASE Call(r, "record_link") /\ UNCHANGED metrics
    BY <1>3, <1>6, <1>7, <2>2 DEF RecordedAt
  <2> QED BY <1>7, <2>1, <2>2 DEF EmitJob
<1>8. CASE RunUpserted(r)
  <2>1. CASE answer[r] = "error" /\ Respond(r, "unavailable", {"database"})
    BY <1>5, <1>8, <2>1 DEF RunUpserted, Answered
  <2>2. CASE Call(r, "list_links") /\ UNCHANGED metrics
    BY <1>3, <1>6, <1>8, <2>2 DEF RunUpserted, Answered, RecordedAt
  <2>3. CASE Respond(r, "accepted", {})
    BY <1>4, <2>3
  <2> QED BY <1>8, <2>1, <2>2, <2>3 DEF RunUpserted
<1>9. CASE LinksListed(r)
  BY <1>4, <1>9 DEF LinksListed
<1>10. CASE RunRead(r)
  <2>1. CASE answer[r] = "error" /\ Respond(r, "unavailable", {"database"})
    BY <1>5, <1>10, <2>1 DEF RunRead, Answered
  <2>2. CASE Call(r, "get_checks") /\ UNCHANGED metrics
    BY <1>3, <1>6, <1>10, <2>2 DEF RunRead, Answered, RecordedAt
  <2>3. CASE EmitJob(r)
    BY <1>7, <1>10, <2>3 DEF RunRead, Answered
  <2> QED BY <1>10, <2>1, <2>2, <2>3 DEF RunRead
<1>11. CASE ChecksRead(r)
  BY <1>7, <1>11 DEF ChecksRead, Answered
<1>12. CASE LinkRecorded(r)
  BY <1>4, <1>12 DEF LinkRecorded
<1> QED BY <1>8, <1>9, <1>10, <1>11, <1>12

LEMMA QueueAppliedObserved ==
  ASSUME TypeInv, ObservationInv, NEW r \in Requests, ProcessedObserved(r), QueueApplied(r)
  PROVE  ObservedTypes' /\ Story(r)' /\ \A q \in Requests : q # r => Same(q)
<1>1. /\ Processes(r) /\ pc[r] \in {"enqueue", "complete"} /\ answer[r] # None
  BY DEF QueueApplied, Answered, Processes, StoreCalls
<1>2. /\ answer[r] # "new" /\ answer[r] # "duplicate" /\ (answer[r] = "completed" => pc[r] = "complete")
      /\ spans[r]["update"] = UpdateAt(r)
  BY <1>1 DEF ObservationInv, Story, AtStore, AtProcessing, Processes
<1>3. /\ identity[r] = named[r] /\ named[r] \in Names /\ delivery[r] \in Deliveries
      /\ Recorded(r) = {"events"}
  BY <1>1, ProcessesKnown DEF RecordedAt
<1> DEFINE s == UpdateAt(r)
<1>4. /\ UpdateOf(r, "pull_request", s)
      /\ pc[r] = "complete" =>
           /\ ValuesOf(s.attributes, "queue.outcome") = {CompletionLabels(Completion(r))[1]}
           /\ ValuesOf(s.attributes, "queue.reason") = {CompletionLabels(Completion(r))[2]}
  <2>1. CASE pc[r] = "enqueue"
    <3>1. s = With(Processing(r), SetQueueEntity("pull_request"))
      BY <2>1 DEF UpdateAt
    <3> HIDE DEF s
    <3> QED BY <1>3, <2>1, <3>1, EnqueueSpan
  <2>2. CASE pc[r] = "complete"
    <3>1. s = With(Processing(r), SetQueueEntity("pull_request") \union SetMergeQueueCompletion(Completion(r)))
      BY <2>2 DEF UpdateAt
    <3>2. LET u == With(Processing(r), SetQueueEntity("pull_request")
                                        \union SetMergeQueueCompletion(Completion(r)))
          IN  /\ UpdateOf(r, "pull_request", u)
              /\ ValuesOf(u.attributes, "queue.outcome") = {CompletionLabels(Completion(r))[1]}
              /\ ValuesOf(u.attributes, "queue.reason") = {CompletionLabels(Completion(r))[2]}
      BY <1>3, CompletionSpan
    <3> HIDE DEF s
    <3> QED BY <3>1, <3>2, Zenon
  <2> QED BY <1>1, <2>1, <2>2
<1> HIDE DEF s
<1>5. s \in SpansBegun
  BY <1>4 DEF UpdateOf
<1>6. ~Suspends(r, "enqueue") /\ ~Suspends(r, "complete")
  BY DEF QueueApplied, Respond, TypeInv, TypeOK, Suspends
<1>7. UpdateSpan(r, spans[r]["update"]) =
        CASE answer[r] = "error" -> WithOutcome(With(s, AddFailureEvent("queue_state")), "failure")
          [] answer[r] \in {"created", "completed"} -> WithOutcome(s, "success")
          [] OTHER -> WithOutcome(s, "no_op")
  BY <1>1, <1>2, <1>6 DEF UpdateSpan, s
<1>8. CASE answer[r] = "error" /\ Respond(r, "accepted", {"queue_state"})
  <2> DEFINE f == With(s, AddFailureEvent("queue_state"))
             cs == {"queue_state"}
             C == Recorded(r) \union cs \union {"requests"}
  <2>1. /\ f \in SpansBegun /\ f.repository = s.repository
        /\ \A key : key # "operation.failure" => ValuesOf(f.attributes, key) = ValuesOf(s.attributes, key)
        /\ ValuesOf(f.attributes, "operation.failure") # {}
    BY <1>5, FailedSpan, Zenon
  <2>2. UpdateSpan(r, spans[r]["update"]) = WithOutcome(f, "failure")
    BY <1>7, <1>8
  <2> HIDE DEF f
  <2>3. /\ WithOutcome(f, "failure") \in SpansBegun
        /\ WithOutcome(f, "failure").outcome = "failure"
        /\ WithOutcome(f, "failure").repository = f.repository
        /\ WithOutcome(f, "failure").attributes = f.attributes
    BY <2>1, SpanWithOutcome DEF SpanOutcomes
  <2>4. /\ "events" \in C /\ "queue_state" \in C
        /\ "merge_group_events" \notin C /\ "queue_outcomes" \notin C
    BY <1>3
  <2>5. ASSUME NEW u, u = UpdateSpan(r, spans[r]["update"]) PROVE UpdateFits(r, u, C) /\ UpdateEnds(u, C)
    <3> HIDE DEF C
    <3>1. /\ u \in SpansBegun /\ u # None /\ u.outcome = "failure" /\ u.repository = named[r]
          /\ \A key : key # "operation.failure" => ValuesOf(u.attributes, key) = ValuesOf(s.attributes, key)
          /\ ValuesOf(u.attributes, "operation.failure") # {}
      BY <1>4, <2>1, <2>2, <2>3, <2>5, BegunIsSomething DEF UpdateOf
    <3>2. UpdateFits(r, u, C)
      BY <1>4, <2>4, <3>1 DEF UpdateFits, UpdateOf
    <3>3. UpdateEnds(u, C)
      BY <2>4, <3>1 DEF UpdateEnds
    <3> QED BY <3>2, <3>3
  <2>6. cs \in SUBSET (Counters \ Outcomes)
    BY DEF Counters, Outcomes, FailureStages
  <2>7. cs \intersect FatalStages = {} /\ "duplicates" \notin cs /\ "authentication" \notin cs
    BY DEF FatalStages
  <2>8. Respond(r, "accepted", cs)
    BY <1>8
  <2> HIDE DEF cs
  <2> QED BY <1>1, <1>2, <2>5, <2>6, <2>7, <2>8, ProcessedEnds
<1>9. ASSUME NEW cs \in SUBSET {"queue_outcomes", "queue_transition_failures"}, Respond(r, "accepted", cs),
             answer[r] # "error", "queue_outcomes" \in cs => answer[r] = "completed"
      PROVE  ObservedTypes' /\ Story(r)' /\ \A q \in Requests : q # r => Same(q)
  <2> DEFINE C == Recorded(r) \union cs \union {"requests"}
             o == IF answer[r] \in {"created", "completed"} THEN "success" ELSE "no_op"
  <2>1. UpdateSpan(r, spans[r]["update"]) = WithOutcome(s, o)
    BY <1>7, <1>9
  <2>2. /\ o \in SpanOutcomes \union {None} /\ o # "failure"
        /\ "queue_outcomes" \in cs => o = "success"
    BY <1>9 DEF SpanOutcomes
  <2> HIDE DEF o
  <2>3. /\ WithOutcome(s, o) \in SpansBegun /\ WithOutcome(s, o).outcome = o
        /\ WithOutcome(s, o).repository = s.repository
        /\ WithOutcome(s, o).attributes = s.attributes
    BY <1>5, <2>2, SpanWithOutcome
  <2>4. /\ "events" \in C /\ "queue_state" \notin C /\ "merge_group_events" \notin C
        /\ "queue_outcomes" \in C <=> "queue_outcomes" \in cs
    BY <1>3
  <2>5. ASSUME NEW u, u = UpdateSpan(r, spans[r]["update"]) PROVE UpdateFits(r, u, C) /\ UpdateEnds(u, C)
    <3> HIDE DEF C
    <3>1. /\ u \in SpansBegun /\ u # None /\ u.outcome = o /\ u.repository = named[r]
          /\ u.attributes = s.attributes
      BY <1>4, <2>1, <2>3, <2>5, BegunIsSomething DEF UpdateOf
    <3>2. UpdateFits(r, u, C)
      BY <1>2, <1>4, <1>9, <2>4, <3>1 DEF UpdateFits, UpdateOf
    <3>3. UpdateEnds(u, C)
      BY <1>4, <2>2, <2>4, <3>1 DEF UpdateEnds, UpdateOf
    <3> QED BY <3>2, <3>3
  <2>6. cs \in SUBSET (Counters \ Outcomes)
    BY DEF Counters, Outcomes
  <2>7. cs \intersect FatalStages = {} /\ "duplicates" \notin cs /\ "authentication" \notin cs
    BY DEF FatalStages
  <2> QED BY <1>1, <1>2, <1>9, <2>5, <2>6, <2>7, ProcessedEnds
<1>10. CASE answer[r] = "completed" /\ Respond(r, "accepted", {"queue_outcomes"})
  BY <1>9, <1>10
<1>11. CASE answer[r] \in {"completed", "missing"} /\ Respond(r, "accepted", {"queue_transition_failures"})
  BY <1>9, <1>11
<1>12. CASE answer[r] \in {"created", "already_active", "already_completed"} /\ Respond(r, "accepted", {})
  BY <1>9, <1>12
<1> QED BY <1>8, <1>10, <1>11, <1>12 DEF QueueApplied

-----------------------------------------------------------------------------
(* The steps before processing, and the store.                             *)

LEMMA RepositoryAttributes ==
  ASSUME NEW n \in Names, NEW d \in Deliveries
  PROVE  LET A == SetDeliveryId(d)
             B == SetDeliveryId(d) \union SetRepositoryId(n)
         IN  /\ A \in Attributes /\ B \in Attributes
             /\ ValuesOf(A, "repository.id") = {} /\ ValuesOf(B, "repository.id") = {n}
<1> DEFINE A == SetDeliveryId(d)
           B == SetDeliveryId(d) \union SetRepositoryId(n)
<1>1. A \in Attributes /\ B \in Attributes
  BY EventAttributes, OtherAttributes, AttributesUnion
<1>2. \A key, v : /\ v \in ValuesOf(A, key) <=> <<key, v>> \in A
                  /\ v \in ValuesOf(B, key) <=> <<key, v>> \in B
  BY <1>1, ValuesMember
<1>3. ValuesOf(A, "repository.id") = {} /\ ValuesOf(B, "repository.id") = {n}
  BY <1>2 DEF SetDeliveryId, SetRepositoryId
<1> QED BY <1>1, <1>3

LEMMA AuthenticatedSpans ==
  ASSUME ObservedTypes, NEW r \in Requests, AuthenticatedObserved(r)
  PROVE  /\ spans'[r]["authenticate"] =
              IF answer[r] = "ok"
                THEN WithOutcome(With(spans[r]["authenticate"], SetRepositoryId(named[r])), "success")
                ELSE WithOutcome(spans[r]["authenticate"], "failure")
         /\ spans'[r]["process"] = IF answer[r] # "ok" THEN None ELSE ProcessSpan(r, Unparsed(r))
         /\ spans'[r]["update"] = spans[r]["update"]
         /\ spans'[r]["database"] = IF Responds(r) THEN spans[r]["database"] ELSE DatabaseSpan(pc'[r])
         /\ spans'[r]["http"] = HttpSpan(r)
         /\ \A q \in Requests : q # r => spans'[q] = spans[q]
         /\ (\A o \in Operations : spans'[r][o] \in SpansBegun \union {None})
              => spans' \in [Requests -> [Operations -> SpansBegun \union {None}]]
<1>1. /\ spans' = [spans EXCEPT
           ![r]["authenticate"] = IF answer[r] = "ok"
                                    THEN WithOutcome(With(@, SetRepositoryId(named[r])), "success")
                                    ELSE WithOutcome(@, "failure"),
           ![r]["process"] = IF answer[r] # "ok" THEN None ELSE ProcessSpan(r, Unparsed(r)),
           ![r]["database"] = IF Responds(r) THEN @ ELSE DatabaseSpan(pc'[r]),
           ![r]["http"] = HttpSpan(r)]
      /\ spans \in [Requests -> [Operations -> SpansBegun \union {None}]]
  BY DEF AuthenticatedObserved, ObservedTypes
<1> QED BY <1>1 DEF Operations

LEMMA AuthenticatedKeeps ==
  ASSUME TypeInv, ObservationInv, NEW r \in Requests, AuthenticatedObserved(r)
  PROVE  ObservedTypes' /\ Story(r)' /\ \A q \in Requests : q # r => Same(q)
<1>1. Story(r) /\ ObservedTypes
  BY DEF ObservationInv
<1>2. /\ Authenticated(r) /\ pc[r] = "authenticate" /\ InFlight(r) /\ answer[r] # None
      /\ StatusNext(r) /\ Label(r) /\ UNCHANGED <<named, delivery>>
      /\ identity' = [identity EXCEPT ![r] = IF answer[r] = "ok" THEN named[r] ELSE None]
  BY DEF AuthenticatedObserved, Authenticated, Answered, InFlight, StoreCalls
<1>3. delivery[r] \in Deliveries
  BY <1>2 DEF TypeInv, Carries
<1> DEFINE a == spans[r]["authenticate"]
<1>4. /\ labels[r] = {} /\ named[r] \in Names /\ identity[r] = None
      /\ a # None /\ a.attributes = SetDeliveryId(delivery[r])
      /\ spans[r]["process"] = None /\ spans[r]["update"] = None
      /\ answer[r] = "ok" => named[r] = Registered
  BY <1>1, <1>2 DEF Story, AtAuthentication, Begins
<1>5. a \in SpansBegun
  BY <1>1, <1>4 DEF ObservedTypes, Operations
<1> HIDE DEF a
<1>6. /\ identity'[r] = IF answer[r] = "ok" THEN named[r] ELSE None
      /\ identity' \in [Requests -> Names \union {None}]
      /\ \A q \in Requests : q # r => identity'[q] = identity[q]
  BY <1>1, <1>2, <1>4 DEF ObservedTypes
<1>7. \/ answer[r] = "unauthorized" /\ Respond(r, "unauthorized", {})
      \/ answer[r] = "error" /\ Respond(r, "unavailable", {"authentication"})
      \/ answer[r] = "ok" /\ Respond(r, "malformed", {})
      \/ answer[r] = "ok" /\ Call(r, "claim") /\ UNCHANGED metrics
  BY <1>2 DEF Authenticated
<1> DEFINE cs == CASE answer[r] = "unauthorized" -> {"unauthorized"}
                   [] answer[r] = "error" -> {"authentication", "unavailable"}
                   [] answer[r] = "ok" /\ Responds(r) -> {"malformed"}
                   [] OTHER -> {}
<1>8. /\ Responds(r) => pc'[r] = "done" /\ response'[r] \in Outcomes
      /\ ~Responds(r) => answer[r] = "ok" /\ pc'[r] = "claim" /\ answer'[r] = None
      /\ answer[r] = "unauthorized" => Responds(r) /\ response'[r] = "unauthorized"
      /\ answer[r] = "error" => Responds(r) /\ response'[r] = "unavailable"
      /\ answer[r] = "ok" /\ Responds(r) => response'[r] = "malformed"
      /\ answer[r] \in {"ok", "unauthorized", "error"}
  BY <1>7 DEF Respond, Call, TypeInv, TypeOK, Responds, Outcomes
<1>9. Count(cs) \/ (UNCHANGED metrics /\ cs = {})
  <2>1. CASE answer[r] = "unauthorized"
    <3>1. Count({} \union {"unauthorized"})
      BY <1>7, <2>1 DEF Respond
    <3>2. {} \union {"unauthorized"} = cs
      BY <2>1
    <3> QED BY <3>1, <3>2
  <2>2. CASE answer[r] = "error"
    <3>1. Count({"authentication"} \union {"unavailable"})
      BY <1>7, <2>2 DEF Respond
    <3>2. {"authentication"} \union {"unavailable"} = cs
      BY <2>2
    <3> QED BY <3>1, <3>2
  <2>3. CASE answer[r] = "ok" /\ Responds(r)
    <3>1. Count({} \union {"malformed"})
      BY <1>7, <2>3 DEF Respond, Call, Responds, TypeInv, TypeOK
    <3>2. {} \union {"malformed"} = cs
      BY <2>3
    <3> QED BY <3>1, <3>2
  <2>4. CASE answer[r] = "ok" /\ ~Responds(r)
    BY <1>7, <2>4 DEF Respond, Responds, TypeInv, TypeOK
  <2> QED BY <1>8, <2>1, <2>2, <2>3, <2>4
<1>10. /\ cs \in SUBSET Counters
       /\ \A c \in cs \ Outcomes : c = "authentication" /\ answer[r] = "error"
       /\ {NameOf(c) : c \in cs} =
            CASE answer[r] = "error" -> {"authentication", "requests"}
              [] answer[r] # "error" /\ Responds(r) -> {"requests"}
              [] OTHER -> {}
  <2>1. /\ NameOf("unauthorized") = "requests" /\ NameOf("unavailable") = "requests"
        /\ NameOf("malformed") = "requests" /\ NameOf("authentication") = "authentication"
    BY DEF NameOf, Outcomes
  <2>2. /\ answer[r] = "unauthorized" => cs = {"unauthorized"}
        /\ answer[r] = "error" => cs = {"authentication", "unavailable"}
        /\ answer[r] = "ok" /\ Responds(r) => cs = {"malformed"}
        /\ answer[r] = "ok" /\ ~Responds(r) => cs = {}
    BY <1>8
  <2> HIDE DEF cs
  <2>3. /\ cs \in SUBSET Counters
        /\ \A c \in cs \ Outcomes : c = "authentication" /\ answer[r] = "error"
    BY <1>8, <2>2 DEF Counters, Outcomes, FailureStages
  <2>4. CASE answer[r] = "error"
    BY <2>1, <2>2, <2>3, <2>4
  <2>5. CASE answer[r] # "error" /\ Responds(r)
    BY <1>8, <2>1, <2>2, <2>3, <2>5
  <2>6. CASE answer[r] # "error" /\ ~Responds(r)
    BY <1>8, <2>1, <2>2, <2>3, <2>6
  <2> QED BY <2>4, <2>5, <2>6
<1> HIDE DEF cs
<1>11. /\ LabelsTell(r)' /\ Recorded(r)' = {NameOf(c) : c \in cs}
       /\ \A q \in Requests : q # r => labels'[q] = labels[q]
       /\ labels' = [q \in Requests |-> labels'[q]]
  <2>1. \A c \in cs \ Outcomes : RepositoryLabel(identity'[r]) = RepositoryLabel(StageRepository(r, c))
    BY <1>6, <1>10 DEF StageRepository
  <2>2. /\ metrics \in [Counters -> Nat] /\ labels = [q \in Requests |-> labels[q]]
        /\ LabelsTell(r) /\ Recorded(r) = {}
    BY <1>1, <1>4 DEF TypeInv, TypeOK, ObservedTypes, Story, Recorded
  <2> QED BY <1>2, <1>4, <1>9, <1>10, <2>1, <2>2, LabelsNext
<1>12. /\ status' \in [Requests -> Statuses \union {None}]
       /\ \A q \in Requests : q # r => status'[q] = status[q]
       /\ ~Responds(r) => status'[r] = None
       /\ Responds(r) => status'[r] # None /\ status'[r] # 405
  BY <1>1, <1>2, <1>8, StatusMoves
<1>13. /\ answer[r] = "unauthorized" => status'[r] = 401
       /\ answer[r] = "error" => status'[r] = 503
       /\ answer[r] = "ok" /\ Responds(r) => status'[r] = 400 /\ Failure(r) # None
       /\ Responds(r) => Failure(r) \in AppErrors \union {None}
  BY <1>1, <1>2, <1>8, OutcomeStatus DEF ObservedTypes
<1>14. /\ HttpSpan(r) \in SpansBegun
       /\ HttpSpan(r).repository = IF status'[r] = None THEN None ELSE identity'[r]
       /\ ValuesOf(HttpSpan(r).attributes, "repository.id") = {}
       /\ status'[r] = None => HttpSpan(r).outcome = None
       /\ status'[r] # None =>
              /\ HttpSpan(r).outcome = HttpOutcome(status'[r])
              /\ ValuesOf(HttpSpan(r).attributes, "http.result") = {HttpResult(status'[r])}
  <2>1. identity'[r] \in Names \union {None} /\ status'[r] \in {204, 400, 401, 405, 413, 415, 503, None}
    BY <1>6, <1>12 DEF Statuses
  <2> QED BY <2>1, HttpSpans
<1> DEFINE p == IF answer[r] # "ok" THEN None ELSE ProcessSpan(r, Unparsed(r))
<1>15. answer[r] = "ok" =>
         /\ p \in SpansBegun /\ p.repository = named[r] /\ ValuesOf(p.attributes, "repository.id") = {named[r]}
         /\ Responds(r) => p.outcome = "failure"
         /\ ~Responds(r) => p = Processing(r)
  <2> DEFINE b == Begun(named[r], SetRepositoryId(named[r]) \union SetDeliveryId(delivery[r]))
  <2>1. CASE answer[r] = "ok" /\ Responds(r)
    <3>1. SetRepositoryId(named[r]) \union SetDeliveryId(delivery[r]) =
            SetDeliveryId(delivery[r]) \union SetRepositoryId(named[r])
      OBVIOUS
    <3>2. /\ b \in SpansBegun /\ b.repository = named[r]
          /\ ValuesOf(b.attributes, "repository.id") = {named[r]}
      <4> DEFINE B == SetRepositoryId(named[r]) \union SetDeliveryId(delivery[r])
      <4>1. B \in Attributes /\ ValuesOf(B, "repository.id") = {named[r]}
        BY <1>3, <1>4, <3>1, RepositoryAttributes
      <4> HIDE DEF B
      <4>2. /\ Begun(named[r], B) \in SpansBegun /\ Begun(named[r], B).repository = named[r]
            /\ Begun(named[r], B).attributes = B
        BY <1>4, <4>1, BegunSpan
      <4> QED BY <4>1, <4>2 DEF B
    <3>3. p = WithOutcome(b, "failure")
      BY <1>13, <2>1 DEF Unparsed, ProcessSpan
    <3> HIDE DEF b, p
    <3> QED BY <2>1, <3>2, <3>3, SpanWithOutcome DEF SpanOutcomes
  <2>2. CASE answer[r] = "ok" /\ ~Responds(r)
    <3>1. p = Processing(r)
      BY <2>2 DEF Unparsed, ProcessSpan
    <3> HIDE DEF p
    <3> QED BY <1>3, <1>4, <2>2, <3>1, ProcessingSpan
  <2> QED BY <2>1, <2>2
<1>16. answer[r] # "ok" => p = None
  OBVIOUS
<1> DEFINE s == IF answer[r] = "ok" THEN WithOutcome(With(a, SetRepositoryId(named[r])), "success")
                ELSE WithOutcome(a, "failure")
<1>17. /\ s \in SpansBegun
       /\ answer[r] = "ok" => s.outcome = "success" /\ ValuesOf(s.attributes, "repository.id") = {named[r]}
       /\ answer[r] # "ok" => s.outcome = "failure" /\ ValuesOf(s.attributes, "repository.id") = {}
  <2> DEFINE w == With(a, SetRepositoryId(named[r]))
  <2>1. w \in SpansBegun /\ w.attributes = SetDeliveryId(delivery[r]) \union SetRepositoryId(named[r])
    <3>1. SetRepositoryId(named[r]) \in Attributes
      BY <1>4, OtherAttributes
    <3>2. w \in SpansBegun /\ w.attributes = a.attributes \union SetRepositoryId(named[r])
      BY <1>5, <3>1, SpanWith
    <3> QED BY <1>4, <3>2
  <2>2. /\ WithOutcome(w, "success") \in SpansBegun /\ WithOutcome(w, "success").outcome = "success"
        /\ WithOutcome(w, "success").attributes = w.attributes
        /\ WithOutcome(a, "failure") \in SpansBegun /\ WithOutcome(a, "failure").outcome = "failure"
        /\ WithOutcome(a, "failure").attributes = a.attributes
    BY <1>5, <2>1, SpanWithOutcome DEF SpanOutcomes
  <2>3. /\ ValuesOf(w.attributes, "repository.id") = {named[r]}
        /\ ValuesOf(a.attributes, "repository.id") = {}
    BY <1>3, <1>4, <2>1, RepositoryAttributes
  <2> HIDE DEF w
  <2>4. answer[r] = "ok" => s = WithOutcome(w, "success")
    BY DEF w
  <2>5. answer[r] # "ok" => s = WithOutcome(a, "failure")
    OBVIOUS
  <2> HIDE DEF s
  <2> QED BY <2>2, <2>3, <2>4, <2>5
<1>18. /\ spans'[r]["authenticate"] = s /\ spans'[r]["process"] = p
       /\ spans'[r]["update"] = None
       /\ spans'[r]["database"] = IF Responds(r) THEN spans[r]["database"] ELSE DatabaseSpan(pc'[r])
       /\ spans'[r]["http"] = HttpSpan(r)
       /\ \A q \in Requests : q # r => spans'[q] = spans[q]
       /\ (\A o \in Operations : spans'[r][o] \in SpansBegun \union {None})
              => spans' \in [Requests -> [Operations -> SpansBegun \union {None}]]
  BY <1>1, <1>4, AuthenticatedSpans DEF a
<1> HIDE DEF s, p
<1>19. ~Responds(r) => DatabaseSpan(pc'[r]) \in SpansBegun /\ ValuesOf(DatabaseSpan(pc'[r]).attributes, "repository.id") = {}
  BY <1>8, DatabaseBegins DEF StoreCalls
<1>20. \A o \in Operations : spans'[r][o] \in SpansBegun \union {None}
  BY <1>1, <1>14, <1>15, <1>16, <1>17, <1>18, <1>19 DEF ObservedTypes, Operations
<1>21. ObservedTypes'
  BY <1>1, <1>2, <1>6, <1>11, <1>12, <1>18, <1>20 DEF ObservedTypes
<1>22. \A q \in Requests : q # r => Same(q)
  BY <1>2, <1>6, <1>11, <1>12, <1>18 DEF Same
<1>23. /\ Outcome(r, "authenticate")' = s.outcome /\ Outcome(r, "update")' = None
       /\ \A key : Values(r, "update", key)' = {}
       /\ ~Begins(r, "update")' /\ (Begins(r, "process")' <=> answer[r] = "ok")
       /\ Begins(r, "process")' => Outcome(r, "process")' = p.outcome
       /\ ~Begins(r, "process")' => Outcome(r, "process")' = None
       /\ Outcome(r, "http")' = HttpSpan(r).outcome
       /\ Values(r, "http", "http.result")' = ValuesOf(HttpSpan(r).attributes, "http.result")
  BY <1>14, <1>15, <1>16, <1>17, <1>18, NextReadings, BegunIsSomething
<1>24. SpansTell(r)'
  <2>1. ASSUME NEW o \in Operations PROVE Values(r, o, "repository.id")' \subseteq {identity'[r]} \ {None}
    <3>1. CASE o = "authenticate"
      BY <1>4, <1>6, <1>17, <1>18, <3>1, NextReadings, ObservationAssumption
    <3>2. CASE o = "process"
      BY <1>4, <1>6, <1>15, <1>16, <1>18, <3>2, NextReadings, ObservationAssumption
    <3>3. CASE o = "update"
      BY <1>18, <3>3, NextReadings
    <3>4. CASE o = "database" /\ Responds(r)
      <4>1. Values(r, o, "repository.id")' = Values(r, o, "repository.id")
        BY <1>18, <3>4 DEF Values, Begins
      <4> QED BY <1>1, <1>4, <4>1 DEF Story, SpansTell
    <3>5. CASE o = "database" /\ ~Responds(r)
      BY <1>18, <1>19, <3>5, NextReadings
    <3>6. CASE o = "http"
      BY <1>14, <1>18, <3>6, NextReadings
    <3> QED BY <3>1, <3>2, <3>3, <3>4, <3>5, <3>6 DEF Operations
  <2>2. Outcome(r, "authenticate")' = "success" <=> identity'[r] # None
    BY <1>4, <1>6, <1>17, <1>23, ObservationAssumption
  <2>3. identity'[r] # None => identity'[r] = named'[r] /\ named'[r] = Registered
    BY <1>2, <1>4, <1>6
  <2>4. Begins(r, "process")' => identity'[r] # None /\ spans'[r]["process"].repository = identity'[r]
    BY <1>4, <1>6, <1>15, <1>18, <1>23, ObservationAssumption
  <2> QED BY <1>14, <1>18, <1>23, <2>1, <2>2, <2>3, <2>4 DEF SpansTell
<1>25. "events" \notin Recorded(r)' /\ "merge_group_events" \notin Recorded(r)'
       /\ "queue_outcomes" \notin Recorded(r)' /\ "queue_state" \notin Recorded(r)' /\ "duplicates" \notin Recorded(r)'
  BY <1>10, <1>11
<1>26. UpdateTells(r)'
  BY <1>23, <1>25, SMT DEF UpdateTells
<1>27. CASE Responds(r)
  <2>1. Recorded(r)' = IF answer[r] = "error" THEN {"authentication", "requests"} ELSE {"requests"}
    BY <1>10, <1>11, <1>27
  <2>2. Values(r, "database", "db.operation.name")' \subseteq {"repository.authenticate"}
    <3>1. PICK o \in {"success", "failure"} : spans[r]["database"] = WithOutcome(DatabaseSpan("authenticate"), o)
      BY <1>1, <1>2 DEF Story, AtStore, InFlight
    <3>2. /\ DatabaseSpan("authenticate") \in SpansBegun
          /\ ValuesOf(DatabaseSpan("authenticate").attributes, "db.operation.name") = {"repository.authenticate"}
      BY DatabaseBegins DEF StoreCalls, DatabaseOperation
    <3>3. /\ WithOutcome(DatabaseSpan("authenticate"), o) \in SpansBegun
          /\ WithOutcome(DatabaseSpan("authenticate"), o).attributes = DatabaseSpan("authenticate").attributes
      BY <3>2, SpanWithOutcome DEF SpanOutcomes
    <3> QED BY <1>18, <1>27, <3>1, <3>2, <3>3, NextReadings
  <2>3. status'[r] = 503 => answer[r] = "error"
    BY <1>8, <1>13, <1>27
  <2>4. status'[r] = 503 => \E stage \in FatalStages :
         /\ Recorded(r)' \intersect FatalStages = {stage}
         /\ Values(r, "database", "db.operation.name")' \subseteq FatalCalls(stage)
         /\ stage # "authentication" => Outcome(r, "database")' = "failure"
    <3> SUFFICES ASSUME status'[r] = 503
                 PROVE  /\ Recorded(r)' \intersect FatalStages = {"authentication"}
                        /\ Values(r, "database", "db.operation.name")' \subseteq FatalCalls("authentication")
      BY DEF FatalStages
    <3> QED BY <2>1, <2>2, <2>3 DEF FatalStages, FatalCalls
  <2>5. status'[r] # 503 => Recorded(r)' \intersect FatalStages = {}
    BY <1>13, <2>1 DEF FatalStages
  <2>6. identity'[r] # None => /\ Outcome(r, "process")' = "failure" /\ status'[r] # 204
    BY <1>6, <1>8, <1>13, <1>15, <1>23, <1>27
  <2>7. identity'[r] = None => ~Begins(r, "process")'
    BY <1>4, <1>6, <1>23, ObservationAssumption
  <2>8. "requests" \in Recorded(r)' /\ status'[r] # None
    BY <1>12, <1>27, <2>1
  <2>9. None # "failure" /\ None # "success"
    BY NothingAssumption DEF SpanOutcomes
  <2>10. Outcome(r, "http")' = HttpOutcome(status'[r]) /\ Values(r, "http", "http.result")' = {HttpResult(status'[r])}
    BY <1>14, <1>23, <2>8
  <2>11. Done(r)'
    BY <1>23, <1>25, <2>4, <2>5, <2>6, <2>7, <2>8, <2>9, <2>10, SMT DEF Done
  <2>12. Unanswered(r)' /\ AtAuthentication(r)' /\ AtProcessing(r)' /\ AtStore(r)'
    BY <1>8, <1>27 DEF Unanswered, AtAuthentication, AtProcessing, AtStore, StoreCalls
  <2>13. RouterAnswers(r)'
    BY <1>12, <1>27 DEF RouterAnswers
  <2> QED BY <1>11, <1>21, <1>22, <1>24, <1>26, <2>11, <2>12, <2>13 DEF Story
<1>28. CASE ~Responds(r)
  <2>1. Recorded(r)' = {}
    BY <1>8, <1>10, <1>11, <1>28
  <2>2. pc'[r] = "claim" /\ answer'[r] = None /\ answer[r] = "ok"
    BY <1>8, <1>28
  <2>3. Processing(r)' = Processing(r)
    BY <1>2 DEF Processing
  <2>4. AtProcessing(r)'
    <3>1. RecordedAt("claim") = {} /\ UpdateAt(r)' = None
      BY <2>2 DEF RecordedAt, UpdateAt
    <3>2. identity'[r] # None
      BY <1>4, <1>6, <2>2, ObservationAssumption
    <3> QED BY <1>15, <1>18, <1>28, <2>1, <2>2, <2>3, <3>1, <3>2 DEF AtProcessing
  <2>5. Unanswered(r)'
    <3>1. p.outcome = None
      BY <1>3, <1>4, <1>15, <1>28, <2>2, ProcessingSpan
    <3> QED BY <1>12, <1>14, <1>23, <1>28, <2>1, <2>2, <3>1 DEF Unanswered
  <2>6. AtAuthentication(r)' /\ AtStore(r)' /\ Done(r)' /\ RouterAnswers(r)'
    BY <2>2 DEF AtAuthentication, AtStore, Done, RouterAnswers
  <2> QED BY <1>11, <1>21, <1>22, <1>24, <1>26, <2>4, <2>5, <2>6 DEF Story
<1> QED BY <1>27, <1>28

LEMMA ExtractErrors ==
  ASSUME NEW parts \in Requested
  PROVE  /\ Extract(parts) \in {None, "invalid_webhook", "unsupported_media_type", "payload_too_large"}
         /\ Extract(parts) # None => StatusOf(Extract(parts)) \in {400, 413, 415}
<1>1. /\ parts.contentType \in {"absent", "json", "other"} /\ parts.size \in {"within", "beyond", "broken"}
  BY DEF Requested
<1>2. /\ ValidateContentType(parts.contentType) \in {None, "invalid_webhook", "unsupported_media_type"}
      /\ MapBodyRejection(parts.size) \in {None, "invalid_webhook", "payload_too_large"}
  BY <1>1 DEF ValidateContentType, MapBodyRejection
<1>3. Extract(parts) \in {None, "invalid_webhook", "unsupported_media_type", "payload_too_large"}
  BY <1>2 DEF Extract
<1>4. Extract(parts) # None => StatusOf(Extract(parts)) \in {400, 413, 415}
  BY <1>3, ErrorStatuses
<1> QED BY <1>3, <1>4

\* The router's 405 comes before any of the extractor's checks.
LEMMA RoutedErrors ==
  ASSUME NEW parts \in Requested
  PROVE  /\ Routed(parts) # None => StatusOf(Routed(parts)) \in {400, 405, 413, 415}
         /\ Routed(parts) = "method_not_allowed" <=> ~parts.post
<1>1. Extract(parts) # "method_not_allowed"
  BY ExtractErrors, NothingAssumption
<1>2. CASE parts.post
  <2>1. Routed(parts) = Extract(parts)
    BY <1>2 DEF Routed
  <2> QED BY <1>1, <1>2, <2>1, ExtractErrors
<1>3. CASE ~parts.post
  BY <1>3, ErrorStatuses DEF Routed
<1> QED BY <1>2, <1>3

LEMMA ReceiveKeeps ==
  ASSUME TypeInv, ObservationInv, NEW r \in Requests, ReceiveObserved(r)
  PROVE  ObservedTypes' /\ Story(r)' /\ \A q \in Requests : q # r => Same(q)
<1>1. Story(r) /\ ObservedTypes
  BY DEF ObservationInv
<1>2. /\ Receive(r) /\ pc[r] = "unsent" /\ Label(r) /\ UNCHANGED identity
      /\ \A q \in Requests : q # r => delivery'[q] = delivery[q]
  BY ReceiveMoves DEF ReceiveObserved
<1>3. /\ labels[r] = {} /\ identity[r] = None /\ \A o \in Operations : spans[r][o] = None
  BY <1>1, <1>2 DEF Story, AtAuthentication
<1>4. PICK parts \in Requested, name \in Names :
        LET error == Routed(parts)
        IN  /\ (error = None) = (pc'[r] # "done")
            /\ (error = "method_not_allowed") = (response'[r] = "not_allowed")
            /\ named' = [named EXCEPT ![r] = IF error = None THEN name ELSE None]
            /\ status' = [status EXCEPT ![r] = IF error = None THEN None ELSE StatusOf(error)]
            /\ spans' = [spans EXCEPT
                 ![r]["http"] = HttpSpan(r),
                 ![r]["authenticate"] = IF error = None
                                           THEN Begun(name, SetDeliveryId(delivery'[r])) ELSE None]
  BY DEF ReceiveObserved
<1> DEFINE error == Routed(parts)
           b == Begun(name, SetDeliveryId(delivery'[r]))
<1>5. error # None => StatusOf(error) \in {400, 405, 413, 415}
  BY RoutedErrors
<1>6. /\ spans' = [spans EXCEPT ![r]["http"] = HttpSpan(r),
                                ![r]["authenticate"] = IF error = None THEN b ELSE None]
      /\ status' = [status EXCEPT ![r] = IF error = None THEN None ELSE StatusOf(error)]
      /\ named' = [named EXCEPT ![r] = IF error = None THEN name ELSE None]
      /\ error = None <=> pc'[r] # "done"
  BY <1>4
<1> HIDE DEF b, error
<1>7. /\ spans'[r]["http"] = HttpSpan(r) /\ spans'[r]["authenticate"] = IF error = None THEN b ELSE None
      /\ \A o \in Operations \ {"http", "authenticate"} : spans'[r][o] = None
      /\ \A q \in Requests : q # r => spans'[q] = spans[q]
      /\ (\A o \in Operations : spans'[r][o] \in SpansBegun \union {None})
           => spans' \in [Requests -> [Operations -> SpansBegun \union {None}]]
  <2>1. spans \in [Requests -> [Operations -> SpansBegun \union {None}]]
    BY <1>1 DEF ObservedTypes
  <2> QED BY <1>3, <1>6, <2>1 DEF Operations
<1>8. /\ status'[r] = IF error = None THEN None ELSE StatusOf(error)
      /\ named'[r] = IF error = None THEN name ELSE None
      /\ \A q \in Requests : q # r => status'[q] = status[q] /\ named'[q] = named[q]
  BY <1>1, <1>6 DEF ObservedTypes
<1>9. error # None => status'[r] \in {400, 405, 413, 415} /\ status'[r] # None
  BY <1>5, <1>8, StatusIsSomething DEF Statuses
<1>10. named' \in [Requests -> Names \union {None}] /\ status' \in [Requests -> Statuses \union {None}]
  <2>1. status'[r] \in Statuses \union {None}
    BY <1>8, <1>9 DEF Statuses
  <2> QED BY <1>1, <1>6, <1>8, <2>1 DEF ObservedTypes
<1>11. /\ HttpSpan(r) \in SpansBegun
       /\ HttpSpan(r).repository = None
       /\ ValuesOf(HttpSpan(r).attributes, "repository.id") = {}
       /\ status'[r] = None => HttpSpan(r).outcome = None
       /\ status'[r] # None =>
              /\ HttpSpan(r).outcome = HttpOutcome(status'[r])
              /\ ValuesOf(HttpSpan(r).attributes, "http.result") = {HttpResult(status'[r])}
  <2>1. identity'[r] \in Names \union {None} /\ status'[r] \in {204, 400, 401, 405, 413, 415, 503, None}
    BY <1>2, <1>3, <1>10 DEF Statuses
  <2>2. identity'[r] = None
    BY <1>2, <1>3
  <2> QED BY <2>1, <2>2, HttpSpans
<1>12. \/ /\ error # None /\ pc'[r] = "done" /\ delivery'[r] = delivery[r]
          /\ Count({"malformed"}) \/ Count({"unavailable"})
       \/ /\ error = None /\ pc'[r] = "authenticate" /\ delivery'[r] \in Deliveries /\ UNCHANGED metrics
          /\ answer'[r] = None
  <2>1. CASE Respond(r, "malformed", {}) /\ UNCHANGED delivery
    <3>1. {} \union {"malformed"} = {"malformed"}
      OBVIOUS
    <3> QED BY <1>6, <2>1, <3>1 DEF Respond, TypeInv, TypeOK
  <2>3. CASE RespondNotAllowed(r) /\ UNCHANGED delivery
    BY <1>6, <2>3 DEF RespondNotAllowed, TypeInv, TypeOK
  <2>2. CASE /\ \E d \in Deliveries : delivery' = [delivery EXCEPT ![r] = d]
             /\ Call(r, "authenticate") /\ UNCHANGED metrics
    BY <1>6, <2>2 DEF Call, TypeInv, TypeOK
  <2> QED BY <1>2, <2>1, <2>2, <2>3 DEF Receive
<1> DEFINE cs == IF error = None THEN {} ELSE IF Count({"malformed"}) THEN {"malformed"} ELSE {"unavailable"}
<1>13. /\ cs \in SUBSET Counters /\ cs \subseteq Outcomes
       /\ {NameOf(c) : c \in cs} = IF error # None THEN {"requests"} ELSE {}
       /\ Count(cs) \/ (UNCHANGED metrics /\ cs = {})
       /\ (labels[r] = {} /\ cs = {}) \/ delivery'[r] = delivery[r]
  <2>1. NameOf("malformed") = "requests" /\ NameOf("unavailable") = "requests"
    BY DEF NameOf, Outcomes
  <2>2. CASE cs = {}
    BY <1>3, <1>12, <2>2
  <2>3. CASE cs = {"malformed"} /\ error # None /\ Count({"malformed"})
    BY <1>12, <2>1, <2>3 DEF Counters, Outcomes
  <2>4. CASE cs = {"unavailable"} /\ error # None /\ Count({"unavailable"})
    BY <1>12, <2>1, <2>4 DEF Counters, Outcomes
  <2> QED BY <1>12, <2>2, <2>3, <2>4
<1>14. /\ LabelsTell(r)' /\ Recorded(r)' = IF error # None THEN {"requests"} ELSE {}
       /\ \A q \in Requests : q # r => labels'[q] = labels[q]
       /\ labels' = [q \in Requests |-> labels'[q]]
  <2> HIDE DEF cs
  <2>1. /\ metrics \in [Counters -> Nat] /\ labels = [q \in Requests |-> labels[q]]
        /\ LabelsTell(r) /\ Recorded(r) = {}
    BY <1>1, <1>3 DEF TypeInv, TypeOK, ObservedTypes, Story, Recorded
  <2>2. \A c \in cs \ Outcomes : RepositoryLabel(identity'[r]) = RepositoryLabel(StageRepository(r, c))
    BY <1>13
  <2> QED BY <1>2, <1>3, <1>13, <2>1, <2>2, LabelsNext
<1>15. error = None => b \in SpansBegun /\ b.outcome = None /\ b.attributes = SetDeliveryId(delivery'[r])
                         /\ ValuesOf(b.attributes, "repository.id") = {}
  <2> SUFFICES ASSUME error = None
               PROVE  b \in SpansBegun /\ b.outcome = None /\ b.attributes = SetDeliveryId(delivery'[r])
                         /\ ValuesOf(b.attributes, "repository.id") = {}
    OBVIOUS
  <2>1. SetDeliveryId(delivery'[r]) \in Attributes /\ ValuesOf(SetDeliveryId(delivery'[r]), "repository.id") = {}
    BY <1>12, RepositoryAttributes
  <2> QED BY <2>1, BegunSpan DEF b
<1>16. \A o \in Operations : spans'[r][o] \in SpansBegun \union {None}
  BY <1>7, <1>11, <1>15
<1>17. ObservedTypes'
  BY <1>1, <1>2, <1>7, <1>10, <1>14, <1>16 DEF ObservedTypes
<1>18. \A q \in Requests : q # r => Same(q)
  BY <1>2, <1>7, <1>8, <1>14 DEF Same
<1>19. None # "failure" /\ None # "success" /\ None # "duplicate"
  BY NothingAssumption DEF SpanOutcomes
<1>20. /\ Outcome(r, "authenticate")' = None
       /\ \A o \in {"process", "update", "database"} : Outcome(r, o)' = None /\ ~Begins(r, o)'
       /\ \A o \in {"process", "update", "database"} : \A key : Values(r, o, key)' = {}
       /\ Outcome(r, "http")' = HttpSpan(r).outcome
       /\ Values(r, "http", "http.result")' = ValuesOf(HttpSpan(r).attributes, "http.result")
       /\ \A o \in Operations : Values(r, o, "repository.id")' = {}
       /\ error = None => Begins(r, "authenticate")'
  <2>1. /\ \A o \in {"process", "update", "database"} : spans'[r][o] = None
        /\ spans'[r]["http"] = HttpSpan(r) /\ HttpSpan(r) # None
        /\ ValuesOf(HttpSpan(r).attributes, "repository.id") = {}
    BY <1>7, <1>11, BegunIsSomething DEF Operations
  <2>2. /\ \A o \in {"process", "update", "database"} : Outcome(r, o)' = None /\ ~Begins(r, o)'
        /\ \A o \in {"process", "update", "database"} : \A key : Values(r, o, key)' = {}
    BY <2>1, NextReadings
  <2>3. /\ Outcome(r, "http")' = HttpSpan(r).outcome
        /\ Values(r, "http", "http.result")' = ValuesOf(HttpSpan(r).attributes, "http.result")
        /\ Values(r, "http", "repository.id")' = {}
    BY <2>1, NextReadings
  <2>4. /\ Outcome(r, "authenticate")' = None /\ Values(r, "authenticate", "repository.id")' = {}
        /\ error = None => Begins(r, "authenticate")'
    <3>1. CASE error # None
      <4>1. spans'[r]["authenticate"] = None
        BY <1>7, <3>1
      <4> QED BY <3>1, <4>1, NextReadings
    <3>2. CASE error = None
      <4>1. spans'[r]["authenticate"] = b /\ b # None /\ b.outcome = None
            /\ ValuesOf(b.attributes, "repository.id") = {}
        BY <1>7, <1>15, <3>2, BegunIsSomething
      <4> HIDE DEF b
      <4> QED BY <4>1, NextReadings
    <3> QED BY <3>1, <3>2
  <2> QED BY <2>2, <2>3, <2>4 DEF Operations
<1>21. identity'[r] = None
  BY <1>2, <1>3
<1>22. SpansTell(r)'
  BY <1>7, <1>11, <1>19, <1>20, <1>21 DEF SpansTell, Operations
<1>23. UpdateTells(r)'
  BY <1>14, <1>20, SMT DEF UpdateTells
<1>24. CASE error # None
  <2>1. /\ pc'[r] = "done" /\ Recorded(r)' = {"requests"} /\ status'[r] # None /\ status'[r] # 503
    BY <1>9, <1>12, <1>14, <1>24
  <2>2. {"requests"} \intersect FatalStages = {}
    BY DEF FatalStages
  <2>3. Outcome(r, "http")' = HttpOutcome(status'[r]) /\ Values(r, "http", "http.result")' = {HttpResult(status'[r])}
    BY <1>11, <1>20, <2>1
  <2>4. Done(r)'
    BY <1>19, <1>20, <1>21, <2>1, <2>2, <2>3, SMT DEF Done
  <2>5. Unanswered(r)' /\ AtAuthentication(r)' /\ AtProcessing(r)' /\ AtStore(r)'
    BY <2>1 DEF Unanswered, AtAuthentication, AtProcessing, AtStore, StoreCalls
  <2>6. RouterAnswers(r)'
    <3>1. ~Begins(r, "authenticate")'
      BY <1>7, <1>24, NextReadings
    <3> QED BY <1>20, <3>1 DEF RouterAnswers, Operations
  <2> QED BY <1>14, <1>17, <1>18, <1>22, <1>23, <2>4, <2>5, <2>6 DEF Story
<1>25. CASE error = None
  <2>1. /\ pc'[r] = "authenticate" /\ Recorded(r)' = {} /\ status'[r] = None /\ answer'[r] = None
        /\ named'[r] = name
    BY <1>8, <1>12, <1>14, <1>25
  <2>2. labels'[r] = {}
    BY <2>1 DEF Recorded
  <2>3. Unanswered(r)'
    BY <1>11, <1>20, <2>1 DEF Unanswered
  <2>4. AtAuthentication(r)'
    <3>1. spans'[r]["authenticate"].attributes = SetDeliveryId(delivery'[r])
      BY <1>7, <1>15, <1>25
    <3>2. spans'[r]["process"] = None /\ spans'[r]["update"] = None
      BY <1>7 DEF Operations
    <3>3. answer'[r] # "ok"
      BY <2>1, ConstantsAssumption DEF Answers
    <3> QED BY <1>20, <1>21, <1>25, <2>1, <2>2, <3>1, <3>2, <3>3 DEF AtAuthentication
  <2>5. AtProcessing(r)' /\ AtStore(r)' /\ Done(r)' /\ RouterAnswers(r)'
    BY <2>1 DEF AtProcessing, AtStore, Done, RouterAnswers
  <2> QED BY <1>14, <1>17, <1>18, <1>22, <1>23, <2>3, <2>4, <2>5 DEF Story
<1> QED BY <1>24, <1>25

\* Which answers a store call gives.
LEMMA StoreAnswers ==
  ASSUME TypeInv, NEW r \in Requests, StoreStep(r)
  PROVE  /\ answer'[r] \in {"new", "duplicate"} => pc[r] = "claim"
         /\ answer'[r] = "completed" => pc[r] = "complete"
<1>1. ASSUME NEW a, Answer(r, a) PROVE answer'[r] = a
  BY <1>1 DEF Answer, TypeInv, TypeOK
<1> QED BY <1>1 DEF StoreStep, Authenticate, ClaimDelivery, UpsertRun, ListLinks, GetRun, GetChecks,
                    RecordLink, Enqueue, Complete, StoreFails, Waiting

LEMMA StoreKeeps ==
  ASSUME TypeInv, ObservationInv, NEW r \in Requests, StoreObserved(r)
  PROVE  ObservedTypes' /\ Story(r)' /\ \A q \in Requests : q # r => Same(q)
<1>1. Story(r) /\ ObservedTypes
  BY DEF ObservationInv
<1>2. /\ StoreStep(r) /\ UNCHANGED <<pc, delivery, named, identity, status, labels>>
      /\ pc[r] \in StoreCalls
      /\ answer'[r] = "ok" /\ pc[r] = "authenticate" => named[r] = Registered
  BY StoreMoves DEF StoreObserved, InFlight
<1>3. PICK outcome \in {"success", "failure"} :
        /\ answer'[r] = "error" /\ pc[r] # "authenticate" => outcome = "failure"
        /\ spans' = [spans EXCEPT ![r]["database"] = WithOutcome(DatabaseSpan(pc[r]), outcome)]
  BY DEF StoreObserved
<1> DEFINE d == WithOutcome(DatabaseSpan(pc[r]), outcome)
<1>4. d \in SpansBegun /\ ValuesOf(d.attributes, "repository.id") = {}
  <2>1. DatabaseSpan(pc[r]) \in SpansBegun /\ ValuesOf(DatabaseSpan(pc[r]).attributes, "repository.id") = {}
    BY <1>2, DatabaseBegins
  <2> QED BY <2>1, SpanWithOutcome DEF SpanOutcomes
<1>5. spans' = [spans EXCEPT ![r]["database"] = d]
  BY <1>3
<1> HIDE DEF d
<1>6. /\ spans'[r]["database"] = d
      /\ \A o \in Operations \ {"database"} : spans'[r][o] = spans[r][o]
      /\ \A q \in Requests : q # r => spans'[q] = spans[q]
      /\ spans' \in [Requests -> [Operations -> SpansBegun \union {None}]]
  <2>1. spans \in [Requests -> [Operations -> SpansBegun \union {None}]]
    BY <1>1 DEF ObservedTypes
  <2> QED BY <1>4, <1>5, <2>1 DEF Operations
<1>7. ObservedTypes' /\ \A q \in Requests : q # r => Same(q)
  BY <1>1, <1>2, <1>6 DEF ObservedTypes, Same
<1>8. /\ \A o \in Operations \ {"database"} : \A key : Values(r, o, key)' = Values(r, o, key)
      /\ \A o \in Operations \ {"database"} : /\ Outcome(r, o)' = Outcome(r, o)
                                              /\ Begins(r, o)' = Begins(r, o)
      /\ Values(r, "database", "repository.id")' = {}
      /\ Recorded(r)' = Recorded(r) /\ Completion(r)' = Completion(r)
      /\ Processing(r)' = Processing(r) /\ UpdateAt(r)' = UpdateAt(r)
      /\ \A l : LabelOf(r, l)' = LabelOf(r, l)
  <2>1. \A o \in Operations \ {"database"} : Begins(r, o)' = Begins(r, o)
    BY <1>6 DEF Begins
  <2>2. \A o \in Operations \ {"database"} : Outcome(r, o)' = Outcome(r, o)
    BY <1>6, <2>1 DEF Outcome
  <2>3. \A o \in Operations \ {"database"} : \A key : Values(r, o, key)' = Values(r, o, key)
    BY <1>6, <2>1, Zenon DEF Values
  <2>4. Values(r, "database", "repository.id")' = {}
    <3>1. Values(r, "database", "repository.id")' =
            IF spans'[r]["database"] = None THEN {} ELSE ValuesOf(spans'[r]["database"].attributes, "repository.id")
      BY NextReadings, SMT
    <3> QED BY <1>4, <1>6, <3>1
  <2>5. /\ Recorded(r)' = Recorded(r) /\ Completion(r)' = Completion(r) /\ Processing(r)' = Processing(r)
    BY <1>2 DEF Recorded, Completion, Event, Processing
  <2>6. UpdateAt(r)' = UpdateAt(r)
    BY <1>2, <2>5, Zenon DEF UpdateAt
  <2>7. \A l : LabelOf(r, l)' = LabelOf(r, l)
    BY <1>2, <2>5, Zenon DEF LabelOf
  <2> QED BY <2>1, <2>2, <2>3, <2>4, <2>5, <2>6, <2>7
<1>9. LabelsTell(r)'
  BY <1>1, <1>2, <1>8 DEF Story, LabelsTell
<1>10. SpansTell(r)'
  <2>1. /\ Outcome(r, "authenticate")' = Outcome(r, "authenticate")
        /\ \A o \in {"process", "update", "http"} : Begins(r, o)' = Begins(r, o) /\ spans'[r][o] = spans[r][o]
    BY <1>6, <1>8 DEF Operations
  <2>2. \A o \in Operations : Values(r, o, "repository.id")' \subseteq Values(r, o, "repository.id")
    BY <1>8
  <2>3. SpansTell(r)
    BY <1>1 DEF Story
  <2> QED BY <1>2, <2>1, <2>2, <2>3, SMT DEF SpansTell
<1>11. UpdateTells(r)'
  <2>1. \A o \in {"process", "update"} : /\ Begins(r, o)' = Begins(r, o)
                                         /\ \A key : Values(r, o, key)' = Values(r, o, key)
    BY <1>8 DEF Operations
  <2>2. UpdateTells(r)
    BY <1>1 DEF Story
  <2> QED BY <1>2, <1>8, <2>1, <2>2, SMT DEF UpdateTells
<1>12. Unanswered(r)'
  <2>1. Outcome(r, "http")' = Outcome(r, "http") /\ Outcome(r, "process")' = Outcome(r, "process")
    BY <1>8 DEF Operations
  <2> QED BY <1>1, <1>2, <1>8, <2>1 DEF Story, Unanswered
<1>13. AtAuthentication(r)'
  <2>1. pc'[r] # "unsent"
    BY <1>2 DEF StoreCalls
  <2>2. /\ Begins(r, "authenticate")' = Begins(r, "authenticate")
        /\ spans'[r]["authenticate"] = spans[r]["authenticate"]
        /\ spans'[r]["process"] = spans[r]["process"] /\ spans'[r]["update"] = spans[r]["update"]
    BY <1>6, <1>8 DEF Operations
  <2>3. AtAuthentication(r)
    BY <1>1 DEF Story
  <2> QED BY <1>2, <2>1, <2>2, <2>3, SMT DEF AtAuthentication
<1>14. AtProcessing(r)'
  <2>1. spans'[r]["process"] = spans[r]["process"] /\ spans'[r]["update"] = spans[r]["update"]
    BY <1>6 DEF Operations
  <2> QED BY <1>1, <1>2, <1>8, <2>1 DEF Story, AtProcessing
<1>15. AtStore(r)'
  BY <1>2, <1>3, <1>6, StoreAnswers DEF AtStore, d
<1>16. Done(r)' /\ RouterAnswers(r)'
  BY <1>2 DEF Done, RouterAnswers, StoreCalls
<1> QED BY <1>7, <1>9, <1>10, <1>11, <1>12, <1>13, <1>14, <1>15, <1>16 DEF Story

-----------------------------------------------------------------------------
(* The invariant.                                                          *)

LEMMA StepShape ==
  ASSUME TypeInv, ObservationInv, NEW r \in Requests,
         ReceiveObserved(r) \/ StoreObserved(r) \/ AuthenticatedObserved(r) \/ ProcessedObserved(r)
  PROVE  ObservationInv'
<1>1. ObservedTypes' /\ Story(r)' /\ \A q \in Requests : q # r => Same(q)
  <2>1. CASE ProcessedObserved(r)
    <3>1. Claimed(r) \/ RunUpserted(r) \/ LinksListed(r) \/ RunRead(r) \/ ChecksRead(r)
            \/ LinkRecorded(r) \/ QueueApplied(r)
      BY <2>1 DEF ProcessedObserved, HandlerStep, Authenticated, Answered
    <3> QED BY <2>1, <3>1, ClaimedObserved, LinkedJobsObserved, QueueAppliedObserved
  <2> QED BY <2>1, ReceiveKeeps, StoreKeeps, AuthenticatedKeeps
<1>2. \A q \in Requests : q # r => pc'[q] = pc[q] /\ answer'[q] = answer[q]
  BY HandlerMoves, StoreMoves, ReceiveMoves
     DEF ReceiveObserved, StoreObserved, AuthenticatedObserved, ProcessedObserved, HandlerStep
<1>3. ASSUME NEW q \in Requests, q # r PROVE Story(q)'
  BY <1>1, <1>2, <1>3, StoryStays DEF ObservationInv
<1> QED BY <1>1, <1>3 DEF ObservationInv

LEMMA ObservationInductive ==
  TypeInv /\ ObservationInv /\ [NextObserved]_observed_vars => ObservationInv'
<1> SUFFICES ASSUME TypeInv, ObservationInv, [NextObserved]_observed_vars PROVE ObservationInv'
  OBVIOUS
<1>1. ASSUME NEW r \in Requests,
             ReceiveObserved(r) \/ StoreObserved(r) \/ AuthenticatedObserved(r) \/ ProcessedObserved(r)
      PROVE  ObservationInv'
  BY <1>1, StepShape
<1>2. ASSUME UNCHANGED observation,
             Crash \/ PruneClaims \/ Tick \/ Idle \/ UNCHANGED vars \/ \E r \in Requests : Drop(r)
      PROVE  ObservationInv'
  <2>1. delivery' = delivery /\ \A q \in Requests :
          \/ pc'[q] = pc[q] /\ (pc[q] \in StoreCalls => answer'[q] = answer[q])
          \/ pc'[q] = "dropped" /\ pc[q] \in StoreCalls
    BY <1>2, OtherMoves DEF InFlight
  <2>2. \A q \in Requests : Same(q)
    BY <1>2, <2>1 DEF Same, observation
  <2>3. \A q \in Requests : Story(q)'
    BY <2>1, <2>2, StoryStays DEF ObservationInv
  <2>4. ObservedTypes'
    BY <1>2 DEF ObservationInv, ObservedTypes, observation
  <2> QED BY <2>3, <2>4 DEF ObservationInv
<1>3. CASE UNCHANGED observed_vars
  BY <1>2, <1>3 DEF observed_vars
<1>4. CASE NextObserved
  BY <1>1, <1>2, <1>4 DEF NextObserved, DropObserved, SurroundingsObserved
<1> QED BY <1>3, <1>4

LEMMA InitObservation == InitObserved => ObservationInv
<1> SUFFICES ASSUME InitObserved PROVE ObservationInv
  OBVIOUS
<1>1. ObservedTypes
  BY DEF InitObserved, ObservedTypes
<1>2. ASSUME NEW r \in Requests PROVE Story(r)
  <2>1. /\ pc[r] = "unsent" /\ labels[r] = {} /\ identity[r] = None /\ status[r] = None
        /\ \A o \in Operations : spans[r][o] = None
    BY DEF InitObserved, Init
  <2>2. /\ \A o \in Operations : ~Begins(r, o) /\ Outcome(r, o) = None
        /\ \A o \in Operations : \A key : Values(r, o, key) = {}
        /\ Recorded(r) = {}
    BY <2>1 DEF Begins, Outcome, Values, Recorded
  <2>3. None # "success"
    BY NothingAssumption DEF SpanOutcomes
  <2>4. LabelsTell(r)
    BY <2>1 DEF LabelsTell
  <2>5. SpansTell(r)
    BY <2>1, <2>2, <2>3 DEF SpansTell, Operations
  <2>6. UpdateTells(r)
    BY <2>1, <2>2, SMT DEF UpdateTells, Operations
  <2>7. Unanswered(r)
    BY <2>1, <2>2 DEF Unanswered, Operations
  <2>8. AtAuthentication(r) /\ AtProcessing(r) /\ AtStore(r) /\ Done(r) /\ RouterAnswers(r)
    BY <2>1 DEF AtAuthentication, AtProcessing, AtStore, Done, RouterAnswers, StoreCalls
  <2> QED BY <2>4, <2>5, <2>6, <2>7, <2>8 DEF Story
<1> QED BY <1>1, <1>2 DEF ObservationInv

\* The observed requests are the requests of WebhookHandler: recording changes nothing.
THEOREM ObservationIsTransparent == SpecObserved => Spec
<1>1. InitObserved => Init
  BY DEF InitObserved
<1>2. [NextObserved]_observed_vars => [Next]_vars
  <2>1. NextObserved => Next
    BY DEF NextObserved, ReceiveObserved, StoreObserved, AuthenticatedObserved, ProcessedObserved,
           DropObserved, SurroundingsObserved, Next, HandlerStep
  <2>2. UNCHANGED observed_vars => UNCHANGED vars
    BY DEF observed_vars
  <2> QED BY <2>1, <2>2
<1> QED BY <1>1, <1>2, PTL DEF SpecObserved, Spec

LEMMA ObservationCorrect == SpecObserved => []ObservationInv
<1>1. SpecObserved => []TypeInv
  BY ObservationIsTransparent, TypeCorrect, PTL DEF TypeInv
<1> QED BY <1>1, InitObservation, ObservationInductive, PTL DEF SpecObserved

\* Only an authenticated repository is named, in every label and every span: the
\* extractor and unavailable_error know the claimed name before it is authenticated.
THEOREM NamesAreAuthenticated == SpecObserved => []IdentityIsAuthenticated
<1>1. ObservationInv => IdentityIsAuthenticated
  <2> SUFFICES ASSUME ObservationInv, NEW r \in Requests
               PROVE  LET authenticated == Outcome(r, "authenticate") = "success"
                          name == IF authenticated THEN named[r] ELSE None
                      IN  /\ authenticated => named[r] = Registered
                          /\ \A l \in labels[r] : l.repository = RepositoryLabel(name)
                          /\ \A o \in Operations :
                               Values(r, o, "repository.id") \subseteq {Registered} \intersect {name}
                          /\ \A o \in {"process", "update"} :
                               Begins(r, o) => spans[r][o].repository = name
                          /\ Begins(r, "http") =>
                               spans[r]["http"].repository = IF status[r] = None THEN None ELSE name
    BY Zenon DEF IdentityIsAuthenticated
  <2>1. LabelsTell(r) /\ SpansTell(r)
    BY DEF ObservationInv, Story
  <2>2. identity[r] = IF Outcome(r, "authenticate") = "success" THEN named[r] ELSE None
    BY <2>1 DEF SpansTell
  <2>3. \A l \in labels[r] : l.repository = RepositoryLabel(identity[r])
    BY <2>1 DEF LabelsTell, LabelOf
  <2>4. Outcome(r, "authenticate") = "success" => named[r] = Registered
    BY <2>1 DEF SpansTell
  <2>5. \A o \in Operations : Values(r, o, "repository.id") \subseteq {Registered} \intersect {identity[r]}
    BY <2>1 DEF SpansTell
  <2> QED BY <2>1, <2>2, <2>3, <2>4, <2>5 DEF SpansTell
<1> QED BY <1>1, ObservationCorrect, PTL



\* The label sets of a request, by their counters.
LEMMA ToldLabels ==
  ASSUME NEW r, LabelsTell(r), NEW c
  PROVE  /\ c \in Recorded(r) <=> Told(r, {c}) # {}
         /\ \A l, m \in Told(r, {c}) : l.values = m.values => l = m
         /\ \A cs : Told(r, cs) = {} <=> Recorded(r) \intersect cs = {}
<1>1. \A l, m \in Told(r, {c}) : l.values = m.values => l = m
  BY DEF Told, LabelsTell, LabelOf
<1>2. \A k : k \in Recorded(r) <=> \E l \in labels[r] : l.counter = k
  BY DEF Recorded
<1> QED BY <1>1, <1>2 DEF Told

LEMMA ResultNames ==
  ASSUME NEW code \in Statuses
  PROVE  ResultOf(code) = CASE code = 204 -> "accepted"
                            [] code = 400 -> "malformed"
                            [] code = 401 -> "unauthorized"
                            [] code = 413 -> "too_large"
                            [] code = 415 -> "unsupported"
                            [] code \in {405, 503} -> "unavailable"
BY DEF ResultOf, Statuses

LEMMA ResponseReadings ==
  ASSUME NEW code \in Statuses
  PROVE  /\ HttpOutcome(code) = "success" <=> code = 204
         /\ HttpResult(code) = "server_error" <=> code = 503
         /\ HttpResult(code) = "client_error" <=> code \in 400 .. 499
BY HttpReadings DEF Statuses

LEMMA RenderingsFollow ==
  ASSUME NEW r, LabelsTell(r), UpdateTells(r)
  PROVE  RenderingsAgree(r)
<1> DEFINE raw == RawOf[delivery[r]]
<1>1. ASSUME NEW l \in Told(r, {"events"})
      PROVE  /\ l.values[1] = EventType(raw) /\ l.values[2] = Action(raw)
             /\ "events" \in Recorded(r)
  <2>1. l \in labels[r] /\ l.counter = "events"
    BY <1>1 DEF Told
  <2>2. l.values = <<EventType(raw), Action(raw)>>
    BY <2>1 DEF LabelsTell, LabelOf, EventLabels
  <2> QED BY <2>1, <2>2 DEF Recorded
<1>2. ASSUME NEW l \in Told(r, {"merge_group_events"})
      PROVE  /\ l.values[1] = MergeGroupTransition(raw).action
             /\ l.values[2] = MergeGroupTransition(raw).reason
             /\ "merge_group_events" \in Recorded(r)
  <2>1. l \in labels[r] /\ l.counter = "merge_group_events"
    BY <1>2 DEF Told
  <2>2. l.values = <<MergeGroupTransition(raw).action, MergeGroupTransition(raw).reason>>
    BY <2>1 DEF LabelsTell, LabelOf, MergeGroupLabels
  <2> QED BY <2>1, <2>2 DEF Recorded
<1>3. ASSUME NEW l \in Told(r, {"queue_outcomes"})
      PROVE  l.values = CompletionLabels(Completion(r)) /\ "queue_outcomes" \in Recorded(r)
  BY <1>3 DEF Told, LabelsTell, LabelOf, Recorded
<1>4. /\ Told(r, {"events"}) # {} <=> "events" \in Recorded(r)
      /\ Told(r, {"merge_group_events"}) # {} <=> "merge_group_events" \in Recorded(r)
  BY ToldLabels
<1> HIDE DEF raw
<1>5. \A l \in Told(r, {"events"}) : \A o \in {"process", "update"} : Begins(r, o) =>
         /\ Values(r, o, "webhook.event_type") = {l.values[1]}
         /\ Values(r, o, "webhook.action") = {l.values[2]}
  BY <1>1 DEF UpdateTells, raw
<1>6. \A l \in Told(r, {"merge_group_events"}) :
       /\ Values(r, "update", "merge_group.action") = {l.values[1]}
       /\ Values(r, "update", "merge_group.reason") = {l.values[2]}
  BY <1>2 DEF UpdateTells, raw
<1>7. \A l \in Told(r, {"queue_outcomes"}) :
       /\ Values(r, "update", "queue.outcome") = {l.values[1]}
       /\ Values(r, "update", "queue.reason") = {l.values[2]}
  BY <1>3 DEF UpdateTells
<1>8. /\ Begins(r, "update") => Told(r, {"events"}) # {}
      /\ Told(r, {"merge_group_events"}) # {} <=> Values(r, "update", "queue.entity") = {"merge_group"}
  BY <1>4 DEF UpdateTells
<1> QED BY <1>5, <1>6, <1>7, <1>8 DEF RenderingsAgree

\* The counters, the spans and the answer of a request tell one story, whatever is
\* refused, fails or is dropped: observe_http_request, observe_webhook_request and
\* webhook_handler know of one another by a status and a cell only.  The exception is a
\* request of another method: the middleware tells the service's failure of it, the HTTP
\* span the client's, and nothing else is told.
THEOREM LayersTellOneStory == SpecObserved => []LayersAgree
<1>1. ObservationInv => LayersAgree
  <2> SUFFICES ASSUME ObservationInv, NEW r \in Requests
               PROVE  LET results == Told(r, {"requests"})
                          fatal == Told(r, {"authentication", "delivery_claim", "database"})
                      IN  /\ RenderingsAgree(r)
                          /\ pc[r] # "done" =>
                               /\ results = {} /\ status[r] = None
                               /\ Outcome(r, "http") = None /\ Outcome(r, "process") = None
                          /\ pc[r] = "done" =>
                               /\ Cardinality(results) = 1
                               /\ \A l \in results :
                                    l.values = <<CASE status[r] = 204 -> "accepted"
                                                   [] status[r] = 400 -> "malformed"
                                                   [] status[r] = 401 -> "unauthorized"
                                                   [] status[r] = 413 -> "too_large"
                                                   [] status[r] = 415 -> "unsupported"
                                                   [] status[r] \in {405, 503} -> "unavailable">>
                               /\ Outcome(r, "http") = "success" <=> status[r] = 204
                               /\ Values(r, "http", "http.result") = {"server_error"} <=> fatal # {}
                               /\ Values(r, "http", "http.result") = {"client_error"} <=> status[r] \in 400 .. 499
                               /\ Cardinality(fatal) = IF status[r] = 503 THEN 1 ELSE 0
                               /\ status[r] = 405 => \A o \in Operations \ {"http"} : ~Begins(r, o)
                               /\ \A l \in fatal :
                                    /\ Values(r, "database", "db.operation.name") \subseteq FatalCalls(l.values[1])
                                    /\ l.counter # "authentication" => Outcome(r, "database") = "failure"
                               /\ identity[r] # None =>
                                    /\ Outcome(r, "process") = "failure" <=> status[r] # 204
                                    /\ Outcome(r, "process") = "duplicate" <=> Told(r, {"duplicates"}) # {}
                               /\ identity[r] = None => ~Begins(r, "process")
                               /\ Outcome(r, "update") = "failure" <=> Told(r, {"queue_state"}) # {}
                               /\ Values(r, "update", "operation.failure") # {} <=> Told(r, {"queue_state"}) # {}
                               /\ Told(r, {"queue_outcomes"}) # {} => Outcome(r, "update") = "success"
    BY Zenon DEF LayersAgree
  <2> DEFINE results == Told(r, {"requests"})
             fatal == Told(r, FatalStages)
  <2>1. Story(r) /\ ObservedTypes
    BY DEF ObservationInv
  <2>2. LabelsTell(r) /\ RenderingsAgree(r)
    BY <2>1, RenderingsFollow DEF Story
  <2>3. /\ \A c : c \in Recorded(r) <=> Told(r, {c}) # {}
        /\ fatal = {} <=> Recorded(r) \intersect FatalStages = {}
        /\ \A l, m \in results : l.values = m.values => l = m
    BY <2>2, ToldLabels
  <2>4. \A l \in results : l.values = <<ResultOf(status[r])>>
    BY <2>2 DEF LabelsTell, LabelOf, Told
  <2>5. \A l \in fatal : /\ l.counter \in FatalStages /\ l.counter \in Recorded(r)
                         /\ l.values = <<l.counter>>
                         /\ l = [counter |-> l.counter, repository |-> RepositoryLabel(identity[r]),
                                 values |-> <<l.counter>>]
    <3> SUFFICES ASSUME NEW l \in fatal
                 PROVE  /\ l.counter \in FatalStages /\ l.counter \in Recorded(r)
                        /\ l.values = <<l.counter>>
                        /\ l = [counter |-> l.counter, repository |-> RepositoryLabel(identity[r]),
                                values |-> <<l.counter>>]
      OBVIOUS
    <3>1. l \in labels[r] /\ l.counter \in FatalStages
      BY DEF Told
    <3>2. LabelOf(r, l) /\ l.counter \in FailureStages /\ l.counter \in Recorded(r)
      BY <2>2, <3>1 DEF LabelsTell, FatalStages, FailureStages, Recorded
    <3> QED BY <3>1, <3>2 DEF LabelOf
  <2>6. CASE pc[r] # "done"
    <3>1. Unanswered(r)
      BY <2>1 DEF Story
    <3>2. results = {}
      BY <2>3, <2>6, <3>1 DEF Unanswered
    <3> QED BY <2>2, <2>6, <3>1, <3>2 DEF Unanswered
  <2>7. CASE pc[r] = "done"
    <3>1. Done(r) /\ "requests" \in Recorded(r) /\ status[r] \in Statuses
      BY <2>1, <2>7 DEF Story, Done, ObservedTypes
    <3>2. Cardinality(results) = 1
      <4>1. PICK l \in results : TRUE
        BY <2>3, <3>1
      <4>2. results = {l}
        BY <2>3, <2>4, <4>1
      <4> HIDE DEF results
      <4> QED BY <4>2, FS_Singleton
    <3>3. \A l \in results :
             l.values = <<CASE status[r] = 204 -> "accepted"
                            [] status[r] = 400 -> "malformed"
                            [] status[r] = 401 -> "unauthorized"
                            [] status[r] = 413 -> "too_large"
                            [] status[r] = 415 -> "unsupported"
                            [] status[r] \in {405, 503} -> "unavailable">>
      <4>1. ResultOf(status[r]) = CASE status[r] = 204 -> "accepted"
                            [] status[r] = 400 -> "malformed"
                            [] status[r] = 401 -> "unauthorized"
                            [] status[r] = 413 -> "too_large"
                            [] status[r] = 415 -> "unsupported"
                            [] status[r] \in {405, 503} -> "unavailable"
        BY <3>1, ResultNames, ZenonT(40)
      <4> QED BY <2>4, <4>1, ZenonT(30)
    <3>4. Outcome(r, "http") = "success" <=> status[r] = 204
      BY <2>7, <3>1, ResponseReadings DEF Done
    <3>5. status[r] = 503 <=> fatal # {}
      BY <2>3, <2>7, <3>1 DEF Done
    <3>6. Values(r, "http", "http.result") = {"server_error"} <=> fatal # {}
      <4>1. Values(r, "http", "http.result") = {HttpResult(status[r])}
        BY <2>7, <3>1 DEF Done
      <4>2. HttpResult(status[r]) = "server_error" <=> status[r] = 503
        BY <3>1, ResponseReadings
      <4> HIDE DEF fatal
      <4> QED BY <3>5, <4>1, <4>2
    <3>13. Values(r, "http", "http.result") = {"client_error"} <=> status[r] \in 400 .. 499
      <4>1. Values(r, "http", "http.result") = {HttpResult(status[r])}
        BY <2>7, <3>1 DEF Done
      <4>2. HttpResult(status[r]) = "client_error" <=> status[r] \in 400 .. 499
        BY <3>1, ResponseReadings
      <4> QED BY <4>1, <4>2, Zenon
    <3>14. status[r] = 405 => \A o \in Operations \ {"http"} : ~Begins(r, o)
      BY <2>1, <2>7, Zenon DEF Story, RouterAnswers
    <3>7. ASSUME status[r] = 503
          PROVE  \E stage \in FatalStages :
                   /\ Recorded(r) \intersect FatalStages = {stage}
                   /\ Values(r, "database", "db.operation.name") \subseteq FatalCalls(stage)
                   /\ stage # "authentication" => Outcome(r, "database") = "failure"
      BY <2>7, <3>1, <3>7, Zenon DEF Done
    <3>8. Cardinality(fatal) = IF status[r] = 503 THEN 1 ELSE 0
      <4>1. CASE status[r] = 503
        <5>1. PICK l \in fatal : TRUE
          BY <3>5, <4>1
        <5>2. \A m \in fatal : m = l
          <6>1. \A m \in fatal : m.counter = l.counter
            BY <2>5, <3>7, <4>1, <5>1
          <6> QED BY <2>5, <5>1, <6>1
        <5>3. fatal = {l}
          BY <5>1, <5>2
        <5> HIDE DEF fatal
        <5> QED BY <4>1, <5>3, FS_Singleton
      <4>2. CASE status[r] # 503
        <5>1. fatal = {}
          BY <3>5, <4>2
        <5> HIDE DEF fatal
        <5> QED BY <4>2, <5>1, FS_EmptySet
      <4> QED BY <4>1, <4>2
    <3>9. \A l \in fatal :
             /\ Values(r, "database", "db.operation.name") \subseteq FatalCalls(l.values[1])
             /\ l.counter # "authentication" => Outcome(r, "database") = "failure"
      <4> SUFFICES ASSUME NEW l \in fatal
                   PROVE  /\ Values(r, "database", "db.operation.name") \subseteq FatalCalls(l.values[1])
                          /\ l.counter # "authentication" => Outcome(r, "database") = "failure"
        OBVIOUS
      <4>1. l.counter \in Recorded(r) \intersect FatalStages /\ l.values = <<l.counter>>
        BY <2>5
      <4>2. l.values[1] = l.counter
        BY <4>1
      <4>3. status[r] = 503
        BY <3>5
      <4> HIDE DEF fatal
      <4> QED BY <3>7, <4>1, <4>2, <4>3
    <3>10. /\ "duplicates" \in Recorded(r) <=> Told(r, {"duplicates"}) # {}
           /\ "queue_state" \in Recorded(r) <=> Told(r, {"queue_state"}) # {}
           /\ "queue_outcomes" \in Recorded(r) <=> Told(r, {"queue_outcomes"}) # {}
      BY <2>3, Zenon
    <3>11. /\ identity[r] # None =>
               /\ Outcome(r, "process") = "failure" <=> status[r] # 204
               /\ Outcome(r, "process") = "duplicate" <=> Told(r, {"duplicates"}) # {}
           /\ identity[r] = None => ~Begins(r, "process")
           /\ Outcome(r, "update") = "failure" <=> Told(r, {"queue_state"}) # {}
           /\ Values(r, "update", "operation.failure") # {} <=> Told(r, {"queue_state"}) # {}
           /\ Told(r, {"queue_outcomes"}) # {} => Outcome(r, "update") = "success"
      BY <2>7, <3>1, <3>10, SMT DEF Done
    <3>12. fatal = Told(r, {"authentication", "delivery_claim", "database"})
      BY DEF FatalStages
    <3> HIDE DEF fatal
    <3> QED BY <2>2, <2>7, <3>2, <3>3, <3>4, <3>6, <3>8, <3>9, <3>11, <3>12, <3>13, <3>14, Zenon
  <2> QED BY <2>6, <2>7, Zenon
<1> QED BY <1>1, ObservationCorrect, PTL
=============================================================================
