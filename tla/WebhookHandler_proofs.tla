------------------------ MODULE WebhookHandler_proofs ------------------------
(***************************************************************************)
(* Proofs about WebhookHandler for any finite number of requests, any      *)
(* deliveries and subjects, any retention period and any pruning batch:    *)
(* what the requests do with their claims, and what they leave behind in   *)
(* rows, summaries, attempts and counters.                                 *)
(***************************************************************************)
EXTENDS WebhookHandler, FiniteSetTheorems, TLAPS

\* A suspended task knows its delivery: the type invariant needs it, because a
\* store step looks up the subject of the delivery.
Carries == \A r \in Requests : InFlight(r) => delivery[r] \in Deliveries

TypeInv == TypeOK /\ Carries

LEMMA CountType ==
  ASSUME metrics \in [Counters -> Nat], NEW cs, Count(cs)
  PROVE  metrics' \in [Counters -> Nat]
BY DEF Count

LEMMA CallTypes ==
  ASSUME TypeInv, NEW r \in Requests, NEW call \in StoreCalls, Call(r, call)
  PROVE  /\ pc' \in [Requests -> StoreCalls \union {"unsent", "done", "dropped"}]
         /\ answer' \in [Requests -> Answers \union {None}]
         /\ response' \in [Requests -> Responses \union {None}]
BY DEF Call, TypeInv, TypeOK

LEMMA NotAllowedTypes ==
  ASSUME TypeInv, NEW r \in Requests, RespondNotAllowed(r)
  PROVE  /\ pc' \in [Requests -> StoreCalls \union {"unsent", "done", "dropped"}]
         /\ answer' \in [Requests -> Answers \union {None}]
         /\ response' \in [Requests -> Responses \union {None}]
         /\ metrics' \in [Counters -> Nat]
BY CountType DEF RespondNotAllowed, Responses, TypeInv, TypeOK

LEMMA RespondTypes ==
  ASSUME TypeInv, NEW r \in Requests, NEW outcome \in Outcomes, NEW cs,
         Respond(r, outcome, cs)
  PROVE  /\ pc' \in [Requests -> StoreCalls \union {"unsent", "done", "dropped"}]
         /\ answer' \in [Requests -> Answers \union {None}]
         /\ response' \in [Requests -> Responses \union {None}]
         /\ metrics' \in [Counters -> Nat]
BY CountType DEF Respond, Responses, TypeInv, TypeOK

LEMMA AnswerTypes ==
  ASSUME TypeInv, NEW r \in Requests, NEW a \in Answers, Answer(r, a)
  PROVE  /\ pc' \in [Requests -> StoreCalls \union {"unsent", "done", "dropped"}]
         /\ answer' \in [Requests -> Answers \union {None}]
         /\ delivery' \in [Requests -> Deliveries \union {None}]
         /\ metrics' \in [Counters -> Nat]
         /\ now' \in Nat /\ crashes' \in Nat
         /\ response' \in [Requests -> Responses \union {None}]
         /\ observed' \subseteq Requests /\ jobTraces' \subseteq Requests
         /\ pipeline' \in [Requests -> SUBSET Deliveries]
         /\ Carries'
BY DEF Answer, traces, TypeInv, TypeOK, Carries, InFlight

LEMMA StoreStepTypes ==
  ASSUME TypeInv, NEW r \in Requests, StoreStep(r)
  PROVE  TypeInv'
<1> USE DEF TypeInv, TypeOK
<1>d. ASSUME InFlight(r) PROVE Subject(r) \in Subjects /\ delivery[r] \in Deliveries
  BY <1>d, ConstantsAssumption DEF Carries, Subject
<1>1. CASE Authenticate(r)
  <2>1. PICK a \in {"ok", "unauthorized"} : Answer(r, a)
    BY <1>1 DEF Authenticate
  <2> QED BY <1>1, <2>1, AnswerTypes DEF Authenticate, durable, Answers
<1>2. CASE ClaimDelivery(r)
  <2>1. PICK a \in {"new", "duplicate"} : Answer(r, a)
    BY <1>2 DEF ClaimDelivery
  <2> QED BY <1>2, <2>1, AnswerTypes DEF ClaimDelivery, Answers
<1>3. CASE UpsertRun(r)
  <2>1. InFlight(r)
    BY <1>3 DEF UpsertRun, Waiting, InFlight, StoreCalls
  <2> QED BY <1>3, <1>d, <2>1, AnswerTypes DEF UpsertRun, Answers
<1>4. CASE ListLinks(r)
  <2>1. listed' \in [Requests -> SUBSET Deliveries]
    BY <1>4 DEF ListLinks
  <2> QED BY <1>4, <2>1, AnswerTypes DEF ListLinks, durable, Answers
<1>5. CASE GetRun(r)
  <2>1. PICK a \in {"found", "missing"} : Answer(r, a)
    BY <1>5 DEF GetRun
  <2> QED BY <1>5, <2>1, AnswerTypes DEF GetRun, durable, Answers
<1>6. CASE GetChecks(r)
  BY <1>6, AnswerTypes DEF GetChecks, durable, Answers
<1>7. CASE RecordLink(r)
  <2>1. InFlight(r)
    BY <1>7 DEF RecordLink, Waiting, InFlight, StoreCalls
  <2> QED BY <1>7, <1>d, <2>1, AnswerTypes DEF RecordLink, Answers
<1>8. CASE Enqueue(r)
  <2>1. PICK a \in {"created", "already_active"} : Answer(r, a)
    BY <1>8 DEF Enqueue
  <2>2. attempts' \in [Subjects -> SUBSET {"pending", "completed"}]
    BY <1>8 DEF Enqueue
  <2> QED BY <1>8, <2>1, <2>2, AnswerTypes DEF Enqueue, Answers
<1>9. CASE Complete(r)
  <2>1. PICK a \in {"completed", "already_completed", "missing"} : Answer(r, a)
    BY <1>9 DEF Complete
  <2>2. attempts' \in [Subjects -> SUBSET {"pending", "completed"}]
    BY <1>9 DEF Complete
  <2> QED BY <1>9, <2>1, <2>2, AnswerTypes DEF Complete, Answers
<1>10. CASE StoreFails(r)
  BY <1>10, AnswerTypes DEF StoreFails, durable, Answers
<1> QED
  BY <1>1, <1>2, <1>3, <1>4, <1>5, <1>6, <1>7, <1>8, <1>9, <1>10 DEF StoreStep

LEMMA ReceiveTypes ==
  ASSUME TypeInv, NEW r \in Requests, Receive(r)
  PROVE  TypeInv'
<1> USE DEF TypeInv, TypeOK
<1>1. CASE Respond(r, "malformed", {}) /\ UNCHANGED delivery
  <2>1. Carries'
    BY <1>1 DEF Respond, Carries, InFlight, StoreCalls
  <2> QED BY <1>1, <2>1, RespondTypes DEF Receive, HandlerFrame, durable, traces, Outcomes
<1>3. CASE RespondNotAllowed(r) /\ UNCHANGED delivery
  <2>1. Carries'
    BY <1>3 DEF RespondNotAllowed, Carries, InFlight, StoreCalls
  <2> QED BY <1>3, <2>1, NotAllowedTypes DEF Receive, HandlerFrame, durable, traces
<1>2. CASE /\ \E d \in Deliveries : delivery' = [delivery EXCEPT ![r] = d]
           /\ Call(r, "authenticate")
           /\ UNCHANGED metrics
  <2>1. PICK d \in Deliveries : delivery' = [delivery EXCEPT ![r] = d]
    BY <1>2
  <2>2. Carries'
    BY <1>2, <2>1 DEF Call, Carries, InFlight
  <2>3. "authenticate" \in StoreCalls
    BY DEF StoreCalls
  <2> QED BY <1>2, <2>1, <2>2, <2>3, CallTypes DEF Receive, HandlerFrame, durable, traces
<1> QED BY <1>1, <1>2, <1>3 DEF Receive

\* A resumed task either suspends at the next call or responds.
LEMMA ResumeTypes ==
  ASSUME TypeInv, NEW r \in Requests, InFlight(r),
         \/ \E call \in StoreCalls, cs \in SUBSET Counters :
              Call(r, call) /\ (Count(cs) \/ UNCHANGED metrics)
         \/ \E outcome \in Outcomes, cs \in SUBSET Counters : Respond(r, outcome, cs),
         HandlerFrame, UNCHANGED delivery
  PROVE  /\ pc' \in [Requests -> StoreCalls \union {"unsent", "done", "dropped"}]
         /\ answer' \in [Requests -> Answers \union {None}]
         /\ response' \in [Requests -> Responses \union {None}]
         /\ metrics' \in [Counters -> Nat]
         /\ Carries'
<1> USE DEF TypeInv
<1>1. ASSUME NEW call \in StoreCalls, NEW cs \in SUBSET Counters,
             Call(r, call), Count(cs) \/ UNCHANGED metrics
      PROVE  metrics' \in [Counters -> Nat] /\ Carries'
  <2>1. metrics' \in [Counters -> Nat]
    BY <1>1, CountType DEF TypeOK
  <2>2. Carries'
    BY <1>1 DEF Call, Carries, InFlight, TypeOK
  <2> QED BY <2>1, <2>2
<1>2. ASSUME NEW outcome \in Outcomes, NEW cs \in SUBSET Counters, Respond(r, outcome, cs)
      PROVE  Carries'
  BY <1>2 DEF Respond, Carries, InFlight, StoreCalls, TypeOK
<1>3. CASE \E call \in StoreCalls, cs \in SUBSET Counters :
             Call(r, call) /\ (Count(cs) \/ UNCHANGED metrics)
  BY <1>1, <1>3, CallTypes
<1>4. CASE \E outcome \in Outcomes, cs \in SUBSET Counters : Respond(r, outcome, cs)
  BY <1>2, <1>4, RespondTypes
<1> QED BY <1>3, <1>4

\* What a handler step does to the task: the shape ResumeTypes needs.
Resumes(r) ==
  \/ \E call \in StoreCalls, cs \in SUBSET Counters :
       Call(r, call) /\ (Count(cs) \/ UNCHANGED metrics)
  \/ \E outcome \in Outcomes, cs \in SUBSET Counters : Respond(r, outcome, cs)

LEMMA HandlerStepShape ==
  ASSUME NEW r \in Requests, HandlerStep(r)
  PROVE  Resumes(r) /\ InFlight(r) /\ HandlerFrame /\ UNCHANGED delivery
<1> USE DEF Resumes, Outcomes, FailureStages, Counters, StoreCalls, InFlight, Answered
<1>e. ASSUME EmitJob(r) PROVE Resumes(r)
  BY <1>e DEF EmitJob
<1>1. CASE Authenticated(r)
  BY <1>1 DEF Authenticated
<1>2. CASE Claimed(r)
  <2>1. CASE Dispatch(r)
    BY <1>2, <2>1 DEF Claimed, Dispatch, AdmitJob
  <2> QED BY <1>2, <2>1 DEF Claimed
<1>3. CASE RunUpserted(r)
  BY <1>3 DEF RunUpserted
<1>4. CASE LinksListed(r)
  BY <1>4 DEF LinksListed
<1>5. CASE RunRead(r)
  BY <1>5, <1>e DEF RunRead
<1>6. CASE ChecksRead(r)
  BY <1>6, <1>e DEF ChecksRead
<1>7. CASE LinkRecorded(r)
  BY <1>7 DEF LinkRecorded
<1>8. CASE QueueApplied(r)
  BY <1>8 DEF QueueApplied
<1> QED BY <1>1, <1>2, <1>3, <1>4, <1>5, <1>6, <1>7, <1>8 DEF HandlerStep

\* A handler step records only itself in the sets of requests, and summarises
\* only jobs it was given.
LEMMA HandlerStepHistory ==
  ASSUME NEW r \in Requests, HandlerStep(r)
  PROVE  /\ observed' \in {observed, observed \union {r}}
         /\ jobTraces' \in {jobTraces, jobTraces \union {r}}
         /\ pipeline' = pipeline \/ pipeline' = [pipeline EXCEPT ![r] = listed[r]]
BY DEF HandlerStep, Authenticated, Claimed, RunUpserted, LinksListed, RunRead,
       ChecksRead, LinkRecorded, QueueApplied, EmitJob, traces

LEMMA HandlerStepTypes ==
  ASSUME TypeInv, NEW r \in Requests, HandlerStep(r)
  PROVE  TypeInv'
<1>1. Resumes(r) /\ InFlight(r) /\ HandlerFrame /\ UNCHANGED delivery
  BY HandlerStepShape
<1>2. /\ pc' \in [Requests -> StoreCalls \union {"unsent", "done", "dropped"}]
      /\ answer' \in [Requests -> Answers \union {None}]
      /\ response' \in [Requests -> Responses \union {None}]
      /\ metrics' \in [Counters -> Nat]
      /\ Carries'
  BY <1>1, ResumeTypes DEF Resumes
<1>3. /\ observed' \subseteq Requests
      /\ jobTraces' \subseteq Requests
      /\ pipeline' \in [Requests -> SUBSET Deliveries]
  BY HandlerStepHistory DEF TypeInv, TypeOK
<1> QED BY <1>1, <1>2, <1>3 DEF HandlerFrame, durable, TypeInv, TypeOK

LEMMA EnvironmentTypes ==
  ASSUME TypeInv,
         Crash \/ PruneClaims \/ Tick \/ Idle \/ \E r \in Requests : Drop(r)
  PROVE  TypeInv'
<1> USE DEF TypeInv, TypeOK, Carries, InFlight, durable, history
<1>1. CASE Crash
  BY <1>1 DEF Crash, StoreCalls
<1>2. CASE PruneClaims
  BY <1>2 DEF PruneClaims
<1>3. CASE Tick
  BY <1>3 DEF Tick
<1>4. CASE Idle
  BY <1>4 DEF Idle, vars
<1>5. ASSUME NEW r \in Requests, Drop(r) PROVE TypeInv'
  BY <1>5 DEF Drop, StoreCalls
<1> QED BY <1>1, <1>2, <1>3, <1>4, <1>5

LEMMA TypeInvInductive == TypeInv /\ [Next]_vars => TypeInv'
<1> SUFFICES ASSUME TypeInv, [Next]_vars PROVE TypeInv'
  OBVIOUS
<1>1. CASE UNCHANGED vars
  BY <1>1 DEF vars, durable, history, TypeInv, TypeOK, Carries, InFlight
<1>2. CASE Next
  BY <1>2, ReceiveTypes, StoreStepTypes, HandlerStepTypes, EnvironmentTypes DEF Next
<1> QED BY <1>1, <1>2

\* Every variable keeps its type, and a suspended task always carries the
\* identifier of a delivery, in every run of the handler over its stores.
THEOREM TypeCorrect == Spec => [](TypeOK /\ Carries)
<1>1. Init => TypeInv
  BY DEF Init, TypeInv, TypeOK, Carries, InFlight, StoreCalls
<1> QED BY <1>1, TypeInvInductive, PTL DEF Spec, TypeInv

-----------------------------------------------------------------------------
(* At most once per window.  AtMostOncePerWindow is not inductive: it needs to *)
(* know where a task can be when it holds a claim, and that the row of a       *)
(* delivery outlives every claim of it that is still inside its window.        *)

PastTheClaim == StoreCalls \ {"authenticate", "claim"}

\* Only a task whose claim answered New passes the claim or has an effect.
GateInv ==
  \A r \in Requests :
    /\ pc[r] \in {"unsent", "authenticate"} => ~Won(r)
    /\ pc[r] = "claim" => (Won(r) <=> answer[r] = "new")
    /\ pc[r] \in PastTheClaim => Won(r) /\ r \in observed
    /\ Effected(r) => Won(r)
    /\ Won(r) => delivery[r] \in Deliveries

\* A winner's row is there, at least as young as the win, until its window is over.
WindowInv ==
  \A r \in Requests :
    Won(r) => /\ wonAt[r] <= now
              /\ claimedAt[delivery[r]] = None => now - wonAt[r] > Retention
              /\ claimedAt[delivery[r]] # None => wonAt[r] <= claimedAt[delivery[r]]

Separated(r, q) == wonAt[r] - wonAt[q] > Retention \/ wonAt[q] - wonAt[r] > Retention

SeparationInv ==
  \A r, q \in Requests :
    r # q /\ Won(r) /\ Won(q) /\ delivery[r] = delivery[q] => Separated(r, q)

ClaimInv == TypeInv /\ GateInv /\ WindowInv /\ SeparationInv

\* What WindowInv and SeparationInv speak about.
claimVars == <<claimedAt, wonAt, delivery, now>>

LEMMA ClaimFrame ==
  ASSUME WindowInv, SeparationInv, UNCHANGED claimVars
  PROVE  WindowInv' /\ SeparationInv'
BY DEF WindowInv, SeparationInv, Separated, Won, claimVars

LEMMA ClaimDeliveryKeeps ==
  ASSUME ClaimInv, NEW r \in Requests, ClaimDelivery(r)
  PROVE  GateInv' /\ WindowInv' /\ SeparationInv'
<1> USE DEF ClaimInv, TypeInv, TypeOK
<1> DEFINE d == delivery[r]
<1>1. pc[r] = "claim" /\ answer[r] = None /\ d \in Deliveries
  BY DEF ClaimDelivery, Waiting, Carries, InFlight, StoreCalls
<1>2. ~Won(r)
  BY <1>1, ConstantsAssumption DEF GateInv, Answers
<1>3. UNCHANGED <<pc, delivery, now, observed, jobTraces, pipeline, enqueuedBy, completedBy>>
  BY DEF ClaimDelivery, Answer, traces
<1>4. CASE claimedAt[d] = None
  <2>1. /\ claimedAt' = [claimedAt EXCEPT ![d] = now]
        /\ wonAt' = [wonAt EXCEPT ![r] = now]
        /\ answer' = [answer EXCEPT ![r] = "new"]
    BY <1>4 DEF ClaimDelivery, Answer
  <2>2. \A q \in Requests : q # r => wonAt'[q] = wonAt[q] /\ answer'[q] = answer[q]
    BY <2>1
  <2>3. wonAt'[r] = now /\ answer'[r] = "new" /\ claimedAt'[d] = now /\ now # None
    BY <1>1, <2>1, ConstantsAssumption
  <2>4. GateInv'
    BY <1>1, <1>3, <2>2, <2>3 DEF GateInv, Won, Effected, PastTheClaim
  <2>5. \A q \in Requests : Won(q) /\ delivery[q] = d => now - wonAt[q] > Retention
    BY <1>4 DEF WindowInv
  <2>6. ASSUME NEW q \in Requests, Won(q)' PROVE
          /\ wonAt'[q] <= now'
          /\ claimedAt'[delivery'[q]] = None => now' - wonAt'[q] > Retention
          /\ claimedAt'[delivery'[q]] # None => wonAt'[q] <= claimedAt'[delivery'[q]]
    <3>1. CASE q = r
      BY <1>3, <2>3, <3>1
    <3>2. CASE q # r
      <4>1. Won(q) /\ wonAt'[q] = wonAt[q] /\ wonAt[q] <= now /\ delivery[q] \in Deliveries
        BY <2>2, <2>6, <3>2 DEF Won, WindowInv, GateInv
      <4>2. CASE delivery[q] = d
        BY <1>3, <2>3, <4>1, <4>2
      <4>3. CASE delivery[q] # d
        <5>1. claimedAt'[delivery[q]] = claimedAt[delivery[q]]
          BY <2>1, <4>1, <4>3
        <5> QED BY <1>3, <4>1, <5>1 DEF WindowInv
      <4> QED BY <4>2, <4>3
    <3> QED BY <3>1, <3>2
  <2>7. WindowInv'
    BY <2>6 DEF WindowInv
  <2>8. SeparationInv'
    <3> SUFFICES ASSUME NEW p \in Requests, NEW q \in Requests,
                        p # q, Won(p)', Won(q)', delivery[p] = delivery[q]
                 PROVE  Separated(p, q)'
      BY <1>3 DEF SeparationInv
    <3>1. CASE p # r /\ q # r
      BY <2>2, <3>1 DEF SeparationInv, Separated, Won
    <3>2. CASE p = r
      <4>1. Won(q) /\ wonAt'[q] = wonAt[q]
        BY <2>2, <3>2 DEF Won
      <4>2. wonAt'[p] - wonAt'[q] > Retention
        BY <2>3, <2>5, <3>2, <4>1
      <4> QED BY <4>2 DEF Separated
    <3>3. CASE q = r
      <4>1. Won(p) /\ wonAt'[p] = wonAt[p]
        BY <2>2, <3>3 DEF Won
      <4>2. wonAt'[q] - wonAt'[p] > Retention
        BY <2>3, <2>5, <3>3, <4>1
      <4> QED BY <4>2 DEF Separated
    <3> QED BY <3>1, <3>2, <3>3
  <2> QED BY <2>4, <2>7, <2>8
<1>5. CASE claimedAt[d] # None
  <2>1. UNCHANGED <<claimedAt, wonAt>> /\ answer' = [answer EXCEPT ![r] = "duplicate"]
    BY <1>5 DEF ClaimDelivery, Answer
  <2>2. GateInv'
    BY <1>1, <1>2, <1>3, <2>1 DEF GateInv, Won, Effected, PastTheClaim
  <2> QED BY <1>3, <2>1, <2>2, ClaimFrame DEF claimVars
<1> QED BY <1>4, <1>5

LEMMA StoreStepKeepsClaims ==
  ASSUME ClaimInv, NEW r \in Requests, StoreStep(r), ~ClaimDelivery(r)
  PROVE  GateInv' /\ WindowInv' /\ SeparationInv'
<1> USE DEF ClaimInv, TypeInv
<1>1. /\ UNCHANGED <<pc, delivery, now, observed, jobTraces, pipeline>>
      /\ UNCHANGED <<claimedAt, wonAt>>
  BY DEF StoreStep, Authenticate, UpsertRun, ListLinks, GetRun, GetChecks, RecordLink,
         Enqueue, Complete, StoreFails, Answer, durable, traces
<1>2. /\ answer[r] = None
      /\ \A q \in Requests : q # r => answer'[q] = answer[q]
      /\ pc[r] = "claim" => answer'[r] = "error"
  BY DEF StoreStep, Authenticate, UpsertRun, ListLinks, GetRun, GetChecks, RecordLink,
         Enqueue, Complete, StoreFails, Answer, Waiting, TypeOK
<1>3. \/ UNCHANGED <<enqueuedBy, completedBy>>
      \/ pc[r] \in PastTheClaim /\ enqueuedBy' \in {enqueuedBy, enqueuedBy \union {r}}
                                /\ completedBy' \in {completedBy, completedBy \union {r}}
  BY DEF StoreStep, Authenticate, UpsertRun, ListLinks, GetRun, GetChecks, RecordLink,
         Enqueue, Complete, StoreFails, Waiting, PastTheClaim, StoreCalls
<1>4. GateInv'
  <2>1. \A q \in Requests : Effected(q)' => Effected(q) \/ (q = r /\ pc[r] \in PastTheClaim)
    BY <1>1, <1>3 DEF Effected
  <2>2. \A q \in Requests : pc[q] = "claim" => (Won(q) <=> answer'[q] = "new")
    BY <1>2, ConstantsAssumption DEF GateInv, Answers
  <2> QED BY <1>1, <2>1, <2>2 DEF GateInv, Won
<1> QED BY <1>1, <1>4, ClaimFrame DEF claimVars

LEMMA HandlerStepKeepsClaims ==
  ASSUME ClaimInv, NEW r \in Requests, HandlerStep(r)
  PROVE  GateInv' /\ WindowInv' /\ SeparationInv'
<1> USE DEF ClaimInv, TypeInv
<1>1. UNCHANGED <<claimedAt, wonAt, delivery, now, enqueuedBy, completedBy>>
  BY HandlerStepShape DEF HandlerFrame, durable
<1>2. \A q \in Requests : q # r => pc'[q] = pc[q] /\ answer'[q] = answer[q]
  BY HandlerStepShape, ZenonT(40) DEF Resumes, Call, Respond, TypeOK
<1>3. pc[r] \in StoreCalls /\ answer[r] # None
  BY DEF HandlerStep, Authenticated, Claimed, RunUpserted, LinksListed, RunRead, ChecksRead,
         LinkRecorded, QueueApplied, Answered, StoreCalls
<1>4. \/ pc[r] = "authenticate" /\ pc'[r] \in {"claim", "done"}
      \/ pc[r] = "claim" /\ answer[r] # "new" /\ pc'[r] = "done"
      \/ pc[r] = "claim" /\ answer[r] = "new" /\ pc'[r] \in PastTheClaim \union {"done"}
      \/ pc[r] \in PastTheClaim /\ pc'[r] \in PastTheClaim \union {"done"}
  <2> USE DEF PastTheClaim, StoreCalls, Answered, Call, Respond, TypeOK
  <2>e. ASSUME EmitJob(r) PROVE pc'[r] \in PastTheClaim \union {"done"}
    BY <2>e DEF EmitJob
  <2>1. CASE Authenticated(r)
    BY <2>1 DEF Authenticated
  <2>2. CASE Claimed(r)
    <3>1. CASE Dispatch(r)
      BY <2>2, <3>1 DEF Claimed, Dispatch, AdmitJob
    <3> QED BY <2>2, <3>1 DEF Claimed
  <2>3. CASE RunUpserted(r)
    BY <2>3 DEF RunUpserted
  <2>4. CASE LinksListed(r)
    BY <2>4 DEF LinksListed
  <2>5. CASE RunRead(r)
    BY <2>5, <2>e DEF RunRead
  <2>6. CASE ChecksRead(r)
    BY <2>6, <2>e DEF ChecksRead
  <2>7. CASE LinkRecorded(r)
    BY <2>7 DEF LinkRecorded
  <2>8. CASE QueueApplied(r)
    BY <2>8 DEF QueueApplied
  <2> QED BY <2>1, <2>2, <2>3, <2>4, <2>5, <2>6, <2>7, <2>8 DEF HandlerStep
<1>5. answer'[r] = None
  BY HandlerStepShape DEF Resumes, Call, Respond, TypeOK
<1>6. \/ UNCHANGED <<observed, jobTraces, pipeline>>
      \/ pc[r] = "claim" /\ answer[r] = "new"
      \/ pc[r] \in PastTheClaim
  BY DEF HandlerStep, Authenticated, Claimed, RunUpserted, LinksListed, RunRead, ChecksRead,
         LinkRecorded, QueueApplied, Answered, PastTheClaim, StoreCalls, traces
<1>7. \A q \in Requests : Effected(q)' => Effected(q) \/ (q = r /\ Won(r))
  <2>1. ~UNCHANGED <<observed, jobTraces, pipeline>> => Won(r)
    BY <1>6 DEF GateInv
  <2>2. \A q \in Requests : q # r /\ Effected(q)' => Effected(q)
    BY <1>1, HandlerStepHistory DEF Effected, TypeOK
  <2>3. UNCHANGED <<observed, jobTraces, pipeline>> => (Effected(r)' => Effected(r))
    BY <1>1 DEF Effected
  <2> QED BY <2>1, <2>2, <2>3
<1>8. /\ \A q \in observed : q \in observed'
      /\ pc[r] = "claim" /\ answer[r] = "new" => r \in observed'
  BY DEF HandlerStep, Authenticated, Claimed, RunUpserted, LinksListed, RunRead, ChecksRead,
         LinkRecorded, QueueApplied, Answered
<1>9. GateInv'
  <2> SUFFICES ASSUME NEW q \in Requests
               PROVE  /\ pc'[q] \in {"unsent", "authenticate"} => ~Won(q)
                      /\ pc'[q] = "claim" => (Won(q) <=> answer'[q] = "new")
                      /\ pc'[q] \in PastTheClaim => Won(q) /\ q \in observed'
                      /\ Effected(q)' => Won(q)
                      /\ Won(q) => delivery[q] \in Deliveries
    BY <1>1 DEF GateInv, Won
  <2>1. CASE q # r
    BY <1>2, <1>7, <1>8, <2>1 DEF GateInv
  <2>2. CASE q = r
    <3>1. pc'[r] \in {"claim", "done"} \union PastTheClaim
      BY <1>4
    <3>2. pc'[r] = "claim" => ~Won(r)
      BY <1>4 DEF GateInv, PastTheClaim
    <3>3. pc'[r] \in PastTheClaim => Won(r) /\ r \in observed'
      BY <1>4, <1>8 DEF GateInv, PastTheClaim, StoreCalls
    <3> QED BY <1>5, <1>7, <2>2, <3>1, <3>2, <3>3, ConstantsAssumption
            DEF GateInv, PastTheClaim, StoreCalls, Answers
  <2> QED BY <2>1, <2>2
<1> QED BY <1>1, <1>9, ClaimFrame DEF claimVars

LEMMA ReceiveKeepsClaims ==
  ASSUME ClaimInv, NEW r \in Requests, Receive(r)
  PROVE  GateInv' /\ WindowInv' /\ SeparationInv'
<1> USE DEF ClaimInv, TypeInv
<1>1. ~Won(r) /\ ~Effected(r)
  BY DEF Receive, GateInv
<1>2. /\ UNCHANGED <<claimedAt, wonAt, now, observed, jobTraces, pipeline>>
      /\ UNCHANGED <<enqueuedBy, completedBy>>
  BY DEF Receive, HandlerFrame, durable, traces
<1>3. /\ pc'[r] \in {"authenticate", "done"}
      /\ \A q \in Requests : q # r => /\ pc'[q] = pc[q]
                                      /\ answer'[q] = answer[q]
                                      /\ delivery'[q] = delivery[q]
  BY DEF Receive, RespondNotAllowed, Respond, Call, TypeOK
<1>4. GateInv'
  BY <1>1, <1>2, <1>3 DEF GateInv, Won, Effected, PastTheClaim, StoreCalls
<1>5. WindowInv' /\ SeparationInv'
  BY <1>1, <1>2, <1>3 DEF WindowInv, SeparationInv, Separated, Won
<1> QED BY <1>4, <1>5

LEMMA PruneKeepsClaims ==
  ASSUME ClaimInv, PruneClaims
  PROVE  GateInv' /\ WindowInv' /\ SeparationInv'
<1> USE DEF ClaimInv, TypeInv
<1>1. UNCHANGED <<wonAt, delivery, now, pc, answer, observed, jobTraces, pipeline,
                  enqueuedBy, completedBy>>
  BY DEF PruneClaims, history
<1>2. \A d \in Deliveries :
        \/ claimedAt'[d] = claimedAt[d]
        \/ claimedAt'[d] = None /\ claimedAt[d] # None /\ claimedAt[d] < now - Retention
  <2>1. PICK cutoff \in 0 .. now - Retention :
          \E batch \in SUBSET {d \in Deliveries : claimedAt[d] # None /\ claimedAt[d] < cutoff} :
            claimedAt' = [d \in Deliveries |-> IF d \in batch THEN None ELSE claimedAt[d]]
    BY DEF PruneClaims
  <2>2. now - Retention \in Int /\ cutoff \in Int /\ cutoff <= now - Retention
    BY ConstantsAssumption DEF TypeOK
  <2>3. \A d \in Deliveries : claimedAt[d] # None => claimedAt[d] \in Nat
    BY DEF TypeOK
  <2> QED BY <2>1, <2>2, <2>3
<1>3. GateInv'
  BY <1>1 DEF GateInv, Won, Effected
<1>4. WindowInv'
  <2> SUFFICES ASSUME NEW q \in Requests, Won(q)
               PROVE  /\ wonAt[q] <= now
                      /\ claimedAt'[delivery[q]] = None => now - wonAt[q] > Retention
                      /\ claimedAt'[delivery[q]] # None => wonAt[q] <= claimedAt'[delivery[q]]
    BY <1>1 DEF WindowInv, Won
  <2>1. delivery[q] \in Deliveries /\ wonAt[q] \in Nat /\ now \in Nat
    BY DEF GateInv, TypeOK, Won
  <2>2. CASE claimedAt'[delivery[q]] = claimedAt[delivery[q]]
    BY <2>2 DEF WindowInv
  <2>3. CASE /\ claimedAt'[delivery[q]] = None /\ claimedAt[delivery[q]] # None
             /\ claimedAt[delivery[q]] < now - Retention
    <3>1. wonAt[q] <= claimedAt[delivery[q]] /\ claimedAt[delivery[q]] \in Nat
      BY <2>1, <2>3 DEF WindowInv, TypeOK
    <3> QED BY <2>1, <2>3, <3>1, ConstantsAssumption DEF WindowInv
  <2> QED BY <1>2, <2>1, <2>2, <2>3
<1>5. SeparationInv'
  BY <1>1 DEF SeparationInv, Separated, Won
<1> QED BY <1>3, <1>4, <1>5

\* A dropped task, a crash and the passage of time only take tasks and margin away.
LEMMA EnvironmentKeepsClaims ==
  ASSUME ClaimInv, Crash \/ Tick \/ Idle \/ \E r \in Requests : Drop(r)
  PROVE  GateInv' /\ WindowInv' /\ SeparationInv'
<1> USE DEF ClaimInv, TypeInv
<1>1. /\ UNCHANGED <<claimedAt, wonAt, delivery, observed, jobTraces, pipeline>>
      /\ UNCHANGED <<enqueuedBy, completedBy>>
  BY DEF Crash, Tick, Idle, Drop, vars, durable, history
<1>2. now' \in {now, now + 1}
  BY DEF Crash, Tick, Idle, Drop, vars
<1>3. \A q \in Requests : (pc'[q] = pc[q] /\ answer'[q] = answer[q]) \/ pc'[q] = "dropped"
                          \/ (pc'[q] = pc[q] /\ pc[q] \notin StoreCalls)
  BY DEF Crash, Tick, Idle, Drop, vars, TypeOK, InFlight
<1>4. GateInv'
  BY <1>1, <1>3 DEF GateInv, Won, Effected, PastTheClaim, StoreCalls
<1>5. WindowInv'
  <2> SUFFICES ASSUME NEW q \in Requests, Won(q)
               PROVE  /\ wonAt[q] <= now'
                      /\ claimedAt[delivery[q]] = None => now' - wonAt[q] > Retention
                      /\ claimedAt[delivery[q]] # None => wonAt[q] <= claimedAt[delivery[q]]
    BY <1>1 DEF WindowInv, Won
  <2>1. wonAt[q] \in Nat /\ now \in Nat
    BY DEF TypeOK, Won
  <2> QED BY <1>2, <2>1, ConstantsAssumption DEF WindowInv
<1>6. SeparationInv'
  BY <1>1 DEF SeparationInv, Separated, Won
<1> QED BY <1>4, <1>5, <1>6

LEMMA ClaimInvInductive == ClaimInv /\ [Next]_vars => ClaimInv'
<1> SUFFICES ASSUME ClaimInv, [Next]_vars PROVE ClaimInv'
  OBVIOUS
<1>1. TypeInv'
  BY TypeInvInductive DEF ClaimInv
<1>2. CASE UNCHANGED vars
  <2>1. GateInv'
    BY <1>2 DEF vars, history, ClaimInv, GateInv, Won, Effected
  <2>2. UNCHANGED claimVars
    BY <1>2 DEF vars, durable, history, claimVars
  <2> QED BY <1>1, <2>1, <2>2, ClaimFrame DEF ClaimInv
<1>3. CASE \E r \in Requests : StoreStep(r)
  BY <1>1, <1>3, ClaimDeliveryKeeps, StoreStepKeepsClaims DEF ClaimInv
<1>4. CASE Next /\ ~(\E r \in Requests : StoreStep(r))
  BY <1>1, <1>4, HandlerStepKeepsClaims, ReceiveKeepsClaims, PruneKeepsClaims,
     EnvironmentKeepsClaims DEF ClaimInv, Next
<1> QED BY <1>2, <1>3, <1>4

LEMMA ClaimCorrect == Spec => []ClaimInv
<1>1. Init => ClaimInv
  <2>1. Init => TypeInv
    BY DEF Init, TypeInv, TypeOK, Carries, InFlight, StoreCalls
  <2>2. Init => GateInv /\ WindowInv /\ SeparationInv
    BY DEF Init, GateInv, WindowInv, SeparationInv, Won, Effected, PastTheClaim, StoreCalls
  <2> QED BY <2>1, <2>2 DEF ClaimInv
<1> QED BY <1>1, ClaimInvInductive, PTL DEF Spec

\* A redelivery never repeats the effects of a delivery inside its retention
\* window, for any number of requests, crashes, drops and prune batches.
THEOREM EffectsAtMostOncePerWindow == Spec => []AtMostOncePerWindow
<1>1. ClaimInv => AtMostOncePerWindow
  BY DEF ClaimInv, GateInv, SeparationInv, Separated, AtMostOncePerWindow
<1> QED BY <1>1, ClaimCorrect, PTL

-----------------------------------------------------------------------------
(* The handler implements DeliveryPromise: a New answer is a grant, the step   *)
(* that counts the event is the work, and every other step is a stutter,       *)
(* because a task past its claim has already worked.                           *)

LEMMA Stutters ==
  ASSUME UNCHANGED <<now, delivery, wonAt>>, \A r \in Requests : Effected(r)' <=> Effected(r)
  PROVE  UNCHANGED Promise!vars
BY DEF Promise!vars, Granted, Worked, Won

LEMMA StoreStepRefines ==
  ASSUME ClaimInv, NEW r \in Requests, StoreStep(r), ~ClaimDelivery(r)
  PROVE  UNCHANGED Promise!vars
<1>1. UNCHANGED <<now, delivery, wonAt, observed, jobTraces, pipeline>>
  BY DEF StoreStep, Authenticate, UpsertRun, ListLinks, GetRun, GetChecks, RecordLink,
         Enqueue, Complete, StoreFails, Answer, durable, traces
<1>2. \/ UNCHANGED <<enqueuedBy, completedBy>>
      \/ pc[r] \in PastTheClaim /\ enqueuedBy' \in {enqueuedBy, enqueuedBy \union {r}}
                                /\ completedBy' \in {completedBy, completedBy \union {r}}
  BY DEF StoreStep, Authenticate, UpsertRun, ListLinks, GetRun, GetChecks, RecordLink,
         Enqueue, Complete, StoreFails, Waiting, PastTheClaim, StoreCalls
<1>3. pc[r] \in PastTheClaim => r \in observed
  BY DEF ClaimInv, GateInv
<1>4. \A q \in Requests : Effected(q)' <=> Effected(q)
  BY <1>1, <1>2, <1>3 DEF Effected
<1> QED BY <1>1, <1>4, Stutters

LEMMA ClaimDeliveryRefines ==
  ASSUME ClaimInv, NEW r \in Requests, ClaimDelivery(r)
  PROVE  Promise!Grant(r, delivery[r]) \/ UNCHANGED Promise!vars
<1> USE DEF ClaimInv, TypeInv, TypeOK
<1> DEFINE d == delivery[r]
<1>1. UNCHANGED <<delivery, now, observed, jobTraces, pipeline, enqueuedBy, completedBy>>
  BY DEF ClaimDelivery, Answer, traces
<1>2. \A q \in Requests : Effected(q)' <=> Effected(q)
  BY <1>1 DEF Effected
<1>3. CASE claimedAt[d] = None
  <2>1. wonAt' = [wonAt EXCEPT ![r] = now]
    BY <1>3 DEF ClaimDelivery
  <2>2. Granted[r] = None
    BY ConstantsAssumption DEF ClaimDelivery, Waiting, GateInv, Granted, Answers
  <2>3. \A q \in Requests :
          Granted[q] # None /\ Granted[q].delivery = d => now - Granted[q].at > Retention
    BY <1>3 DEF Granted, WindowInv
  <2>4. Granted' = [Granted EXCEPT ![r] = [delivery |-> d, at |-> now]]
    <3>1. now # None
      BY ConstantsAssumption
    <3> QED BY <1>1, <2>1, <3>1 DEF Granted, Won
  <2>5. Worked' = Worked
    BY <1>2 DEF Worked
  <2> QED BY <1>1, <2>2, <2>3, <2>4, <2>5 DEF Promise!Grant
<1>4. CASE claimedAt[d] # None
  BY <1>1, <1>2, <1>4, Stutters DEF ClaimDelivery
<1> QED BY <1>3, <1>4

LEMMA HandlerStepRefines ==
  ASSUME ClaimInv, NEW r \in Requests, HandlerStep(r)
  PROVE  Promise!Work(r) \/ UNCHANGED Promise!vars
<1> USE DEF ClaimInv, TypeInv
<1>1. UNCHANGED <<wonAt, delivery, now, enqueuedBy, completedBy>>
  BY HandlerStepShape DEF HandlerFrame
<1>2. \A q \in Requests : q # r => (Effected(q)' <=> Effected(q))
  BY <1>1, HandlerStepHistory DEF Effected, TypeOK
<1>3. \/ UNCHANGED <<observed, jobTraces, pipeline>>
      \/ /\ pc[r] = "claim" /\ answer[r] = "new"
         /\ observed' = observed \union {r}
      \/ pc[r] \in PastTheClaim /\ r \in observed'
  <2>1. pc[r] \in PastTheClaim => r \in observed
    BY DEF GateInv
  <2> QED BY <2>1 DEF HandlerStep, Authenticated, Claimed, RunUpserted, LinksListed, RunRead,
         ChecksRead, LinkRecorded, QueueApplied, Answered, PastTheClaim, StoreCalls, traces
<1>4. CASE pc[r] = "claim" /\ answer[r] = "new" /\ observed' = observed \union {r}
  <2>1. Won(r) /\ Effected(r)'
    BY <1>4 DEF GateInv, Effected
  <2>2. Granted[r] # None
    <3>1. wonAt[r] \in Nat /\ delivery[r] \in Deliveries
      BY <2>1 DEF TypeOK, GateInv, Won
    <3>2. Granted[r] \in [delivery : Deliveries, at : Nat]
      BY <2>1, <3>1 DEF Granted
    <3> QED BY <3>2, ConstantsAssumption
  <2>3. Worked' = Worked \union {r}
    BY <1>2, <2>1 DEF Worked
  <2>4. Granted' = Granted
    BY <1>1 DEF Granted, Won
  <2> QED BY <1>1, <2>2, <2>3, <2>4 DEF Promise!Work
<1>5. CASE pc[r] \in PastTheClaim /\ r \in observed'
  <2>1. Effected(r) /\ Effected(r)'
    BY <1>5 DEF GateInv, Effected
  <2> QED BY <1>1, <1>2, <2>1, Stutters
<1>6. CASE UNCHANGED <<observed, jobTraces, pipeline>>
  <2>1. Effected(r)' <=> Effected(r)
    BY <1>1, <1>6 DEF Effected
  <2> QED BY <1>1, <1>2, <2>1, Stutters
<1> QED BY <1>3, <1>4, <1>5, <1>6

LEMMA OtherStepsRefine ==
  ASSUME ClaimInv,
         \/ Crash \/ PruneClaims \/ Tick \/ Idle
         \/ \E r \in Requests : Receive(r) \/ Drop(r)
  PROVE  Promise!Tick \/ UNCHANGED Promise!vars
<1>1. /\ UNCHANGED <<wonAt, observed, jobTraces, pipeline, enqueuedBy, completedBy>>
      /\ \A r \in Requests : Won(r) => delivery'[r] = delivery[r]
  BY DEF Crash, PruneClaims, Tick, Idle, Drop, Receive, HandlerFrame, vars, history, traces,
         ClaimInv, TypeInv, TypeOK, GateInv
<1>2. Granted' = Granted
  BY <1>1 DEF Granted, Won
<1>3. Worked' = Worked
  BY <1>1 DEF Worked, Effected
<1>4. CASE Tick
  BY <1>2, <1>3, <1>4 DEF Tick, Promise!Tick
<1>5. CASE ~Tick
  <2>1. now' = now
    BY <1>5 DEF Crash, PruneClaims, Idle, Drop, Receive, HandlerFrame, vars
  <2> QED BY <1>2, <1>3, <2>1 DEF Promise!vars
<1> QED BY <1>4, <1>5

\* Every behaviour of the handler over its stores is a behaviour of
\* DeliveryPromise: no interleaving, failure or crash makes it act on a delivery
\* it was not granted, or grants one twice inside its window.
THEOREM HandlerKeepsPromise == Spec => KeepsPromise
<1>1. Init => Promise!Init
  BY DEF Init, Promise!Init, Granted, Worked, Won, Effected
<1>2. ClaimInv /\ [Next]_vars => [Promise!Next]_(Promise!vars)
  <2> SUFFICES ASSUME ClaimInv, [Next]_vars PROVE [Promise!Next]_(Promise!vars)
    OBVIOUS
  <2>1. CASE UNCHANGED vars
    <3>1. UNCHANGED <<now, delivery, wonAt>> /\ \A r \in Requests : Effected(r)' <=> Effected(r)
      BY <2>1 DEF vars, history, Effected
    <3> QED BY <3>1, Stutters
  <2>2. ASSUME NEW r \in Requests, ClaimDelivery(r) PROVE [Promise!Next]_(Promise!vars)
    <3>1. delivery[r] \in Deliveries
      BY <2>2 DEF ClaimInv, TypeInv, Carries, ClaimDelivery, Waiting, InFlight, StoreCalls
    <3> QED BY <2>2, <3>1, ClaimDeliveryRefines DEF Promise!Next
  <2>3. ASSUME NEW r \in Requests, StoreStep(r), ~ClaimDelivery(r)
        PROVE  [Promise!Next]_(Promise!vars)
    BY <2>3, StoreStepRefines
  <2>4. ASSUME NEW r \in Requests, HandlerStep(r) PROVE [Promise!Next]_(Promise!vars)
    BY <2>4, HandlerStepRefines DEF Promise!Next
  <2>5. CASE \/ Crash \/ PruneClaims \/ Tick \/ Idle
             \/ \E r \in Requests : Receive(r) \/ Drop(r)
    BY <2>5, OtherStepsRefine DEF Promise!Next
  <2> QED BY <2>1, <2>2, <2>3, <2>4, <2>5 DEF Next
<1> QED BY <1>1, <1>2, ClaimCorrect, PTL DEF Spec, KeepsPromise, Promise!Spec


-----------------------------------------------------------------------------
(* What a step leaves alone.                                               *)

LEMMA HandlerMoves ==
  ASSUME TypeInv, NEW r \in Requests, HandlerStep(r)
  PROVE  /\ UNCHANGED <<durable, listed, now, crashes, wonAt, enqueuedBy, completedBy, delivery>>
         /\ InFlight(r) /\ answer[r] # None /\ answer'[r] = None
         /\ \A q \in Requests : q # r => /\ pc'[q] = pc[q] /\ answer'[q] = answer[q]
                                         /\ response'[q] = response[q]
         /\ \/ pc'[r] \in StoreCalls /\ response'[r] = response[r]
            \/ pc'[r] = "done"
<1>1. Resumes(r) /\ InFlight(r) /\ HandlerFrame /\ UNCHANGED delivery
  BY HandlerStepShape
<1>2. answer[r] # None
  BY DEF HandlerStep, Authenticated, Claimed, RunUpserted, LinksListed, RunRead, ChecksRead,
         LinkRecorded, QueueApplied, Answered
<1> QED BY <1>1, <1>2 DEF Resumes, Call, Respond, HandlerFrame, TypeInv, TypeOK

LEMMA StoreMoves ==
  ASSUME TypeInv, NEW r \in Requests, StoreStep(r)
  PROVE  /\ UNCHANGED <<pc, delivery, metrics, now, crashes, response, observed, traces>>
         /\ InFlight(r) /\ answer[r] = None
         /\ \A q \in Requests : q # r => answer'[q] = answer[q] /\ listed'[q] = listed[q]
<1>1. /\ UNCHANGED <<pc, delivery, metrics, now, crashes, response, observed, traces>>
      /\ \A q \in Requests : q # r => answer'[q] = answer[q]
  BY DEF StoreStep, Authenticate, ClaimDelivery, UpsertRun, ListLinks, GetRun, GetChecks,
         RecordLink, Enqueue, Complete, StoreFails, Answer, TypeInv, TypeOK
<1>2. InFlight(r) /\ answer[r] = None
  BY DEF StoreStep, Authenticate, ClaimDelivery, UpsertRun, ListLinks, GetRun, GetChecks,
         RecordLink, Enqueue, Complete, StoreFails, Waiting, InFlight, StoreCalls
<1>3. \A q \in Requests : q # r => listed'[q] = listed[q]
  <2>1. CASE ListLinks(r)
    BY <2>1 DEF ListLinks, TypeInv, TypeOK
  <2>2. CASE ~ListLinks(r)
    BY <2>2 DEF StoreStep, Authenticate, ClaimDelivery, UpsertRun, GetRun, GetChecks,
                RecordLink, Enqueue, Complete, StoreFails
  <2> QED BY <2>1, <2>2
<1> QED BY <1>1, <1>2, <1>3

LEMMA ReceiveMoves ==
  ASSUME TypeInv, NEW r \in Requests, Receive(r)
  PROVE  /\ UNCHANGED <<durable, listed, now, crashes, wonAt, enqueuedBy, completedBy, observed, traces>>
         /\ pc[r] = "unsent" /\ pc'[r] \in {"authenticate", "done"} /\ answer'[r] = None
         /\ \A q \in Requests : q # r => /\ pc'[q] = pc[q] /\ answer'[q] = answer[q]
                                         /\ response'[q] = response[q] /\ delivery'[q] = delivery[q]
         /\ response'[r] # response[r] => pc'[r] = "done"
BY DEF Receive, RespondNotAllowed, Respond, Call, HandlerFrame, TypeInv, TypeOK

LEMMA OtherMoves ==
  ASSUME TypeInv, Crash \/ PruneClaims \/ Tick \/ Idle \/ UNCHANGED vars \/ \E r \in Requests : Drop(r)
  PROVE  /\ UNCHANGED <<runs, links, attempts, listed, delivery, history>>
         /\ \A q \in Requests : \/ pc'[q] = pc[q] /\ (InFlight(q) => answer'[q] = answer[q])
                                \/ pc'[q] = "dropped" /\ InFlight(q)
         /\ metrics' = metrics \/ metrics' = [c \in Counters |-> 0]
<1>1. CASE Crash
  BY <1>1 DEF Crash, durable, TypeInv, TypeOK
<1>2. CASE PruneClaims
  BY <1>2 DEF PruneClaims
<1>3. CASE Tick
  BY <1>3 DEF Tick, durable
<1>4. CASE Idle \/ UNCHANGED vars
  BY <1>4 DEF Idle, vars, durable
<1>5. ASSUME NEW r \in Requests, Drop(r)
      PROVE  /\ UNCHANGED <<runs, links, attempts, listed, delivery, history, metrics>>
             /\ \A q \in Requests : \/ pc'[q] = pc[q] /\ (InFlight(q) => answer'[q] = answer[q])
                                    \/ pc'[q] = "dropped" /\ InFlight(q)
  BY <1>5 DEF Drop, durable, TypeInv, TypeOK
<1> QED BY <1>1, <1>2, <1>3, <1>4, <1>5

-----------------------------------------------------------------------------
(* 503.                                                                    *)

Fatal == {"authentication", "delivery_claim", "database"}

\* Counters that keep the account: none of it, or an unavailable with one failure stage.
Accounted(cs) ==
  \/ "unavailable" \notin cs /\ \A s \in Fatal : s \notin cs
  \/ "unavailable" \in cs /\ \E s \in Fatal : s \in cs /\ \A t \in Fatal : t # s => t \notin cs

\* Only a request that has been answered has a response.
Responded == \A r \in Requests : response[r] # None => pc[r] = "done"

\* What a step that counts no 405 leaves alone.
SameNotAllowed == NotAllowed' = NotAllowed /\ crashes' = crashes

LEMMA NotAllowedFinite ==
  /\ IsFiniteSet(NotAllowed)
  /\ Cardinality(NotAllowed) \in Nat
  /\ IsFiniteSet(NotAllowed')
  /\ Cardinality(NotAllowed') \in Nat
<1>1. NotAllowed \subseteq Requests /\ NotAllowed' \subseteq Requests
  BY DEF NotAllowed
<1> QED BY <1>1, ConstantsAssumption, FS_Subset, FS_CardinalityType

LEMMA CountAccounted ==
  ASSUME metrics \in [Counters -> Nat], UnavailableIsAccounted, SameNotAllowed,
         NEW cs \in SUBSET Counters, Count(cs), Accounted(cs)
  PROVE  UnavailableIsAccounted'
<1>1. \A c \in Counters : metrics'[c] = (IF c \in cs THEN metrics[c] + 1 ELSE metrics[c])
  BY DEF Count
<1>2. \A c \in {"unavailable"} \union Fatal : c \in Counters /\ metrics[c] \in Nat
  BY DEF Counters, Outcomes, FailureStages, Fatal
<1>3. metrics'["unavailable"] - FailureStagesCounted' = metrics["unavailable"] - FailureStagesCounted
  BY <1>1, <1>2 DEF FailureStagesCounted, Accounted, Fatal
<1> QED BY <1>3 DEF UnavailableIsAccounted, SameNotAllowed

\* A step that neither counts, answers nor dies.
LEMMA StillAccounted ==
  ASSUME UnavailableIsAccounted, SameNotAllowed, metrics' = metrics
  PROVE  UnavailableIsAccounted'
BY DEF UnavailableIsAccounted, SameNotAllowed, FailureStagesCounted

\* A 405: one more in both accounts.
LEMMA NotAllowedAccounts ==
  ASSUME TypeInv, UnavailableIsAccounted, Responded, NEW r \in Requests,
         pc[r] = "unsent", RespondNotAllowed(r), crashes' = crashes
  PROVE  UnavailableIsAccounted'
<1>1. r \notin NotAllowed /\ NotAllowed' = NotAllowed \union {r}
  BY ConstantsAssumption DEF RespondNotAllowed, NotAllowed, Responded, Responses, TypeInv, TypeOK
<1>2. Cardinality(NotAllowed') = Cardinality(NotAllowed) + 1
  BY <1>1, NotAllowedFinite, FS_AddElement
<1>3. \A c \in {"unavailable"} \union Fatal : c \in Counters /\ metrics[c] \in Nat
  BY DEF Counters, Outcomes, FailureStages, Fatal, TypeInv, TypeOK
<1>4. metrics'["unavailable"] = metrics["unavailable"] + 1
  BY <1>3 DEF RespondNotAllowed, Count
<1>5. \A c \in Fatal : metrics'[c] = metrics[c]
  BY <1>3 DEF RespondNotAllowed, Count, Fatal
<1>6. FailureStagesCounted' = FailureStagesCounted /\ FailureStagesCounted \in Nat
  BY <1>3, <1>5 DEF FailureStagesCounted, Fatal
<1>7. metrics["unavailable"] \in Nat
  BY <1>3
<1> QED BY <1>2, <1>4, <1>6, <1>7, NotAllowedFinite DEF UnavailableIsAccounted

\* The counters start again at 0, the answers that were given stay given.
LEMMA CrashAccounts ==
  ASSUME TypeInv, Crash
  PROVE  UnavailableIsAccounted'
<1>1. crashes' # 0
  BY DEF Crash, TypeInv, TypeOK
<1>2. metrics'["unavailable"] = 0 /\ FailureStagesCounted' = 0
  BY DEF Crash, FailureStagesCounted, Counters, Outcomes, FailureStages
<1> QED BY <1>1, <1>2, NotAllowedFinite DEF UnavailableIsAccounted

LEMMA HandlerAccounts ==
  ASSUME NEW r \in Requests, HandlerStep(r)
  PROVE  UNCHANGED metrics \/ \E cs \in SUBSET Counters : Count(cs) /\ Accounted(cs)
<1> USE DEF Respond, Accounted, Fatal, Counters, Outcomes, FailureStages
<1>e. ASSUME EmitJob(r)
      PROVE  UNCHANGED metrics \/ \E cs \in SUBSET Counters : Count(cs) /\ Accounted(cs)
  BY <1>e DEF EmitJob
<1>1. CASE Authenticated(r)
  BY <1>1 DEF Authenticated
<1>2. CASE Claimed(r)
  <2>1. CASE Dispatch(r)
    BY <2>1 DEF Dispatch, AdmitJob
  <2> QED BY <1>2, <2>1 DEF Claimed
<1>3. CASE RunUpserted(r)
  BY <1>3 DEF RunUpserted
<1>4. CASE LinksListed(r)
  BY <1>4 DEF LinksListed
<1>5. CASE RunRead(r)
  BY <1>5, <1>e DEF RunRead
<1>6. CASE ChecksRead(r)
  BY <1>6, <1>e DEF ChecksRead
<1>7. CASE LinkRecorded(r)
  BY <1>7 DEF LinkRecorded
<1>8. CASE QueueApplied(r)
  BY <1>8 DEF QueueApplied
<1> QED BY <1>1, <1>2, <1>3, <1>4, <1>5, <1>6, <1>7, <1>8 DEF HandlerStep

LEMMA RespondedInductive ==
  ASSUME TypeInv, Responded, [Next]_vars
  PROVE  Responded'
<1>1. ASSUME NEW r \in Requests, HandlerStep(r) PROVE Responded'
  <2>1. response[r] = None
    BY <1>1, HandlerMoves DEF Responded, InFlight, StoreCalls
  <2> QED BY <1>1, <2>1, HandlerMoves DEF Responded
<1>2. ASSUME NEW r \in Requests, StoreStep(r) PROVE Responded'
  BY <1>2, StoreMoves DEF Responded
<1>3. ASSUME NEW r \in Requests, Receive(r) PROVE Responded'
  BY <1>3, ReceiveMoves DEF Responded
<1>4. CASE Crash \/ PruneClaims \/ Tick \/ Idle \/ UNCHANGED vars \/ \E r \in Requests : Drop(r)
  BY <1>4, OtherMoves DEF Responded, InFlight, StoreCalls, history
<1> QED BY <1>1, <1>2, <1>3, <1>4 DEF Next

\* Only the router answers 405.
LEMMA HandlerAllows ==
  ASSUME TypeInv, Responded, NEW r \in Requests, HandlerStep(r)
  PROVE  SameNotAllowed
<1>1. response'[r] # "not_allowed"
  <2>1. Resumes(r)
    BY HandlerStepShape
  <2>2. CASE response'[r] = response[r]
    <3>1. response[r] = None
      BY HandlerMoves DEF Responded, InFlight, StoreCalls
    <3> QED BY <2>2, <3>1, ConstantsAssumption DEF Responses
  <2>3. ASSUME NEW outcome \in Outcomes, response' = [response EXCEPT ![r] = outcome]
        PROVE  response'[r] # "not_allowed"
    BY <2>3 DEF Outcomes, TypeInv, TypeOK
  <2> QED BY <2>1, <2>2, <2>3 DEF Resumes, Call, Respond
<1>2. response[r] # "not_allowed"
  <2>1. response[r] = None
    BY HandlerMoves DEF Responded, InFlight, StoreCalls
  <2> QED BY <2>1, ConstantsAssumption DEF Responses
<1>3. \A q \in Requests : q # r => response'[q] = response[q]
  BY HandlerMoves
<1>4. crashes' = crashes
  BY HandlerMoves
<1> QED BY <1>1, <1>2, <1>3, <1>4 DEF SameNotAllowed, NotAllowed

LEMMA AccountInductive ==
  ASSUME TypeInv, Responded, UnavailableIsAccounted, [Next]_vars
  PROVE  UnavailableIsAccounted'
<1>m. metrics \in [Counters -> Nat]
  BY DEF TypeInv, TypeOK
<1>1. ASSUME NEW r \in Requests, HandlerStep(r) PROVE UnavailableIsAccounted'
  <2>1. SameNotAllowed
    BY <1>1, HandlerAllows
  <2>2. CASE UNCHANGED metrics
    BY <2>1, <2>2, StillAccounted
  <2> QED BY <1>m, <1>1, <2>1, <2>2, HandlerAccounts, CountAccounted
<1>2. ASSUME NEW r \in Requests, StoreStep(r) PROVE UnavailableIsAccounted'
  <2>1. SameNotAllowed /\ metrics' = metrics
    BY <1>2, StoreMoves DEF SameNotAllowed, NotAllowed
  <2> QED BY <2>1, StillAccounted
<1>3. ASSUME NEW r \in Requests, Receive(r) PROVE UnavailableIsAccounted'
  <2>1. pc[r] = "unsent" /\ crashes' = crashes
    BY <1>3, ReceiveMoves
  <2>2. response[r] = None
    BY <2>1 DEF Responded
  <2>3. CASE RespondNotAllowed(r)
    BY <2>1, <2>3, NotAllowedAccounts
  <2>4. ASSUME response'[r] # "not_allowed" PROVE SameNotAllowed
    <3>1. response[r] # "not_allowed"
      BY <2>2, ConstantsAssumption DEF Responses
    <3>2. \A q \in Requests : q # r => response'[q] = response[q]
      BY <1>3, ReceiveMoves
    <3> QED BY <2>1, <2>4, <3>1, <3>2 DEF SameNotAllowed, NotAllowed
  <2>5. CASE Respond(r, "malformed", {})
    <3>1. {"malformed"} \in SUBSET Counters /\ Accounted({"malformed"})
      BY DEF Counters, Outcomes, Accounted, Fatal
    <3>2. {} \union {"malformed"} = {"malformed"}
      OBVIOUS
    <3>3. Count({"malformed"}) /\ response'[r] = "malformed"
      BY <2>5, <3>2 DEF Respond, TypeInv, TypeOK
    <3>4. SameNotAllowed
      BY <2>4, <3>3
    <3> QED BY <1>m, <3>1, <3>3, <3>4, CountAccounted
  <2>6. CASE Call(r, "authenticate") /\ UNCHANGED metrics
    <3>1. response'[r] # "not_allowed"
      BY <2>2, <2>6, ConstantsAssumption DEF Call, Responses
    <3> QED BY <2>4, <2>6, <3>1, StillAccounted
  <2> QED BY <1>3, <2>3, <2>5, <2>6 DEF Receive
<1>4. CASE Crash
  BY <1>4, CrashAccounts
<1>5. CASE PruneClaims \/ Tick \/ Idle \/ UNCHANGED vars \/ \E r \in Requests : Drop(r)
  <2>1. metrics' = metrics /\ crashes' = crashes /\ response' = response
    BY <1>5 DEF PruneClaims, Tick, Idle, Drop, vars, history
  <2> QED BY <2>1, StillAccounted DEF SameNotAllowed, NotAllowed
<1> QED BY <1>1, <1>2, <1>3, <1>4, <1>5 DEF Next

\* The unavailable results that the middleware counts are the failure stages that the handler
\* counts and the requests of another method, exactly until the process dies: the 503s agree
\* whatever is dropped, and a 405 is told as the service's failure without a stage
\* (observe_webhook_request, result_for_status, unavailable_error).
THEOREM UnavailableAgrees == Spec => []UnavailableIsAccounted
<1>1. Init => Responded /\ UnavailableIsAccounted
  <2> SUFFICES ASSUME Init PROVE Responded /\ UnavailableIsAccounted
    OBVIOUS
  <2>1. Responded
    BY DEF Init, Responded
  <2>2. NotAllowed = {}
    BY ConstantsAssumption DEF Init, NotAllowed, Responses
  <2>3. metrics["unavailable"] = 0 /\ FailureStagesCounted = 0
    BY DEF Init, FailureStagesCounted, Counters, Outcomes, FailureStages
  <2>4. Cardinality(NotAllowed) = 0
    BY <2>2, FS_EmptySet
  <2> QED BY <2>1, <2>3, <2>4 DEF UnavailableIsAccounted
<1>2. ClaimInv => TypeInv
  BY DEF ClaimInv
<1>3. TypeInv /\ Responded /\ UnavailableIsAccounted /\ [Next]_vars
        => Responded' /\ UnavailableIsAccounted'
  BY RespondedInductive, AccountInductive
<1> QED BY <1>1, <1>2, <1>3, ClaimCorrect, PTL DEF Spec

-----------------------------------------------------------------------------
(* Runs.                                                                   *)

\* Where a request of a counted run is, and that its context is stored once its upsert
\* has succeeded.
RunInv ==
  \A r \in Requests :
    /\ response[r] # None => pc[r] = "done"
    /\ r \in observed => pc[r] \notin {"unsent", "authenticate", "claim"}
    /\ r \in observed /\ Event(r) \in RunEvents =>
         /\ pc[r] \in {"upsert_run", "list_links", "done", "dropped"}
         /\ pc[r] = "upsert_run" /\ answer[r] = "ok" => Subject(r) \in runs
         /\ pc[r] = "list_links" => Subject(r) \in runs
         /\ response[r] = "accepted" => Subject(r) \in runs

\* Facts of one request that a step of another, adding rows at most, leaves alone.
LEMMA RunFrame ==
  ASSUME RunInv, NEW q \in Requests, runs \subseteq runs',
         pc'[q] = pc[q] \/ (pc'[q] = "dropped" /\ InFlight(q)), response'[q] = response[q],
         pc'[q] = "upsert_run" => answer'[q] = answer[q],
         delivery'[q] = delivery[q], q \in observed' => q \in observed
  PROVE  /\ response'[q] # None => pc'[q] = "done"
         /\ q \in observed' => pc'[q] \notin {"unsent", "authenticate", "claim"}
         /\ q \in observed' /\ Event(q)' \in RunEvents =>
              /\ pc'[q] \in {"upsert_run", "list_links", "done", "dropped"}
              /\ pc'[q] = "upsert_run" /\ answer'[q] = "ok" => Subject(q)' \in runs'
              /\ pc'[q] = "list_links" => Subject(q)' \in runs'
              /\ response'[q] = "accepted" => Subject(q)' \in runs'
BY DEF RunInv, Event, Subject, InFlight, StoreCalls

LEMMA StoreKeepsRuns ==
  ASSUME ClaimInv, RunInv, NEW r \in Requests, StoreStep(r)
  PROVE  RunInv'
<1> USE DEF ClaimInv
<1>1. /\ UNCHANGED <<pc, delivery, response, observed>> /\ answer[r] = None
      /\ \A q \in Requests : q # r => answer'[q] = answer[q]
  BY StoreMoves
<1>2. runs \subseteq runs'
  BY DEF StoreStep, Authenticate, ClaimDelivery, UpsertRun, ListLinks, GetRun, GetChecks,
         RecordLink, Enqueue, Complete, StoreFails, durable
<1>3. pc[r] = "upsert_run" /\ answer'[r] = "ok" => Subject(r) \in runs'
  BY DEF StoreStep, Authenticate, ClaimDelivery, UpsertRun, ListLinks, GetRun, GetChecks,
         RecordLink, Enqueue, Complete, StoreFails, Waiting, Answer, TypeInv, TypeOK
<1> QED BY <1>1, <1>2, <1>3 DEF RunInv, Event, Subject

LEMMA HandlerKeepsRuns ==
  ASSUME ClaimInv, RunInv, NEW r \in Requests, HandlerStep(r)
  PROVE  RunInv'
<1> USE DEF ClaimInv
<1>1. /\ UNCHANGED <<runs, delivery>> /\ InFlight(r) /\ answer[r] # None /\ answer'[r] = None
      /\ \A q \in Requests : q # r => pc'[q] = pc[q] /\ answer'[q] = answer[q] /\ response'[q] = response[q]
      /\ (pc'[r] \in StoreCalls /\ response'[r] = response[r]) \/ pc'[r] = "done"
  BY HandlerMoves DEF durable
<1>2. observed' \in {observed, observed \union {r}}
  BY HandlerStepHistory
<1>3. response[r] = None
  BY <1>1 DEF RunInv, InFlight, StoreCalls
<1>4. response'[r] # None => pc'[r] = "done"
  BY <1>1, <1>3
<1>5. answer'[r] # "ok"
  BY <1>1, ConstantsAssumption DEF Answers
<1>6. r \in observed' => /\ pc'[r] \notin {"unsent", "authenticate", "claim"}
                         /\ Event(r) \in RunEvents => pc'[r] \in {"upsert_run", "list_links", "done"}
  <2> USE DEF RunEvents, CompletionEvents
  <2>1. CASE Authenticated(r)
    BY <1>1, <2>1 DEF Authenticated, Answered, RunInv
  <2>2. CASE Claimed(r)
    <3>1. CASE r \in observed
      BY <2>2, <3>1 DEF Claimed, Answered, RunInv
    <3>2. CASE Dispatch(r)
      BY <1>1, <2>2, <3>2 DEF Dispatch, AdmitJob, Call, Respond, TypeInv, TypeOK
    <3> QED BY <2>2, <3>1, <3>2 DEF Claimed, Respond
  <2>3. CASE RunUpserted(r) \/ LinksListed(r) \/ LinkRecorded(r) \/ QueueApplied(r)
    BY <1>1, <2>3 DEF RunUpserted, LinksListed, LinkRecorded, QueueApplied, Call, Respond, TypeInv, TypeOK
  <2>4. CASE RunRead(r) \/ ChecksRead(r)
    <3>1. r \in observed => Event(r) \notin RunEvents
      BY <2>4 DEF RunRead, ChecksRead, Answered, RunInv
    <3>2. observed' = observed
      BY <2>4 DEF RunRead, ChecksRead
    <3>3. pc'[r] \in {"get_checks", "record_link", "done"}
      BY <2>4 DEF RunRead, ChecksRead, EmitJob, Call, Respond, TypeInv, TypeOK
    <3> QED BY <3>1, <3>2, <3>3
  <2> QED BY <2>1, <2>2, <2>3, <2>4 DEF HandlerStep
<1>7. r \in observed' /\ Event(r) \in RunEvents /\ (pc'[r] = "list_links" \/ response'[r] = "accepted")
        => Subject(r) \in runs
  <2> SUFFICES ASSUME r \in observed', Event(r) \in RunEvents,
                      pc'[r] = "list_links" \/ response'[r] = "accepted"
               PROVE  Subject(r) \in runs
    OBVIOUS
  <2>1. CASE pc[r] \in {"authenticate", "claim"}
    <3> USE DEF RunEvents, CompletionEvents
    <3>1. CASE Authenticated(r)
      BY <3>1 DEF Authenticated, Answered, RunInv
    <3>2. CASE Claimed(r)
      <4>1. r \notin observed
        BY <2>1 DEF RunInv
      <4>2. Dispatch(r)
        BY <3>2, <4>1 DEF Claimed
      <4>3. Call(r, "upsert_run")
        BY <4>2 DEF Dispatch, AdmitJob
      <4> QED BY <1>3, <4>3, ConstantsAssumption DEF Call, TypeInv, TypeOK, Responses, Outcomes
    <3> QED BY <2>1, <3>1, <3>2 DEF HandlerStep, RunUpserted, LinksListed, LinkRecorded, QueueApplied,
            RunRead, ChecksRead, Answered
  <2>2. CASE pc[r] \in {"upsert_run", "list_links"}
    <3>1. r \in observed
      BY <1>1, <2>2 DEF GateInv, PastTheClaim, StoreCalls
    <3>2. CASE pc[r] = "list_links"
      BY <3>1, <3>2 DEF RunInv
    <3>3. CASE pc[r] = "upsert_run"
      <4>1. RunUpserted(r)
        BY <3>3 DEF HandlerStep, Authenticated, Claimed, LinksListed, LinkRecorded, QueueApplied,
               RunRead, ChecksRead, Answered
      <4>2. answer[r] = "ok"
        BY <1>3, <3>3, <4>1 DEF RunUpserted, Respond, TypeInv, TypeOK
      <4> QED BY <3>1, <3>3, <4>2 DEF RunInv
    <3> QED BY <2>2, <3>2, <3>3
  <2>3. CASE pc[r] \in StoreCalls \ {"authenticate", "claim", "upsert_run", "list_links"}
    <3>1. r \in observed
      BY <2>3 DEF GateInv, PastTheClaim
    <3> QED BY <2>3, <3>1 DEF RunInv, StoreCalls
  <2> QED BY <1>1, <2>1, <2>2, <2>3 DEF InFlight
<1> QED BY <1>1, <1>2, <1>4, <1>5, <1>6, <1>7 DEF RunInv, Event, Subject

LEMMA RunInductive == ClaimInv /\ RunInv /\ [Next]_vars => RunInv'
<1> SUFFICES ASSUME ClaimInv, RunInv, [Next]_vars PROVE RunInv'
  OBVIOUS
<1> USE DEF ClaimInv
<1>1. ASSUME NEW r \in Requests, Receive(r) PROVE RunInv'
  <2>1. r \notin observed
    BY <1>1 DEF Receive, RunInv
  <2>2. response[r] = None
    BY <1>1 DEF Receive, RunInv
  <2>3. runs' = runs
    BY <1>1, ReceiveMoves DEF durable
  <2> QED BY <1>1, <2>1, <2>2, <2>3, ReceiveMoves, RunFrame DEF RunInv
<1>2. CASE Crash \/ PruneClaims \/ Tick \/ Idle \/ UNCHANGED vars \/ \E r \in Requests : Drop(r)
  <2>1. UNCHANGED <<runs, delivery, response, observed>>
    BY <1>2, OtherMoves DEF history
  <2>2. \A q \in Requests : \/ pc'[q] = pc[q] /\ (InFlight(q) => answer'[q] = answer[q])
                            \/ pc'[q] = "dropped" /\ InFlight(q)
    BY <1>2, OtherMoves
  <2>3. \A q \in Requests : pc'[q] = "upsert_run" => answer'[q] = answer[q]
    BY <2>2 DEF InFlight, StoreCalls
  <2> QED BY <2>1, <2>2, <2>3, RunFrame DEF RunInv
<1> QED BY <1>1, <1>2, StoreKeepsRuns, HandlerKeepsRuns DEF Next

LEMMA RunsCorrect == Spec => [](ClaimInv /\ RunInv)
<1>1. Init => RunInv
  BY DEF Init, RunInv
<1> QED BY <1>1, RunInductive, ClaimCorrect, PTL DEF Spec

\* A workflow run whose delivery was counted and accepted has its context stored
\* (apply_new_delivery's upsert, which answers 503 when it fails).
THEOREM AcceptedRunsAreStored == Spec => []AcceptedRunIsDurable
<1>1. ClaimInv /\ RunInv => AcceptedRunIsDurable
  BY DEF ClaimInv, TypeInv, TypeOK, RunInv, AcceptedRunIsDurable
<1> QED BY <1>1, RunsCorrect, PTL

-----------------------------------------------------------------------------
(* Summaries.                                                              *)

Emitted(j) == \E q \in jobTraces : delivery[q] = j

\* Links are to traces, and what a request was answered is so of its own attempt.
LinkInv ==
  /\ \A j \in links : Emitted(j)
  /\ \A r \in Requests :
       /\ pc[r] = "record_link" => r \in jobTraces
       /\ pc[r] = "list_links" /\ answer[r] = "listed" =>
            \A j \in listed[r] : SubjectOf[j] = Subject(r) /\ Emitted(j)
       /\ Cardinality(pipeline[r]) <= MaxJobs
       /\ \A j \in pipeline[r] : SubjectOf[j] = Subject(r) /\ Emitted(j)

\* A request that has emitted, or summarised, is past its claim.
LEMMA EmittersClaimed ==
  ASSUME ClaimInv, NEW r \in Requests, r \in jobTraces \/ pipeline[r] # {} \/ r \in enqueuedBy \union completedBy
  PROVE  pc[r] \notin {"unsent", "authenticate"}
BY DEF ClaimInv, GateInv, Effected

LEMMA StoreKeepsLinks ==
  ASSUME ClaimInv, LinkInv, NEW r \in Requests, StoreStep(r)
  PROVE  LinkInv'
<1> USE DEF ClaimInv
<1>1. /\ UNCHANGED <<pc, delivery, jobTraces, pipeline>> /\ answer[r] = None
      /\ \A q \in Requests : q # r => answer'[q] = answer[q] /\ listed'[q] = listed[q]
  BY StoreMoves DEF traces
<1>2. \A j : Emitted(j) => Emitted(j)'
  BY <1>1 DEF Emitted
<1>3. \A j \in links' : Emitted(j)
  <2>1. CASE RecordLink(r)
    BY <2>1 DEF RecordLink, Waiting, LinkInv, Emitted
  <2>2. CASE ~RecordLink(r)
    BY <2>2 DEF StoreStep, Authenticate, ClaimDelivery, UpsertRun, ListLinks, GetRun, GetChecks,
                Enqueue, Complete, StoreFails, durable, LinkInv
  <2> QED BY <2>1, <2>2
<1>4. pc[r] = "list_links" /\ answer'[r] = "listed" =>
        \A j \in listed'[r] : SubjectOf[j] = Subject(r) /\ Emitted(j)
  <2>1. CASE ListLinks(r)
    <3>1. PICK page \in SUBSET {j \in links : SubjectOf[j] = Subject(r)} :
              listed' = [listed EXCEPT ![r] = page]
      BY <2>1 DEF ListLinks
    <3>2. listed'[r] = page
      BY <3>1 DEF TypeInv, TypeOK
    <3> QED BY <3>1, <3>2 DEF LinkInv
  <2>2. CASE StoreFails(r)
    BY <2>2 DEF StoreFails, Answer, TypeInv, TypeOK
  <2> QED BY <2>1, <2>2 DEF StoreStep, Authenticate, ClaimDelivery, UpsertRun, GetRun, GetChecks,
             RecordLink, Enqueue, Complete, Waiting
<1>5. \A q \in Requests : Subject(q)' = Subject(q)
  BY <1>1 DEF Subject
<1> QED BY <1>1, <1>2, <1>3, <1>4, <1>5 DEF LinkInv

LEMMA HandlerKeepsLinks ==
  ASSUME ClaimInv, LinkInv, NEW r \in Requests, HandlerStep(r)
  PROVE  LinkInv'
<1> USE DEF ClaimInv
<1>1. /\ UNCHANGED <<links, listed, delivery>> /\ InFlight(r) /\ answer'[r] = None
      /\ \A q \in Requests : q # r => pc'[q] = pc[q] /\ answer'[q] = answer[q]
  BY HandlerMoves DEF durable
<1>2. jobTraces \subseteq jobTraces'
  BY HandlerStepHistory
<1>3. \A j : Emitted(j) => Emitted(j)'
  BY <1>1, <1>2 DEF Emitted
<1>4. answer'[r] # "listed"
  BY <1>1, ConstantsAssumption DEF Answers
<1>5. pc'[r] = "record_link" => r \in jobTraces'
  <2>1. CASE RunRead(r) \/ ChecksRead(r)
    BY <2>1 DEF RunRead, ChecksRead, EmitJob, Call, Respond, TypeInv, TypeOK
  <2>2. CASE Claimed(r)
    BY <2>2 DEF Claimed, Dispatch, AdmitJob, Call, Respond, TypeInv, TypeOK
  <2>3. CASE Authenticated(r) \/ RunUpserted(r) \/ LinksListed(r) \/ LinkRecorded(r) \/ QueueApplied(r)
    BY <2>3 DEF Authenticated, RunUpserted, LinksListed, LinkRecorded, QueueApplied, Call, Respond,
                TypeInv, TypeOK
  <2> QED BY <2>1, <2>2, <2>3 DEF HandlerStep
<1>6. /\ Cardinality(pipeline'[r]) <= MaxJobs
      /\ \A j \in pipeline'[r] : SubjectOf[j] = Subject(r) /\ Emitted(j)
  <2>1. CASE pipeline' = pipeline
    BY <2>1 DEF LinkInv
  <2>2. CASE pipeline' # pipeline
    <3>1. /\ LinksListed(r) /\ answer[r] = "listed" /\ Cardinality(listed[r]) <= MaxJobs
          /\ pipeline' = [pipeline EXCEPT ![r] = listed[r]]
      BY <2>2 DEF HandlerStep, Authenticated, Claimed, RunUpserted, LinksListed, RunRead, ChecksRead,
                  LinkRecorded, QueueApplied, traces
    <3>2. pipeline'[r] = listed[r]
      BY <3>1 DEF TypeInv, TypeOK
    <3> QED BY <3>1, <3>2 DEF LinkInv, LinksListed, Answered
  <2> QED BY <2>1, <2>2
<1>7. \A q \in Requests : q # r => pipeline'[q] = pipeline[q]
  BY HandlerStepHistory DEF TypeInv, TypeOK
<1>8. \A q \in Requests : Subject(q)' = Subject(q)
  BY <1>1 DEF Subject
<1> QED BY <1>1, <1>2, <1>3, <1>4, <1>5, <1>6, <1>7, <1>8 DEF LinkInv

LEMMA LinkInductive == ClaimInv /\ LinkInv /\ [Next]_vars => LinkInv'
<1> SUFFICES ASSUME ClaimInv, LinkInv, [Next]_vars PROVE LinkInv'
  OBVIOUS
<1> USE DEF ClaimInv
<1>1. ASSUME NEW r \in Requests, Receive(r) PROVE LinkInv'
  <2>1. /\ UNCHANGED <<links, listed, jobTraces, pipeline>>
        /\ pc[r] = "unsent" /\ pc'[r] \in {"authenticate", "done"}
        /\ \A q \in Requests : q # r => pc'[q] = pc[q] /\ answer'[q] = answer[q] /\ delivery'[q] = delivery[q]
    BY <1>1, ReceiveMoves DEF durable, traces
  <2>2. r \notin jobTraces /\ pipeline[r] = {}
    BY <2>1, EmittersClaimed
  <2>3. \A j : Emitted(j) => Emitted(j)'
    BY <2>1, <2>2 DEF Emitted, TypeInv, TypeOK
  <2>4. \A q \in Requests : q # r => Subject(q)' = Subject(q)
    BY <2>1 DEF Subject
  <2> QED BY <2>1, <2>2, <2>3, <2>4 DEF LinkInv
<1>2. CASE Crash \/ PruneClaims \/ Tick \/ Idle \/ UNCHANGED vars \/ \E r \in Requests : Drop(r)
  <2>1. UNCHANGED <<links, listed, delivery, jobTraces, pipeline>>
    BY <1>2, OtherMoves DEF history
  <2>2. \A q \in Requests : \/ pc'[q] = pc[q] /\ (InFlight(q) => answer'[q] = answer[q])
                            \/ pc'[q] = "dropped"
    BY <1>2, OtherMoves
  <2>3. \A q \in Requests : pc'[q] = "list_links" => answer'[q] = answer[q] /\ pc[q] = pc'[q]
    BY <2>2 DEF InFlight, StoreCalls
  <2>4. \A q \in Requests : pc'[q] = "record_link" => pc[q] = pc'[q]
    BY <2>2
  <2> QED BY <2>1, <2>3, <2>4 DEF LinkInv, Emitted, Subject
<1> QED BY <1>1, <1>2, StoreKeepsLinks, HandlerKeepsLinks DEF Next

\* A pipeline summary is of emitted traces of its own attempt, and of no more than may be
\* summarised, for any number of jobs (emit_pipeline_trace).
THEOREM SummariesLinkTraces == Spec => []PipelineLinksEmittedTraces
<1>1. Init => LinkInv
  <2>1. Cardinality({}) = 0
    BY FS_EmptySet
  <2> QED BY <2>1, ConstantsAssumption DEF Init, LinkInv
<1>2. LinkInv => PipelineLinksEmittedTraces
  BY DEF LinkInv, PipelineLinksEmittedTraces, Emitted
<1> QED BY <1>1, <1>2, LinkInductive, ClaimCorrect, PTL DEF Spec

-----------------------------------------------------------------------------
(* Attempts.                                                               *)

\* A request opens or closes an attempt with the answer of its one store call.
QueueInv ==
  \A r \in Requests :
    /\ r \in enqueuedBy => (pc[r] = "enqueue" /\ answer[r] # None) \/ pc[r] \in {"done", "dropped"}
    /\ r \in completedBy => (pc[r] = "complete" /\ answer[r] # None) \/ pc[r] \in {"done", "dropped"}
    /\ pc[r] = "enqueue" => answer[r] # "completed"
    /\ pc[r] = "complete" /\ answer[r] = "completed" => r \in completedBy

About(set, s) == {r \in set : Subject(r) = s}

\* A member more is one more of its subject, and no more of another's.
LEMMA OneMoreAbout ==
  ASSUME NEW set \in SUBSET Requests, NEW r \in Requests, r \notin set, NEW s
  PROVE  /\ Cardinality(About(set, s)) \in Nat
         /\ Cardinality(About(set \union {r}, s)) =
              Cardinality(About(set, s)) + (IF Subject(r) = s THEN 1 ELSE 0)
<1>1. About(set, s) \subseteq Requests
  BY DEF About
<1>2. IsFiniteSet(About(set, s)) /\ Cardinality(About(set, s)) \in Nat
  BY <1>1, ConstantsAssumption, FS_Subset, FS_CardinalityType
<1>3. CASE Subject(r) = s
  <2>1. About(set \union {r}, s) = About(set, s) \union {r} /\ r \notin About(set, s)
    BY <1>3 DEF About
  <2> QED BY <1>2, <1>3, <2>1, FS_AddElement
<1>4. CASE Subject(r) # s
  <2>1. About(set \union {r}, s) = About(set, s)
    BY <1>4 DEF About
  <2> QED BY <1>2, <1>4, <2>1
<1> QED BY <1>3, <1>4

LEMMA QueueFrame ==
  ASSUME QueueConservation, UNCHANGED <<attempts, enqueuedBy, completedBy>>,
         \A q \in enqueuedBy \union completedBy : Subject(q)' = Subject(q)
  PROVE  QueueConservation'
<1>1. \A s : /\ {r \in enqueuedBy : Subject(r) = s}' = {r \in enqueuedBy : Subject(r) = s}
             /\ {r \in completedBy : Subject(r) = s}' = {r \in completedBy : Subject(r) = s}
  OBVIOUS
<1> QED BY <1>1 DEF QueueConservation

LEMMA StoreKeepsQueue ==
  ASSUME ClaimInv, QueueInv, QueueConservation, NEW r \in Requests, StoreStep(r)
  PROVE  QueueInv' /\ QueueConservation'
<1> USE DEF ClaimInv
<1>1. /\ UNCHANGED <<pc, delivery>> /\ answer[r] = None /\ InFlight(r)
      /\ \A q \in Requests : q # r => answer'[q] = answer[q]
  BY StoreMoves
<1>2. r \notin enqueuedBy /\ r \notin completedBy
  BY <1>1 DEF QueueInv, InFlight, StoreCalls
<1>3. Subject(r) \in Subjects
  BY <1>1, ConstantsAssumption DEF Subject, TypeInv, Carries
<1>4. \A q : Subject(q)' = Subject(q)
  BY <1>1 DEF Subject
<1>5. enqueuedBy \subseteq Requests /\ completedBy \subseteq Requests
      /\ attempts \in [Subjects -> SUBSET {"pending", "completed"}]
  BY DEF TypeInv, TypeOK
<1>6. None # "completed" /\ None # "created"
  BY ConstantsAssumption DEF Answers
<1>7. CASE Enqueue(r) /\ "pending" \notin attempts[Subject(r)]
  <2>1. /\ attempts' = [attempts EXCEPT ![Subject(r)] = @ \union {"pending"}]
        /\ enqueuedBy' = enqueuedBy \union {r} /\ completedBy' = completedBy
        /\ pc[r] = "enqueue" /\ answer' = [answer EXCEPT ![r] = "created"]
    BY <1>7 DEF Enqueue, Answer, Waiting
  <2>2. answer'[r] = "created"
    BY <2>1 DEF TypeInv, TypeOK
  <2>3. QueueInv'
    BY <1>1, <1>2, <1>6, <2>1, <2>2 DEF QueueInv
  <2>4. QueueConservation'
    <3> SUFFICES ASSUME NEW s \in Subjects
                 PROVE  Cardinality(About(enqueuedBy', s)) - Cardinality(About(completedBy', s)) =
                          IF "pending" \in attempts'[s] THEN 1 ELSE 0
      BY <1>4 DEF QueueConservation, About
    <3>1. Cardinality(About(enqueuedBy, s)) - Cardinality(About(completedBy, s)) =
            IF "pending" \in attempts[s] THEN 1 ELSE 0
      BY DEF QueueConservation, About
    <3>2. /\ Cardinality(About(enqueuedBy, s)) \in Nat
          /\ Cardinality(About(enqueuedBy', s)) =
               Cardinality(About(enqueuedBy, s)) + (IF Subject(r) = s THEN 1 ELSE 0)
      BY <1>2, <1>5, <2>1, OneMoreAbout
    <3>3. Cardinality(About(completedBy, s)) \in Nat /\ completedBy' = completedBy
      BY <1>2, <1>5, <2>1, OneMoreAbout
    <3>4. "pending" \in attempts'[s] <=> (s = Subject(r) \/ "pending" \in attempts[s])
      BY <1>5, <2>1
    <3> QED BY <1>7, <3>1, <3>2, <3>3, <3>4
  <2> QED BY <2>3, <2>4
<1>8. CASE Complete(r) /\ "pending" \in attempts[Subject(r)]
  <2>1. /\ attempts' = [attempts EXCEPT ![Subject(r)] = {"completed"}]
        /\ completedBy' = completedBy \union {r} /\ enqueuedBy' = enqueuedBy
        /\ pc[r] = "complete" /\ answer' = [answer EXCEPT ![r] = "completed"]
    BY <1>8 DEF Complete, Answer, Waiting
  <2>2. answer'[r] = "completed"
    BY <2>1 DEF TypeInv, TypeOK
  <2>3. QueueInv'
    BY <1>1, <1>2, <1>6, <2>1, <2>2 DEF QueueInv
  <2>4. QueueConservation'
    <3> SUFFICES ASSUME NEW s \in Subjects
                 PROVE  Cardinality(About(enqueuedBy', s)) - Cardinality(About(completedBy', s)) =
                          IF "pending" \in attempts'[s] THEN 1 ELSE 0
      BY <1>4 DEF QueueConservation, About
    <3>1. Cardinality(About(enqueuedBy, s)) - Cardinality(About(completedBy, s)) =
            IF "pending" \in attempts[s] THEN 1 ELSE 0
      BY DEF QueueConservation, About
    <3>2. /\ Cardinality(About(completedBy, s)) \in Nat
          /\ Cardinality(About(completedBy', s)) =
               Cardinality(About(completedBy, s)) + (IF Subject(r) = s THEN 1 ELSE 0)
      BY <1>2, <1>5, <2>1, OneMoreAbout
    <3>3. Cardinality(About(enqueuedBy, s)) \in Nat /\ enqueuedBy' = enqueuedBy
      BY <1>2, <1>5, <2>1, OneMoreAbout
    <3>4. "pending" \in attempts'[s] <=> (s # Subject(r) /\ "pending" \in attempts[s])
      BY <1>5, <2>1
    <3> QED BY <1>8, <3>1, <3>2, <3>3, <3>4
  <2> QED BY <2>3, <2>4
<1>9. CASE /\ ~(Enqueue(r) /\ "pending" \notin attempts[Subject(r)])
           /\ ~(Complete(r) /\ "pending" \in attempts[Subject(r)])
  <2>1. UNCHANGED <<attempts, enqueuedBy, completedBy>>
    BY <1>9 DEF StoreStep, Authenticate, ClaimDelivery, UpsertRun, ListLinks, GetRun, GetChecks,
           RecordLink, Enqueue, Complete, StoreFails, durable
  <2>2. pc[r] \in {"enqueue", "complete"} => answer'[r] # "completed"
    <3>1. CASE Enqueue(r) \/ Complete(r)
      BY <1>9, <3>1 DEF Enqueue, Complete, Answer, TypeInv, TypeOK
    <3>2. CASE StoreFails(r)
      BY <3>2 DEF StoreFails, Answer, TypeInv, TypeOK
    <3> QED BY <3>1, <3>2 DEF StoreStep, Authenticate, ClaimDelivery, UpsertRun, ListLinks, GetRun,
               GetChecks, RecordLink, Waiting
  <2>3. QueueInv'
    BY <1>1, <1>2, <2>1, <2>2 DEF QueueInv
  <2> QED BY <1>4, <2>1, <2>3, QueueFrame
<1> QED BY <1>7, <1>8, <1>9

LEMMA HandlerKeepsQueue ==
  ASSUME ClaimInv, QueueInv, QueueConservation, NEW r \in Requests, HandlerStep(r)
  PROVE  QueueInv' /\ QueueConservation'
<1> USE DEF ClaimInv
<1>1. /\ UNCHANGED <<attempts, enqueuedBy, completedBy, delivery>> /\ InFlight(r) /\ answer'[r] = None
      /\ \A q \in Requests : q # r => pc'[q] = pc[q] /\ answer'[q] = answer[q]
      /\ answer[r] # None
  BY HandlerMoves DEF durable
<1>2. pc[r] \in {"enqueue", "complete"} => pc'[r] = "done"
  BY DEF HandlerStep, Authenticated, Claimed, RunUpserted, LinksListed, LinkRecorded, QueueApplied,
         RunRead, ChecksRead, Answered, Respond, TypeInv, TypeOK
<1>3. None # "completed"
  BY ConstantsAssumption DEF Answers
<1>4. QueueInv'
  BY <1>1, <1>2, <1>3 DEF QueueInv, InFlight, StoreCalls
<1> QED BY <1>1, <1>4, QueueFrame DEF Subject

LEMMA OthersKeepQueue ==
  ASSUME ClaimInv, QueueInv, QueueConservation,
         \/ \E r \in Requests : Receive(r) \/ Drop(r)
         \/ Crash \/ PruneClaims \/ Tick \/ Idle \/ UNCHANGED vars
  PROVE  QueueInv' /\ QueueConservation'
<1> USE DEF ClaimInv
<1>1. ASSUME NEW r \in Requests, Receive(r) PROVE QueueInv' /\ QueueConservation'
  <2>1. /\ UNCHANGED <<attempts, enqueuedBy, completedBy>>
        /\ pc[r] = "unsent" /\ pc'[r] \in {"authenticate", "done"}
        /\ \A q \in Requests : q # r => pc'[q] = pc[q] /\ answer'[q] = answer[q] /\ delivery'[q] = delivery[q]
    BY <1>1, ReceiveMoves DEF durable
  <2>2. r \notin enqueuedBy \union completedBy
    BY <2>1 DEF QueueInv
  <2>3. \A q \in enqueuedBy \union completedBy : Subject(q)' = Subject(q)
    BY <2>1, <2>2 DEF Subject, TypeInv, TypeOK
  <2>4. QueueInv'
    BY <2>1, <2>2 DEF QueueInv
  <2> QED BY <2>1, <2>3, <2>4, QueueFrame
<1>2. CASE Crash \/ PruneClaims \/ Tick \/ Idle \/ UNCHANGED vars \/ \E r \in Requests : Drop(r)
  <2>1. UNCHANGED <<attempts, enqueuedBy, completedBy, delivery>>
    BY <1>2, OtherMoves DEF history
  <2>2. \A q \in Requests : \/ pc'[q] = pc[q] /\ (InFlight(q) => answer'[q] = answer[q])
                            \/ pc'[q] = "dropped"
    BY <1>2, OtherMoves
  <2>3. \A q \in Requests : pc'[q] \in {"enqueue", "complete"} => answer'[q] = answer[q] /\ pc[q] = pc'[q]
    BY <2>2 DEF InFlight, StoreCalls
  <2>4. \A q \in Requests : \/ pc'[q] = "dropped"
                            \/ pc'[q] = pc[q] /\ (pc[q] \in {"enqueue", "complete"} => answer'[q] = answer[q])
    BY <2>2 DEF InFlight, StoreCalls
  <2>5. QueueInv'
    BY <2>1, <2>3, <2>4 DEF QueueInv
  <2> QED BY <2>1, <2>5, QueueFrame DEF Subject
<1> QED BY <1>1, <1>2

LEMMA QueueCorrect == Spec => [](ClaimInv /\ QueueInv /\ QueueConservation)
<1>1. Init => QueueInv /\ QueueConservation
  <2> SUFFICES ASSUME Init PROVE QueueInv /\ QueueConservation
    OBVIOUS
  <2>1. QueueInv
    BY ConstantsAssumption DEF Init, QueueInv, Answers
  <2>2. \A s \in Subjects : /\ {r \in enqueuedBy : Subject(r) = s} = {}
                            /\ {r \in completedBy : Subject(r) = s} = {}
                            /\ attempts[s] = {}
    BY DEF Init
  <2>3. Cardinality({}) = 0
    BY FS_EmptySet
  <2>4. QueueConservation
    BY <2>2, <2>3 DEF QueueConservation
  <2> QED BY <2>1, <2>4
<1>2. ClaimInv /\ QueueInv /\ QueueConservation /\ [Next]_vars => QueueInv' /\ QueueConservation'
  BY StoreKeepsQueue, HandlerKeepsQueue, OthersKeepQueue DEF Next
<1> QED BY <1>1, <1>2, ClaimCorrect, PTL DEF Spec

\* The pending row of a pull request is the difference between the attempts opened and
\* closed for it, whatever races and whatever is dropped (enqueue, complete).
THEOREM AttemptsAreConserved == Spec => []QueueConservation
<1> QED BY QueueCorrect, PTL

-----------------------------------------------------------------------------
(* Outcomes.                                                               *)

\* The requests that closed an attempt and have gone past the counting of it.
Past == {r \in completedBy : pc[r] # "complete"}
Counted == metrics["queue_outcomes"] <= Cardinality(Past)

LEMMA PastFinite ==
  TypeInv => IsFiniteSet(Past) /\ Cardinality(Past) \in Nat /\ metrics["queue_outcomes"] \in Nat
<1>1. TypeInv => Past \subseteq Requests /\ metrics["queue_outcomes"] \in Nat
  BY DEF TypeInv, TypeOK, Past, Counters
<1> QED BY <1>1, ConstantsAssumption, FS_Subset, FS_CardinalityType

\* A step after which no request has left Past, and which counts no outcome.
LEMMA CountedGrows ==
  ASSUME ClaimInv, ClaimInv', Counted, Past \subseteq Past',
         metrics'["queue_outcomes"] <= metrics["queue_outcomes"]
  PROVE  Counted'
<1>1. IsFiniteSet(Past') /\ Cardinality(Past') \in Nat /\ metrics'["queue_outcomes"] \in Nat
  <2>1. Past' \subseteq Requests /\ metrics'["queue_outcomes"] \in Nat
    BY DEF ClaimInv, TypeInv, TypeOK, Past, Counters
  <2> QED BY <2>1, ConstantsAssumption, FS_Subset, FS_CardinalityType
<1>2. Cardinality(Past) \in Nat /\ metrics["queue_outcomes"] \in Nat
  BY PastFinite DEF ClaimInv
<1>3. Cardinality(Past) <= Cardinality(Past')
  BY <1>1, FS_Subset
<1> QED BY <1>1, <1>2, <1>3 DEF Counted

\* Only a completion that its transaction made counts an outcome.
LEMMA OutcomeCounted ==
  ASSUME TypeInv, NEW r \in Requests, HandlerStep(r)
  PROVE  \/ metrics'["queue_outcomes"] = metrics["queue_outcomes"]
         \/ /\ QueueApplied(r) /\ answer[r] = "completed"
            /\ metrics'["queue_outcomes"] = metrics["queue_outcomes"] + 1
<1>c. \A cs : Count(cs) /\ "queue_outcomes" \notin cs
                => metrics'["queue_outcomes"] = metrics["queue_outcomes"]
  BY DEF Count, Counters
<1>d. \A cs : Count(cs) /\ "queue_outcomes" \in cs
                => metrics'["queue_outcomes"] = metrics["queue_outcomes"] + 1
  BY DEF Count, Counters
<1> USE DEF Respond
<1>e. EmitJob(r) => metrics'["queue_outcomes"] = metrics["queue_outcomes"]
  BY <1>c DEF EmitJob
<1>1. CASE Authenticated(r)
  BY <1>1, <1>c DEF Authenticated
<1>2. CASE Claimed(r)
  <2>1. CASE Dispatch(r)
    BY <2>1, <1>c DEF Dispatch, AdmitJob
  <2> QED BY <1>2, <2>1, <1>c DEF Claimed
<1>3. CASE RunUpserted(r)
  BY <1>3, <1>c DEF RunUpserted
<1>4. CASE LinksListed(r)
  BY <1>4, <1>c DEF LinksListed
<1>5. CASE RunRead(r) \/ ChecksRead(r)
  BY <1>5, <1>c, <1>e DEF RunRead, ChecksRead
<1>6. CASE LinkRecorded(r)
  BY <1>6, <1>c DEF LinkRecorded
<1>7. CASE QueueApplied(r)
  <2>1. CASE answer[r] = "completed" /\ Count({"queue_outcomes"} \union {"accepted"})
    BY <1>7, <1>d, <2>1
  <2> QED BY <1>7, <1>c, <2>1 DEF QueueApplied
<1> QED BY <1>1, <1>2, <1>3, <1>4, <1>5, <1>6, <1>7 DEF HandlerStep

LEMMA HandlerKeepsCounted ==
  ASSUME ClaimInv, ClaimInv', QueueInv, Counted, NEW r \in Requests, HandlerStep(r)
  PROVE  Counted'
<1> USE DEF ClaimInv
<1>1. /\ completedBy' = completedBy /\ InFlight(r)
      /\ \A q \in Requests : q # r => pc'[q] = pc[q]
  BY HandlerMoves
<1>2. pc[r] = "complete" => pc'[r] = "done"
  BY DEF HandlerStep, Authenticated, Claimed, RunUpserted, LinksListed, LinkRecorded, QueueApplied,
         RunRead, ChecksRead, Answered, Respond, TypeInv, TypeOK
<1>3. r \in completedBy => pc[r] = "complete"
  BY <1>1 DEF QueueInv, InFlight, StoreCalls
<1>4. completedBy \subseteq Requests
  BY DEF TypeInv, TypeOK
<1>5. Past \subseteq Past'
  BY <1>1, <1>3, <1>4 DEF Past
<1>6. metrics["queue_outcomes"] \in Nat
  BY PastFinite
<1>7. CASE metrics'["queue_outcomes"] = metrics["queue_outcomes"]
  BY <1>5, <1>6, <1>7, CountedGrows
<1>8. CASE /\ QueueApplied(r) /\ answer[r] = "completed"
           /\ metrics'["queue_outcomes"] = metrics["queue_outcomes"] + 1
  <2>1. pc[r] = "complete" /\ r \in completedBy
    BY <1>8 DEF QueueApplied, Answered, QueueInv
  <2>2. Past' = Past \union {r} /\ r \notin Past
    BY <1>1, <1>2, <1>4, <2>1 DEF Past
  <2>3. Cardinality(Past') = Cardinality(Past) + 1
    BY <2>2, PastFinite, FS_AddElement
  <2> QED BY <1>6, <1>8, <2>3, PastFinite DEF Counted
<1> QED BY <1>7, <1>8, OutcomeCounted

LEMMA CountedInductive ==
  ClaimInv /\ ClaimInv' /\ QueueInv /\ Counted /\ [Next]_vars => Counted'
<1> SUFFICES ASSUME ClaimInv, ClaimInv', QueueInv, Counted, [Next]_vars PROVE Counted'
  OBVIOUS
<1>m. TypeInv /\ metrics["queue_outcomes"] \in Nat /\ completedBy \subseteq Requests
  BY PastFinite DEF ClaimInv, TypeInv, TypeOK
<1>1. ASSUME NEW r \in Requests, StoreStep(r) PROVE Counted'
  <2>1. UNCHANGED <<pc, metrics>>
    BY <1>m, <1>1, StoreMoves
  <2>2. completedBy \subseteq completedBy'
    BY <1>1 DEF StoreStep, Authenticate, ClaimDelivery, UpsertRun, ListLinks, GetRun, GetChecks,
           RecordLink, Enqueue, Complete, StoreFails
  <2>3. Past \subseteq Past'
    BY <2>1, <2>2 DEF Past
  <2> QED BY <1>m, <2>1, <2>3, CountedGrows
<1>2. ASSUME NEW r \in Requests, Receive(r) PROVE Counted'
  <2>1. /\ completedBy' = completedBy /\ pc[r] = "unsent"
        /\ \A q \in Requests : q # r => pc'[q] = pc[q]
    BY <1>m, <1>2, ReceiveMoves
  <2>2. r \notin completedBy
    BY <2>1 DEF QueueInv
  <2>3. Past \subseteq Past'
    BY <1>m, <2>1, <2>2 DEF Past
  <2>4. metrics'["queue_outcomes"] = metrics["queue_outcomes"]
    BY <1>2 DEF Receive, RespondNotAllowed, Respond, Count, Counters
  <2> QED BY <1>m, <2>3, <2>4, CountedGrows
<1>3. CASE Crash \/ PruneClaims \/ Tick \/ Idle \/ UNCHANGED vars \/ \E r \in Requests : Drop(r)
  <2>1. completedBy' = completedBy
    BY <1>m, <1>3, OtherMoves DEF history
  <2>2. \A q \in Requests : pc'[q] = pc[q] \/ pc'[q] = "dropped"
    BY <1>m, <1>3, OtherMoves
  <2>3. Past \subseteq Past'
    BY <1>m, <2>1, <2>2 DEF Past
  <2>4. metrics'["queue_outcomes"] <= metrics["queue_outcomes"]
    <3>1. metrics' = metrics \/ metrics' = [c \in Counters |-> 0]
      BY <1>m, <1>3, OtherMoves
    <3> QED BY <1>m, <3>1 DEF Counters
  <2> QED BY <2>3, <2>4, CountedGrows
<1> QED BY <1>1, <1>2, <1>3, HandlerKeepsCounted DEF Next

\* The outcome counter never exceeds the attempts that were durably completed, whatever
\* crashes between the commit and the counting (apply_pull_request_transition).
THEOREM OutcomesAreCommitted == Spec => []OutcomesFollowCommits
<1>1. Init => Counted
  <2> SUFFICES ASSUME Init PROVE Counted
    OBVIOUS
  <2>1. Past = {} /\ metrics["queue_outcomes"] = 0
    BY DEF Init, Past, Counters
  <2> QED BY <2>1, FS_EmptySet DEF Counted
<1>2. ClaimInv /\ Counted => OutcomesFollowCommits
  <2> SUFFICES ASSUME ClaimInv, Counted PROVE OutcomesFollowCommits
    OBVIOUS
  <2>1. completedBy \subseteq Requests /\ Past \subseteq completedBy
    BY DEF ClaimInv, TypeInv, TypeOK, Past
  <2>2. IsFiniteSet(completedBy) /\ Cardinality(completedBy) \in Nat
    BY <2>1, ConstantsAssumption, FS_Subset, FS_CardinalityType
  <2>3. Cardinality(Past) <= Cardinality(completedBy)
    BY <2>1, <2>2, FS_Subset
  <2>4. Cardinality(Past) \in Nat /\ metrics["queue_outcomes"] \in Nat
    BY PastFinite DEF ClaimInv
  <2> QED BY <2>2, <2>3, <2>4 DEF Counted, OutcomesFollowCommits
<1> QED BY <1>1, <1>2, CountedInductive, QueueCorrect, ClaimCorrect, PTL DEF Spec
=============================================================================
