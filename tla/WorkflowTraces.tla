---------------------------- MODULE WorkflowTraces ----------------------------
(***************************************************************************)
(* What the workflow deliveries become: a completed job is projected       *)
(* (src/api/workflow_job.rs) and emitted as a trace of its own             *)
(* (src/telemetry/workflow.rs), a row of workflow_job_links remembers the  *)
(* trace (src/storage/workflow_job_link_store.rs), and the completed run   *)
(* is emitted as a second trace whose spans are read back from those rows  *)
(* (src/telemetry/pipeline.rs).  A run delivery also leaves the context    *)
(* (src/api/workflow_run.rs) whose target branch decides whether a job is  *)
(* required, and with that whether its failure is reported.                *)
(*                                                                         *)
(* One delivery is one step: the interleavings of handlers, their failures *)
(* and the durable claims are WebhookHandler's, the cache of required      *)
(* checks is RequiredChecks's.  Payload fields that may be absent, of the  *)
(* wrong type or unparsable are None.  A moment is an integer, negative    *)
(* before 1970.  There is one repository, which the attributes that name   *)
(* it leave out, and with it the delivery's identifier.                    *)
(***************************************************************************)
EXTENDS Integers, Sequences, FiniteSets

CONSTANTS
    Attempts,      \* the attempts at runs, pairs of a run and a number
    JobDeliveries, \* payloads of completed jobs
    RunDeliveries, \* payloads of runs
    Texts,         \* the texts that payloads give for names and branches
    Clean,         \* what is left of a text without controls and excess, or None
    Commits,       \* the texts that payloads give for revisions
    CommitSha,     \* the revision that such a text stands for, or None
    Protection,    \* what GitHub answers of a branch's protection, None before it did
    MaxChecks,     \* MAX_REQUIRED_CHECK_COUNT
    StepLimit,     \* GHE_WORKFLOW_JOB_MAX_STEPS
    MaxPipelineJobSpans,
    MaxPullRequests,
    Second,        \* parts of a second
    MaxNanos,      \* last moment that 64 bits of nanoseconds since 1970 can hold
    Unaddressable, \* attempts whose digest is not a valid trace identifier
    ReceivedAt,    \* when a delivery arrives
    MaxDeliveries, \* bound: deliveries
    Recurring,     \* bound: the payloads that may come after another job's
    None

Conclusions == {"success", "failure", "cancelled", "skipped", "timed_out", "neutral", "other"}

\* What serde reads of the payloads; what is of no use in a field is None.
Timestamps == {None} \cup (Int \X Nat)
Optional(S) == {None} \cup S
StepPayloads == [number : Int, name : Optional(Texts), conclusion : Optional(STRING),
                 start : Timestamps, end : Timestamps]
JobPayloads == [run : Int, attempt : Int, job : Int, workflow : Optional(Texts), name : Optional(Texts),
                conclusion : Optional(STRING), revision : Optional(Commits), start : Timestamps,
                end : Timestamps, pulls : Seq(Int), steps : Seq(StepPayloads)]
RunPayloads == [run : Int, attempt : Int, workflow : Optional(Texts), event : Optional(STRING),
                head : Optional(Texts), heads : SUBSET Texts, bases : SUBSET Texts,
                revision : Optional(Commits), pulls : Seq(Int)]

\* into_required_checks is given the names as they are listed.
Answers == [checks : Seq(Texts), contexts : Seq(Texts)]

ASSUME PayloadsAssumption ==
    /\ JobDeliveries \subseteq JobPayloads /\ RunDeliveries \subseteq RunPayloads
    /\ \A payload \in JobDeliveries \cup RunDeliveries :
           payload.run > 0 /\ payload.attempt > 0 => <<payload.run, payload.attempt>> \in Attempts
    /\ DOMAIN Protection = Texts /\ \A branch \in Texts : Protection[branch] \in Optional(Answers)

\* The events that spans carry: a type, the words for a failed task, and a moment.
ErrorTypes == {"GitHubActionsTaskFailure", "GitHubActionsTaskTimeout"}
Exceptions == [type : ErrorTypes, message : BOOLEAN \X Conclusions \X (Texts \cup Seq(Int)), at : Int]

ASSUME TracesAssumption ==
    /\ MaxChecks \in Nat /\ StepLimit \in Nat /\ MaxPipelineJobSpans \in Nat \ {0} /\ MaxPullRequests \in Nat
    /\ Second \in Nat \ {0} /\ MaxNanos \in Nat /\ ReceivedAt \in Nat /\ MaxDeliveries \in Nat
    /\ Unaddressable \subseteq Attempts
    /\ Attempts \subseteq (Nat \ {0}) \X (Nat \ {0})
    /\ Recurring \subseteq JobDeliveries
    /\ DOMAIN CommitSha = Commits
    \* None is no value of another kind
    /\ None \notin Attempts /\ None \notin Conclusions /\ None \notin BOOLEAN
    /\ None \notin Exceptions /\ \A names \in SUBSET Texts : None # names
    \* cleaning a clean text changes nothing
    /\ DOMAIN Clean = Texts
    /\ \A t \in Texts : Clean[t] # None => Clean[t] \in Texts /\ Clean[Clean[t]] = Clean[t]

VARIABLES
    contexts,   \* workflow_run_contexts: the context of an attempt, or None
    links,      \* workflow_job_links
    emitted,    \* the job traces, in the order of their emission
    pipelines,  \* the pipeline traces
    delivered   \* bound: deliveries so far

vars == <<contexts, links, emitted, pipelines, delivered>>

-------------------------------------------------------------------------------
(* Values *)

OrElse(value, default) == IF value = None THEN default ELSE value

DisplayName(text) == IF text = None THEN None ELSE Clean[text]
WorkflowBranch(text) == IF text = None THEN None ELSE Clean[text]
Revision(text) == IF text = None THEN None ELSE CommitSha[text]

\* Identifiers of runs, attempts and jobs are positive.
Identifies(id) == id > 0
Attempt(payload) == <<payload.run, payload.attempt>>

\* Absent and unknown texts are "other".
WorkflowEvent(text) == IF text \in {"pull_request", "merge_group", "push"} THEN text ELSE "other"
Normalize(text) == IF text \in Conclusions THEN text ELSE "other"

Failing(conclusion) == conclusion \in {"failure", "timed_out"}

Status(conclusion) ==
    CASE conclusion = "success" -> "Ok"
      [] Failing(conclusion) -> "Error"
      [] OTHER -> "Unset"

ErrorType(conclusion) ==
    CASE conclusion = "failure" -> "GitHubActionsTaskFailure"
      [] conclusion = "timed_out" -> "GitHubActionsTaskTimeout"
      [] OTHER -> None

Result(conclusion) ==
    CASE conclusion = "cancelled" -> "cancellation"
      [] conclusion = "skipped" -> "skip"
      [] conclusion = "timed_out" -> "timeout"
      [] OTHER -> conclusion

Severity(conclusion) ==
    CASE conclusion = "skipped" -> 0 [] conclusion = "success" -> 1 [] conclusion = "neutral" -> 2
      [] conclusion = "other" -> 3 [] conclusion = "cancelled" -> 4
      [] conclusion = "timed_out" -> 5 [] conclusion = "failure" -> 6

Bounded(seq, limit) == SubSeq(seq, 1, IF Len(seq) < limit THEN Len(seq) ELSE limit)
Elements(seq) == {seq[i] : i \in 1 .. Len(seq)}

\* The elements of a finite set in their order, and what is known of a sequence in its own.
InOrder(S, Precedes(_, _)) ==
    [k \in 1 .. Cardinality(S) |-> CHOOSE x \in S : Cardinality({y \in S : Precedes(y, x)}) = k - 1]
Known(seq) ==
    LET places == InOrder({i \in 1 .. Len(seq) : seq[i] # None}, <)
    IN [k \in DOMAIN places |-> seq[places[k]]]

\* The first of the numbers that are positive.
PullRequests(numbers) == Bounded(SelectSeq(numbers, LAMBDA n : n > 0), MaxPullRequests)

-------------------------------------------------------------------------------
(* Timing *)

\* A timestamp is a second since 1970 and the part of it that has passed; the
\* operating system counts parts, forwards or backwards.
SystemTime(at) ==
    CASE at = None -> None
      [] at # None /\ at[1] >= 0 -> at[1] * Second + at[2]
      [] at # None /\ at[1] < 0 -> IF at[2] = 0 THEN -((-at[1]) * Second)
                                  ELSE -((-at[1] - 1) * Second + (Second - at[2]))

Interval(start, end, source) == [start |-> start, end |-> end, source |-> source]
Fallback(instant) == Interval(instant, instant, "fallback")

Reported(start, end) == IF start <= end THEN Interval(start, end, "reported") ELSE None

ReportedWithinParent(start, end, parent) ==
    IF start <= end /\ start >= parent.start /\ end <= parent.end
    THEN Interval(start, end, "reported") ELSE None

JobTiming(start, end) ==
    CASE end = None -> Fallback(ReceivedAt)
      [] end # None /\ start = None -> Fallback(end)
      [] OTHER -> OrElse(Reported(start, end), Fallback(end))

StepTiming(start, end, parent) ==
    IF start = None \/ end = None THEN Fallback(parent.end)
    ELSE OrElse(ReportedWithinParent(start, end, parent), Fallback(parent.end))

-------------------------------------------------------------------------------
(* Projections of the payloads *)

\* The one branch that all the usable ones are.
UniqueBranch(texts) ==
    LET branches == {WorkflowBranch(text) : text \in texts} \ {None}
    IN IF Cardinality(branches) = 1 THEN CHOOSE b \in branches : TRUE ELSE None

RunContext(run) ==
    IF ~Identifies(run.run) \/ ~Identifies(run.attempt) THEN None
    ELSE [attempt |-> Attempt(run), event |-> WorkflowEvent(run.event),
          source |-> OrElse(WorkflowBranch(run.head), UniqueBranch(run.heads)),
          target |-> UniqueBranch(run.bases)]

\* project_run_summary.
RunSummary(run) ==
    [workflow |-> DisplayName(run.workflow), revision |-> Revision(run.revision),
     pulls |-> PullRequests(run.pulls)]

\* into_required_checks: the older list of names only where the newer one is empty,
\* and the limit on what is left of the names, repetitions included.
Given(answer) == IF answer.checks = <<>> THEN answer.contexts ELSE answer.checks
FromProtection(answer) ==
    LET names == [i \in 1 .. Len(Given(answer)) |-> Clean[Given(answer)[i]]]
    IN Elements(Bounded(Known(names), MaxChecks))

\* A row of the cache is read back name by name.
Cached(names) == {Clean[name] : name \in names} \ {None}

\* The checks of the target branch, where the context, the branch and an answer are known.
RequiredChecks(context) ==
    IF context = None \/ (context # None /\ context.target = None) THEN None
    ELSE LET answer == Protection[context.target]
         IN IF answer = None THEN None ELSE Cached(FromProtection(answer))

\* inspect_completed_job and the limit on its steps.
Admitted(payload) ==
    /\ Identifies(payload.run) /\ Identifies(payload.attempt) /\ Identifies(payload.job)
    /\ Len(payload.steps) <= StepLimit

StepOf(step, timing) ==
    [number |-> step.number, name |-> DisplayName(step.name), conclusion |-> Normalize(step.conclusion),
     timing |-> StepTiming(SystemTime(step.start), SystemTime(step.end), timing)]

\* None when a step has no positive number.  An unnamed job is never known to be required or not.
Project(payload, context) ==
    LET timing == JobTiming(SystemTime(payload.start), SystemTime(payload.end))
        name == DisplayName(payload.name)
        checks == RequiredChecks(context)
    IN IF \E i \in 1 .. Len(payload.steps) : payload.steps[i].number <= 0 THEN None
       ELSE [attempt |-> Attempt(payload), job |-> payload.job, name |-> name,
             workflow |-> DisplayName(payload.workflow), revision |-> Revision(payload.revision),
             conclusion |-> Normalize(payload.conclusion), timing |-> timing,
             pulls |-> PullRequests(payload.pulls), context |-> context,
             required |-> IF checks = None \/ name = None THEN None ELSE name \in checks,
             steps |-> [i \in 1 .. Len(payload.steps) |-> StepOf(payload.steps[i], timing)]]

-------------------------------------------------------------------------------
(* Job traces *)

\* Only a confident false suppresses the failure of the job itself.
Suppressed(job) == job.required = FALSE
RootStatus(job) == IF Suppressed(job) THEN "Unset" ELSE Status(job.conclusion)
EmitsRootError(job) == ~Suppressed(job) /\ Failing(job.conclusion)

WorkflowName(trace) == OrElse(trace.workflow, "workflow")
JobName(job) == OrElse(job.name, "job")
StepName(step) == OrElse(step.name, "step")

\* What the spans are called: the whole path to them.
JobSpanName(job) == <<WorkflowName(job), JobName(job)>>
StepSpanName(job, step) == <<WorkflowName(job), JobName(job), StepName(step)>>

\* The pages of runs, jobs and steps at GitHub; none of them names the attempt.
RunUrl(attempt) == [run |-> attempt[1]]
TaskUrl(attempt, job) == [run |-> attempt[1], job |-> job]
StepUrl(attempt, job, number) == [run |-> attempt[1], job |-> job, step |-> number]

\* Fields of one more record.
And(first, second) ==
    [name \in DOMAIN first \cup DOMAIN second |->
        IF name \in DOMAIN first THEN first[name] ELSE second[name]]

\* What every span of a workflow says of the run it is part of.
PipelineContext(workflow, attempt, revision) ==
    [pipeline |-> workflow, run |-> attempt[1], run_url |-> RunUrl(attempt), revision |-> revision]

\* The trigger and the branches of the run that are known.
RunAttributes(context) ==
    IF context = None THEN None
    ELSE [event |-> context.event, source |-> context.source, target |-> context.target]

\* How a task ended, and from where its times are.
TaskResult(task) ==
    [conclusion |-> task.conclusion, result |-> Result(task.conclusion),
     error_type |-> ErrorType(task.conclusion), timing_source |-> task.timing.source]

JobAttributes(job) ==
    And(And(PipelineContext(WorkflowName(job), job.attempt, job.revision), TaskResult(job)),
        [attempt |-> job.attempt[2], task |-> JobName(job), task_run |-> <<job.job>>,
         required |-> job.required, pulls |-> job.pulls, context |-> RunAttributes(job.context),
         task_url |-> TaskUrl(job.attempt, job.job), operation |-> "github.actions.job", description |-> <<JobName(job)>>])

\* A step is as required as its job.
StepAttributes(job, step) ==
    And(And(PipelineContext(WorkflowName(job), job.attempt, job.revision), TaskResult(step)),
        [task |-> StepName(step), task_run |-> <<job.job, step.number>>, required |-> job.required,
         context |-> RunAttributes(job.context), task_url |-> StepUrl(job.attempt, job.job, step.number),
         operation |-> "github.actions.step", description |-> <<StepName(step)>>])

\* SyntheticWorkflowError, of a kind with its own words for the failure.
SyntheticError(kind, span, workflow, group, task) ==
    [kind |-> kind, span |-> span, type |-> ErrorType(task.conclusion),
     message |-> <<kind = "pipeline-task", task.conclusion, task.name>>,
     fingerprint |-> <<kind, workflow, group, task.group, task.conclusion>>,
     workflow |-> workflow, task |-> task.name, task_run |-> task.run,
     description |-> task.description, conclusion |-> task.conclusion, at |-> task.at]

\* Equivalent unnamed jobs, and steps of one number, are grouped across runs.
JobGroup(job) == OrElse(job.name, "unnamed-job")
StepGroup(step) == OrElse(step.name, <<"unnamed-step", step.number>>)

StepError(job, step, span) ==
    SyntheticError("step", span, WorkflowName(job), JobGroup(job),
        [name |-> OrElse(step.name, <<job.job, step.number>>), group |-> StepGroup(step),
         run |-> <<job.job, step.number>>, description |-> <<StepName(step)>>,
         conclusion |-> step.conclusion, at |-> step.timing.end])

\* The failure of a job, told by its own trace or by its run's.
TaskFailure(job, description) ==
    [name |-> OrElse(job.name, <<job.job>>), group |-> JobGroup(job), run |-> <<job.job>>,
     description |-> description, conclusion |-> job.conclusion, at |-> job.timing.end]

JobError(job, span) ==
    SyntheticError("job", span, WorkflowName(job), JobGroup(job), TaskFailure(job, JobSpanName(job)))

TaskError(job, span, workflow) ==
    SyntheticError("pipeline-task", span, workflow, JobGroup(job),
                   TaskFailure(job, <<workflow, JobName(job)>>))

\* The exception event of the error's span.
Exception(error) == [type |-> error.type, message |-> error.message, at |-> error.at]

\* WorkflowErrorReporter::report: the event that Sentry is sent.
SpanOperation(kind) ==
    CASE kind = "job" -> "github.actions.job"
      [] kind = "step" -> "github.actions.step"
      [] kind = "pipeline-task" -> "github.actions.pipeline.task"
Report(error) ==
    [span |-> error.span, operation |-> SpanOperation(error.kind), description |-> error.description,
     fingerprint |-> error.fingerprint, exception |-> <<error.type, error.message>>, at |-> error.at,
     tags |-> [pipeline |-> error.workflow, task |-> error.task, task_run |-> error.task_run,
               conclusion |-> error.conclusion]]
\* The reports of the tasks at some places, in their order.
Reports(places, errors) ==
    LET order == InOrder(places, <)
    IN [k \in DOMAIN order |-> Report(errors[order[k]])]

\* A span, with the exception of the error that it carries if it fails.
Span(id, parent, name, timing, status, attributes, fails, error) ==
    [id |-> id, parent |-> parent, name |-> name, start |-> timing.start, end |-> timing.end,
     status |-> status, attributes |-> attributes, exception |-> IF fails THEN Exception(error) ELSE None]

\* Mutant: the root repeats a failure that one of its steps has explained.
RootErrorRepeats(job, explained) == EmitsRootError(job)

\* The root reports its failure only if no step's failure explains it.
RootError(job, explained) == ~explained /\ EmitsRootError(job)

\* WorkflowTraceEmitter::emit: the steps' spans and errors in their order, then the root's.
Emit(id, job) ==
    LET failing == {i \in 1 .. Len(job.steps) : Failing(job.steps[i].conclusion)}
        errors == [i \in 1 .. Len(job.steps) |-> StepError(job, job.steps[i], <<id, i>>)]
        own == RootError(job, failing # {})
        error == JobError(job, <<id, 0>>)
    IN [job |-> job,
        root |-> Span(<<id, 0>>, None, JobSpanName(job), job.timing, RootStatus(job),
                      JobAttributes(job), own, error),
        steps |-> [i \in 1 .. Len(job.steps) |->
            LET step == job.steps[i]
            IN Span(<<id, i>>, <<id, 0>>, StepSpanName(job, step), step.timing,
                    Status(step.conclusion), StepAttributes(job, step), i \in failing, errors[i])],
        errors |-> Reports(failing, errors) \o IF own THEN <<Report(error)>> ELSE <<>>]

-------------------------------------------------------------------------------
(* The link of a job to its trace *)

Storable(moment) == moment \in 0 .. MaxNanos

LinkRow(trace) ==
    [attempt |-> trace.job.attempt, job |-> trace.job.job, name |-> trace.job.name,
     conclusion |-> trace.job.conclusion, timing |-> trace.job.timing, identity |-> trace.root.id]

SameJob(row, job) == row.attempt = job.attempt /\ row.job = job.job

\* Mutant: the upsert keeps the identity of the first trace for the job.
RecordKeepsIdentity(trace) ==
    LET old == {row \in links : SameJob(row, trace.job)}
    IN IF old = {} THEN links \cup {LinkRow(trace)}
       ELSE (links \ old) \cup {[LinkRow(trace) EXCEPT !.identity = row.identity] : row \in old}

\* record_inner: refused for a moment that cannot be stored, else an upsert by attempt and job.
Record(trace) ==
    IF Storable(trace.job.timing.start) /\ Storable(trace.job.timing.end)
    THEN {row \in links : ~SameJob(row, trace.job)} \cup {LinkRow(trace)} ELSE links

\* A row is read back only if it is one that record_inner could have written.
Summary(row) ==
    IF /\ row.job > 0 /\ row.conclusion \in Conclusions /\ row.timing.start <= row.timing.end
       /\ row.timing.source \in {"reported", "fallback"}
    THEN [job |-> row.job, name |-> DisplayName(row.name), conclusion |-> row.conclusion,
          timing |-> row.timing, identity |-> row.identity]
    ELSE None

\* list_inner: in the order of start and identifier, one row more than a trace may have.
Before(a, b) == a.timing.start < b.timing.start \/ (a.timing.start = b.timing.start /\ a.job < b.job)
Listed(attempt) ==
    LET rows == {row \in links : row.attempt = attempt}
        order == InOrder(rows, Before)
        n == Cardinality(rows)
    IN Known([k \in 1 .. IF n > MaxPipelineJobSpans THEN MaxPipelineJobSpans + 1 ELSE n |-> Summary(order[k])])

-------------------------------------------------------------------------------
(* Pipeline traces *)

AggregateTiming(jobs) ==
    LET J == {jobs[k].timing : k \in 1 .. Len(jobs)}
    IN Interval(CHOOSE m \in {t.start : t \in J} : \A t \in J : m <= t.start,
                CHOOSE m \in {t.end : t \in J} : \A t \in J : m >= t.end,
                IF \A t \in J : t.source = "reported" THEN "reported" ELSE "fallback")

AggregateConclusion(jobs) ==
    LET J == {jobs[k].conclusion : k \in 1 .. Len(jobs)}
    IN CHOOSE c \in J : \A o \in J : Severity(c) >= Severity(o)

\* The same for every trace of the attempt, if the digest is an identifier.
PipelineTraceId(attempt) ==
    IF attempt \in Unaddressable THEN <<"random", Len(pipelines)>> ELSE <<"derived", attempt>>

\* PipelineRunTrace::new: nothing of a run without jobs, or with one too many.
PipelineRun(context, summary, jobs) ==
    IF Len(jobs) \notin 1 .. MaxPipelineJobSpans THEN None
    ELSE [attempt |-> context.attempt, workflow |-> summary.workflow, revision |-> summary.revision,
          pulls |-> summary.pulls, context |-> context, jobs |-> jobs,
          conclusion |-> AggregateConclusion(jobs), timing |-> AggregateTiming(jobs)]

PipelineAttributes(run) ==
    And(PipelineContext(WorkflowName(run), run.attempt, run.revision),
        [attempt |-> run.attempt[2], conclusion |-> run.conclusion,
         error_type |-> ErrorType(run.conclusion), pulls |-> run.pulls,
         context |-> RunAttributes(run.context), operation |-> "github.actions.pipeline",
         description |-> <<WorkflowName(run)>>, timing_source |-> run.timing.source])

\* Whether the job is required is not among them.
TaskAttributes(run, job) ==
    And(And(PipelineContext(WorkflowName(run), run.attempt, run.revision), TaskResult(job)),
        [task |-> JobName(job), task_run |-> <<job.job>>, context |-> RunAttributes(run.context),
         task_url |-> TaskUrl(run.attempt, job.job), operation |-> "github.actions.pipeline.task",
         description |-> <<WorkflowName(run), JobName(job)>>])

\* emit_pipeline: a span for each job, linked to the root of the job's own trace.
EmitPipeline(run) ==
    LET id == PipelineTraceId(run.attempt)
        jobs == run.jobs
        failing == {k \in 1 .. Len(jobs) : Failing(jobs[k].conclusion)}
        errors == [k \in 1 .. Len(jobs) |-> TaskError(jobs[k], <<id, k>>, WorkflowName(run))]
    IN [attempt |-> run.attempt,
        root |-> Span(<<id, 0>>, None, <<WorkflowName(run)>>, run.timing, Status(run.conclusion),
                      PipelineAttributes(run), FALSE, None),
        links |-> [k \in 1 .. Len(jobs) |-> jobs[k].identity],
        tasks |-> [k \in 1 .. Len(jobs) |->
            Span(<<id, k>>, <<id, 0>>, <<WorkflowName(run), JobName(jobs[k])>>, jobs[k].timing,
                 Status(jobs[k].conclusion), TaskAttributes(run, jobs[k]), k \in failing, errors[k])],
        errors |-> Reports(failing, errors)]

-------------------------------------------------------------------------------
(* The deliveries *)

Init ==
    /\ contexts = [a \in Attempts |-> None]
    /\ links = {}
    /\ emitted = <<>>
    /\ pipelines = <<>>
    /\ delivered = 0

Deliver == delivered < MaxDeliveries /\ delivered' = delivered + 1

\* A completed job.  Whether its link is recorded is the store's answer.
JobCompleted(payload) ==
    /\ Deliver
    /\ emitted = <<>> \/ payload \in Recurring
    /\ LET job == Project(payload, contexts[Attempt(payload)])
           trace == Emit(Len(emitted) + 1, job)
       IN IF ~Admitted(payload) THEN UNCHANGED <<links, emitted>>
          ELSE IF job = None THEN UNCHANGED <<links, emitted>>
          ELSE /\ emitted' = Append(emitted, trace)
               /\ links' \in {Record(trace), links}
    /\ UNCHANGED <<contexts, pipelines>>

\* A run: its context is upserted, and a completed one is emitted if any of its
\* jobs are linked and none is one too many.
RunDelivered(run, completed) ==
    /\ Deliver
    /\ LET context == RunContext(run)
           pipeline == PipelineRun(context, RunSummary(run), Listed(Attempt(run)))
       IN IF context = None THEN UNCHANGED <<contexts, pipelines>>
          ELSE /\ contexts' = [contexts EXCEPT ![Attempt(run)] = context]
               /\ pipelines' = IF completed /\ pipeline # None
                               THEN Append(pipelines, EmitPipeline(pipeline)) ELSE pipelines
    /\ UNCHANGED <<links, emitted>>

\* The bound is reached.
Over == delivered = MaxDeliveries /\ UNCHANGED vars

Next ==
    \/ \E payload \in JobDeliveries : JobCompleted(payload)
    \/ \E run \in RunDeliveries, completed \in BOOLEAN : RunDelivered(run, completed)
    \/ Over

Spec == Init /\ [][Next]_vars

-------------------------------------------------------------------------------
(* Properties *)

Spans(trace) == {trace.root} \cup Elements(trace.steps)

\* What Sentry is sent of an error is what the error's span shows: the task (by its
\* identifier where the span only says that it is a job or a step), its run,
\* workflow and operation, how it ended, and the exception at the span's end.  Its
\* description is the span's but for the error of a job, which is described by the
\* span's name, the workflow and the job (workflow_error.rs:209), where the span's
\* description is the job's name alone (workflow.rs:911-915): traces.md:118-119 says
\* that the two have the same description.
ToldAlike(report, span) ==
    LET shown == span.attributes
    IN /\ report.span = span.id /\ report.at = span.end /\ span.status = "Error"
       /\ span.exception = [type |-> report.exception[1], message |-> report.exception[2], at |-> report.at]
       /\ report.exception[1] = shown.error_type /\ report.operation = shown.operation
       /\ \A tag \in {"pipeline", "task_run", "conclusion"} : report.tags[tag] = shown[tag]
       /\ \/ shown.task \in {"job", "step"} /\ report.tags.task = shown.task_run
          \/ report.tags.task = shown.task
       /\ report.description = IF report.operation = "github.actions.job" THEN span.name ELSE shown.description

\* What the answer for the target branch lists, as far as it is usable.
Answered(job) ==
    /\ job.name # None /\ job.context # None
    /\ job.context.target # None
    /\ Protection[job.context.target] # None
Listing(job) ==
    LET given == Given(Protection[job.context.target])
    IN [i \in 1 .. Len(given) |-> Clean[given[i]]]

\* The job is confidently not a check of the branch: it is not listed, or only after
\* as many different names as are kept.
Unprotected(job) ==
    /\ Answered(job)
    /\ LET listed == Listing(job)
       IN \A i \in DOMAIN listed : listed[i] = job.name =>
              Cardinality({listed[j] : j \in 1 .. i - 1} \ {None}) >= MaxChecks

\* The job is a check of the branch, but names that repeat fill the places before it:
\* the code stops at so many places (client.rs:310-322) and takes the job for one
\* that is not required.  workflow.rs:542-544 says that this cannot happen, "a
\* response repeating one name cannot crowd out the others".
CrowdedOut(job) ==
    /\ Answered(job) /\ ~Unprotected(job)
    /\ LET listed == Listing(job)
       IN \A i \in DOMAIN listed : listed[i] = job.name =>
              Cardinality({j \in 1 .. i - 1 : listed[j] # None}) >= MaxChecks

\* No failure is silent and none is told twice.  A job trace that reports no error is
\* one of a job that did not fail, and no step of it, or one whose failure no step
\* explains and that is confidently not required: such a job reports nothing.  (Of a
\* required job that repetitions crowd out nothing is asked: its failure is silent,
\* which the comment quoted above denies.)  Each error is reported once, just as its
\* own span shows it; and the root reports one only when no step does.  The reports
\* of a run are about its own tasks too, and are never grouped with those of a job
\* trace.
JobIsToldOnce(trace) ==
    LET job == trace.job
        failing == {i \in 1 .. Len(job.steps) : Failing(job.steps[i].conclusion)}
    IN /\ trace.errors = <<>> =>
              failing = {} /\ (Failing(job.conclusion) => Unprotected(job) \/ CrowdedOut(job))
       /\ failing = {} /\ (Failing(job.conclusion) => Unprotected(job)) => trace.errors = <<>>
       /\ Len(trace.errors) = Cardinality({report.span : report \in Elements(trace.errors)})
       /\ \A span \in Spans(trace) :
              /\ span.exception # None =>
                     \E report \in Elements(trace.errors) : ToldAlike(report, span)
              /\ span.status = "Error" => trace.errors # <<>>
       /\ Len(trace.errors) = Cardinality({span \in Spans(trace) : span.exception # None})
       /\ trace.root.exception # None => Len(trace.errors) = 1
TasksAreToldOnce(run) ==
    /\ \A span \in Elements(run.tasks) :
           span.status = "Error" <=> \E report \in Elements(run.errors) : ToldAlike(report, span)
    /\ Len(run.errors) = Cardinality({span \in Elements(run.tasks) : span.status = "Error"})
Fingerprints(reports) == {report.fingerprint : report \in Elements(reports)}
FailuresAreToldOnce ==
    /\ \A trace \in Elements(emitted) : JobIsToldOnce(trace)
    /\ \A run \in Elements(pipelines) : TasksAreToldOnce(run)
    /\ \A run \in Elements(pipelines), trace \in Elements(emitted) :
           Fingerprints(run.errors) \cap Fingerprints(trace.errors) = {}

\* Every span lies inside its parent, however its timestamps were reported, and a
\* pipeline trace says of each job what the trace it links to says: its attempt,
\* interval, page and result, though not what a later run delivery may say otherwise
\* (the workflow, the revision, the context); no job twice.  The root fails exactly
\* when it has an error to show.
Nests(child, parent) == parent.start <= child.start /\ child.start <= child.end /\ child.end <= parent.end
OfTheRun == {"pipeline", "revision", "context", "operation", "description"}
MirroredBy(task, run, link, trace) ==
    /\ trace.root.id = link /\ trace.job.attempt = run.attempt
    /\ trace.root.start = task.start /\ trace.root.end = task.end
    /\ \A name \in DOMAIN task.attributes \ OfTheRun : trace.root.attributes[name] = task.attributes[name]
PipelineMirrorsJobs ==
    /\ \A trace \in Elements(emitted) : \A span \in Spans(trace) : Nests(span, trace.root)
    /\ \A run \in Elements(pipelines) :
           /\ \A k \in 1 .. Len(run.tasks) :
                  /\ Nests(run.tasks[k], run.root)
                  /\ \E trace \in Elements(emitted) : MirroredBy(run.tasks[k], run, run.links[k], trace)
           /\ \A k, l \in 1 .. Len(run.tasks) :
                  run.tasks[k].attributes.task_run = run.tasks[l].attributes.task_run => k = l
           /\ run.root.status = "Error" <=> run.errors # <<>>
===============================================================================
