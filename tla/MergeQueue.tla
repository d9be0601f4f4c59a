------------------------------ MODULE MergeQueue ------------------------------
(***************************************************************************)
(* Merge-queue attempts: the pull-request processor of                     *)
(* src/src/api/pull_request.rs over the rows of                            *)
(* src/src/storage/merge_queue_store.rs, and the metrics it updates after  *)
(* each commit.  Deliveries arrive in any order, their timestamps are      *)
(* GitHub's, and each is processed at most once (WebhookHandler).  A task  *)
(* can fail or be dropped on either side of its commit, and the process    *)
(* can die; rows survive, metrics do not.                                  *)
(*                                                                         *)
(* One repository.  A timestamp counts units of which a millisecond holds  *)
(* Resolution: the text in a row is truncated to the millisecond, the      *)
(* instant in memory is not.                                               *)
(***************************************************************************)
EXTENDS Integers, FiniteSets

CONSTANTS
  Events,          \* pull_request deliveries, each claimed once
  KindOf,          \* KindOf[e]: the action, "closed" meaning closed unmerged
  PullRequestOf,   \* PullRequestOf[e]: pull_request.number
  UpdatedAt,       \* UpdatedAt[e]: pull_request.updated_at, None if absent or invalid
  Resolution,      \* timestamp units in a millisecond
  MaxDuration,     \* MAX_MERGE_QUEUE_ATTEMPT_DURATION
  Retention,       \* age at which a completed attempt may be pruned
  PruneBatch,      \* ATTEMPT_PRUNE_BATCH_SIZE
  MaxTime,         \* bound on the clock
  MaxCrashes,      \* bound on the number of process crashes
  None             \* no value

Kinds == {"enqueued", "dequeued", "merged", "closed"}

ASSUME QueueAssumption ==
  /\ KindOf \in [Events -> Kinds]
  /\ UpdatedAt \in [Events -> Nat \union {None}]
  /\ Resolution \in Nat \ {0} /\ PruneBatch \in Nat \ {0}
  /\ MaxDuration \in Nat /\ Retention \in Nat
  /\ MaxTime \in Nat /\ MaxCrashes \in Nat
  /\ None \notin Nat

VARIABLES
  rows,       \* merge_queue_attempts; by names the event that created the row
  pc,         \* pc[e]: what the task that processes e does next
  at,         \* at[e]: its event_timestamp
  closed,     \* closed[e]: the row its completion closed, None before
  metrics,    \* the in-memory counters
  now,        \* the wall clock
  crashes,    \* the number of crashes so far
  \* history
  settled,    \* the attempts that were completed, pruned or not
  observed,   \* the completions that entered the metrics, with their duration
  counted,    \* the attempts whose completion was counted, in or out of range
  outOfTurn   \* the events committed before an earlier event of their pull request

history == <<settled, observed, counted, outOfTurn>>
vars == <<rows, pc, at, closed, metrics, now, crashes, history>>

Counters == {"succeeded", "unknown", "invalid_duration", "missing_active_attempt"}
OutcomeOf(e) == IF KindOf[e] = "merged" THEN "succeeded" ELSE "unknown"

Truncated(t) == t - (t % Resolution)

Row(pr) == {row \in rows : row.pr = pr}
Pending(row) == row.completedAt = None

Init ==
  /\ rows = {}
  /\ pc = [e \in Events |-> "undelivered"]
  /\ at = [e \in Events |-> 0]
  /\ closed = [e \in Events |-> None]
  /\ metrics = [c \in Counters |-> 0]
  /\ now = 0
  /\ crashes = 0
  /\ settled = {}
  /\ observed = {}
  /\ counted = {}
  /\ outOfTurn = {}

Goto(e, next) == pc' = [pc EXCEPT ![e] = next]
Count(c) == metrics' = [metrics EXCEPT ![c] = @ + 1]

\* e commits; some earlier event of its pull request has not.
Skipped(e) ==
  \E c \in Events :
    /\ PullRequestOf[c] = PullRequestOf[e] /\ UpdatedAt[c] # None
    /\ UpdatedAt[c] < at[e]
    /\ pc[c] \notin {"done", "observe", "report_missing"}

NoteOrder(e) == outOfTurn' = IF Skipped(e) THEN outOfTurn \union {e} ELSE outOfTurn

-----------------------------------------------------------------------------
(* Processing a delivery.                                                  *)

\* QueueProcessor::process up to its store call: actions other than the three
\* transitions do nothing; a missing timestamp falls back to the receipt time.
Receive(e) ==
  /\ pc[e] = "undelivered"
  /\ at' = [at EXCEPT ![e] = IF UpdatedAt[e] = None THEN now ELSE UpdatedAt[e]]
  /\ Goto(e, CASE KindOf[e] = "enqueued" -> "enqueue"
               [] KindOf[e] \in {"dequeued", "merged"} -> "complete"
               [] OTHER -> "done")
  /\ UNCHANGED <<rows, closed, metrics, now, crashes, history>>

NewRow(e) ==
  [by |-> e, pr |-> PullRequestOf[e], enqueuedAt |-> Truncated(at[e]),
   completedAt |-> None, outcome |-> "pending"]

\* Mutant: no unique index on active attempts.
EnqueueAlways(e) ==
  /\ pc[e] = "enqueue"
  /\ rows' = rows \union {NewRow(e)}
  /\ Goto(e, "done")
  /\ NoteOrder(e)
  /\ UNCHANGED <<at, closed, metrics, now, crashes, settled, observed, counted>>

\* INSERT ... ON CONFLICT (the partial unique index on active attempts) DO NOTHING.
Enqueue(e) ==
  /\ pc[e] = "enqueue"
  /\ rows' = IF \E row \in Row(PullRequestOf[e]) : Pending(row)
               THEN rows ELSE rows \union {NewRow(e)}
  /\ Goto(e, "done")
  /\ NoteOrder(e)
  /\ UNCHANGED <<at, closed, metrics, now, crashes, settled, observed, counted>>

Completed(row, e) ==
  [row EXCEPT !.completedAt = Truncated(at[e]), !.outcome = OutcomeOf(e)]

\* Mutant: the update forgets completed_at IS NULL.
CompleteAny(e) ==
  /\ pc[e] = "complete"
  /\ IF Row(PullRequestOf[e]) # {}
       THEN \E row \in Row(PullRequestOf[e]) :
              /\ rows' = (rows \ {row}) \union {Completed(row, e)}
              /\ closed' = [closed EXCEPT ![e] = row]
              /\ settled' = settled \union {row.by}
              /\ Goto(e, "observe")
       ELSE /\ Goto(e, "report_missing")
            /\ UNCHANGED <<rows, closed, settled>>
  /\ NoteOrder(e)
  /\ UNCHANGED <<at, metrics, now, crashes, observed, counted>>

\* One transaction: UPDATE the active row RETURNING enqueued_at, or else tell an
\* already completed attempt from none at all.
Complete(e) ==
  /\ pc[e] = "complete"
  /\ \/ \E row \in Row(PullRequestOf[e]) :
          /\ Pending(row)
          /\ rows' = (rows \ {row}) \union {Completed(row, e)}
          /\ closed' = [closed EXCEPT ![e] = row]
          /\ settled' = settled \union {row.by}
          /\ Goto(e, "observe")
     \/ /\ \A row \in Row(PullRequestOf[e]) : ~Pending(row)
        /\ Goto(e, IF Row(PullRequestOf[e]) # {} THEN "done" ELSE "report_missing")
        /\ UNCHANGED <<rows, closed, settled>>
  /\ NoteOrder(e)
  /\ UNCHANGED <<at, metrics, now, crashes, observed, counted>>

\* Mutant: the early return on an invalid duration is missing.
ObserveInvalidToo(e) ==
  /\ pc[e] = "observe"
  /\ LET duration == at[e] - closed[e].enqueuedAt
     IN  observed' = observed \union
           {[attempt |-> closed[e].by, by |-> e, duration |-> duration]}
  /\ Count(OutcomeOf(e))
  /\ counted' = counted \union {closed[e].by}
  /\ Goto(e, "done")
  /\ UNCHANGED <<rows, at, closed, now, crashes, settled, outOfTurn>>

\* record_merge_queue_completion: a duration out of range counts only a
\* transition failure.
Observe(e) ==
  /\ pc[e] = "observe"
  /\ LET duration == at[e] - closed[e].enqueuedAt
     IN  IF duration \in 0 .. MaxDuration
           THEN /\ Count(OutcomeOf(e))
                /\ observed' = observed \union
                     {[attempt |-> closed[e].by, by |-> e, duration |-> duration]}
           ELSE Count("invalid_duration") /\ UNCHANGED observed
  /\ counted' = counted \union {closed[e].by}
  /\ Goto(e, "done")
  /\ UNCHANGED <<rows, at, closed, now, crashes, settled, outOfTurn>>

ReportMissing(e) ==
  /\ pc[e] = "report_missing"
  /\ Count("missing_active_attempt")
  /\ Goto(e, "done")
  /\ UNCHANGED <<rows, at, closed, now, crashes, history>>

Busy(e) == pc[e] \in {"enqueue", "complete", "observe", "report_missing"}

\* The store fails before it commits, or the task is dropped at its await, before
\* the commit or after it.
Abandon(e) ==
  /\ Busy(e)
  /\ Goto(e, "abandoned")
  /\ UNCHANGED <<rows, at, closed, metrics, now, crashes, history>>

-----------------------------------------------------------------------------
(* The surroundings.                                                       *)

Crash ==
  /\ crashes < MaxCrashes
  /\ crashes' = crashes + 1
  /\ pc' = [e \in Events |-> IF Busy(e) THEN "abandoned" ELSE pc[e]]
  /\ metrics' = [c \in Counters |-> 0]
  /\ UNCHANGED <<rows, at, closed, now, history>>

Expired(row, cutoff) == ~Pending(row) /\ row.completedAt < Truncated(cutoff)

\* Mutant: rows are pruned by the age of their enqueue.
PruneByEnqueue ==
  \E cutoff \in 0 .. now - Retention :
    LET eligible == {row \in rows : row.enqueuedAt < Truncated(cutoff)}
    IN  /\ eligible # {}
        /\ rows' = rows \ eligible
        /\ UNCHANGED <<pc, at, closed, metrics, now, crashes, history>>

\* One batch of prune_completed_batch, oldest completions first; the cutoff of
\* the pass was fixed at or before now.
Prune ==
  \E cutoff \in 0 .. now - Retention :
    LET eligible == {row \in rows : Expired(row, cutoff)}
    IN  \E batch \in SUBSET eligible :
          /\ batch # {}
          /\ \/ batch = eligible /\ Cardinality(eligible) <= PruneBatch
             \/ Cardinality(batch) = PruneBatch
          /\ \A row \in batch, other \in eligible \ batch :
               row.completedAt <= other.completedAt
          /\ rows' = rows \ batch
          /\ UNCHANGED <<pc, at, closed, metrics, now, crashes, history>>

Tick ==
  /\ now < MaxTime
  /\ now' = now + 1
  /\ UNCHANGED <<rows, pc, at, closed, metrics, crashes, history>>

\* Everything was delivered and the clock is at its bound: idling is no deadlock.
Idle ==
  /\ \A e \in Events : pc[e] \in {"done", "abandoned"}
  /\ now = MaxTime
  /\ UNCHANGED vars

Process(e) ==
  Receive(e) \/ Enqueue(e) \/ Complete(e) \/ Observe(e) \/ ReportMissing(e) \/ Abandon(e)

Next ==
  \/ \E e \in Events : Process(e)
  \/ Crash \/ Prune \/ Tick \/ Idle

Spec == Init /\ [][Next]_vars

-----------------------------------------------------------------------------
(* Properties.                                                             *)

RowType == [by : Events, pr : {PullRequestOf[e] : e \in Events}, enqueuedAt : Nat,
            completedAt : Nat \union {None}, outcome : {"pending", "succeeded", "unknown"}]

TypeOK ==
  /\ rows \subseteq RowType
  /\ pc \in [Events -> {"undelivered", "enqueue", "complete", "observe", "report_missing",
                        "done", "abandoned"}]
  /\ at \in [Events -> Nat]
  /\ closed \in [Events -> RowType \union {None}]
  /\ metrics \in [Counters -> Nat]
  /\ now \in Nat /\ crashes \in Nat
  /\ settled \subseteq Events /\ counted \subseteq Events /\ outOfTurn \subseteq Events
  /\ \A row \in rows : row.outcome = "pending" <=> Pending(row)  \* the table's CHECK

\* The rows and metrics keep the promise of AttemptPromise: one open attempt per
\* pull request, settled once, counted at most once and only once settled, whatever
\* deliveries race, fail or are cut off between the commit and the metric.
Promise == INSTANCE AttemptPromise WITH
  Attempts <- {e \in Events : KindOf[e] = "enqueued"},
  active   <- {row.by : row \in {open \in rows : Pending(open)}}

KeepsAttemptPromise == Promise!Spec

\* What entered the metrics is one observation per attempt, of a completion of the
\* same pull request, with a duration in range that exceeds the true one by less than
\* the millisecond a stored timestamp loses.
ObservationsAreGenuine ==
  \A o \in observed :
    /\ PullRequestOf[o.by] = PullRequestOf[o.attempt]
    /\ KindOf[o.attempt] = "enqueued" /\ KindOf[o.by] \in {"dequeued", "merged"}
    /\ o.duration \in 0 .. MaxDuration
    /\ o.duration - (at[o.by] - at[o.attempt]) \in 0 .. Resolution - 1
    /\ \A other \in observed : other.attempt = o.attempt => other = o

\* A row disappears only once completed, and only when it was completed more than
\* Retention ago: a pending attempt is kept whatever its age, also across a restart.
OnlyExpiredRowsVanish ==
  [][\A row \in rows : (\A kept \in rows' : kept.by # row.by) =>
       ~Pending(row) /\ row.completedAt < now - Retention]_vars

\* The observation is of the attempt as GitHub's timestamps tell it: no completion
\* lies between the enqueue and the completion it joins.
Authoritative(o) ==
  \A c \in Events :
    /\ PullRequestOf[c] = PullRequestOf[o.by] /\ KindOf[c] \in {"dequeued", "merged"}
    /\ UpdatedAt[c] # None
    => ~(at[o.attempt] < UpdatedAt[c] /\ UpdatedAt[c] < at[o.by])

\* While the events of a pull request commit in the order of their timestamps and none
\* is lost, every observation of an attempt that GitHub timestamped is authoritative, over
\* any number of attempts (the receipt time of one without is in no order to GitHub's).
OrderedIsAuthoritative ==
  \A o \in observed :
    /\ UpdatedAt[o.attempt] # None
    /\ \A e \in outOfTurn : PullRequestOf[e] # PullRequestOf[o.by]
    => Authoritative(o)

\* design-decisions.md: "the pull-request metric is the authoritative answer to 'how
\* long was this specific PR's queue attempt, and how did it end'".
MetricIsAuthoritative == \A o \in observed : Authoritative(o)
=============================================================================
