------------------------------ MODULE Retention ------------------------------
(***************************************************************************)
(* The retention task (src/retention.rs): it sleeps until its ticker       *)
(* fires, fixes the age limits of a pass once, and empties the stores of   *)
(* expired rows one after the other, each in bounded batches, looking at   *)
(* the cancellation channel between batches and between stores.            *)
(*                                                                         *)
(* Handlers go on writing rows meanwhile.  A stamp is a moment of the      *)
(* logical clock now; a row is expired when it is stamped before a cutoff. *)
(* One batch is a step that begins, when the statement is sent, and ends,  *)
(* when its result is seen: cancellation may come in between.              *)
(***************************************************************************)
EXTENDS Integers, Sequences, FiniteSets

CONSTANTS
    Stores,      \* the workloads of a pass, in the order they are pruned
    Age,         \* which of the two retention settings a store obeys
    BatchSize,   \* FULL_PRUNE_BATCH_SIZE and the LIMIT of every store
    MaxAge,      \* longest retention whose cutoff is a representable date
    Horizon,     \* longest interval the monotonic clock can be advanced by
    Start,       \* the clock when the process starts; rows may be older
    MaxRows,     \* bound: rows ever held
    MaxTime,     \* bound: the clock
    None

Ages == {"delivery", "merge_queue"}

ASSUME RetentionAssumption ==
    /\ Stores \in Seq(STRING) /\ Len(Stores) > 0
    /\ Age \in [{Stores[i] : i \in 1 .. Len(Stores)} -> Ages]
    /\ BatchSize \in Nat \ {0} /\ MaxAge \in Nat /\ Horizon \in Nat
    /\ MaxRows \in Nat /\ MaxTime \in Nat /\ Start \in 0 .. MaxTime
    /\ None \notin Nat

VARIABLES
    now,         \* the clock
    cancelled,   \* the cancellation channel's value
    rows,        \* the rows of all the stores
    writes,      \* bound: rows the handlers may still write
    limits,      \* RetentionConfig: the interval and the two retentions
    due,         \* when the ticker fires next
    task,        \* where run_retention stands
    done,        \* stores of the current (or last) pass already pruned
    started,     \* pass_started_at of that pass
    outcome,     \* its combined outcome so far
    owed,        \* history: rows that pass must still delete
    answers,     \* history: what prune_store answered in that pass
    spent        \* history: rows deleted since the cancellation

retentionVars == <<now, cancelled, rows, writes, limits, due, task, done, started,
                   outcome, owed, answers, spent>>
passVars == <<done, started, outcome, owed, answers>>

StoreNames == {Stores[i] : i \in 1 .. Len(Stores)}
Rows == [store : StoreNames, stamp : 0 .. MaxTime, id : 1 .. MaxRows]
StoreOutcomes == {"Completed", "Cancelled", "Failed"}
PassOutcomes == {"Success", "Cancelled", "Failure"}
Tasks == {"Unborn", "Waiting", "Pruning", "Batch", "Finished", "Returned", "Aborted", "Panicked"}

\* checked_sub: the retention of the store has a cutoff in this pass.
HasCutoff(s) == limits[Age[s]] <= MaxAge
Cutoff(s, at) == at - limits[Age[s]]
ExpiredAt(s, at) == {r \in rows : r.store = s /\ r.stamp < Cutoff(s, at)}

Current == Stores[done + 1]

\* Mutant: a cancellation replaces a failure.
CombineLast(pass, store) ==
    CASE store = "Failed" -> "Failure" [] store = "Cancelled" -> "Cancelled" [] OTHER -> pass

\* RetentionPassOutcome::combine: a failure stays, a cancellation replaces
\* only a success.
Combine(pass, store) ==
    IF pass = "Failure" \/ store = "Failed" THEN "Failure"
    ELSE IF pass = "Cancelled" \/ store = "Cancelled" THEN "Cancelled"
    ELSE "Success"

InitRetention(kept, bound) ==
    /\ rows = kept /\ writes = bound
    /\ now = Start /\ cancelled = FALSE
    /\ limits = None /\ due = 0 /\ task = "Unborn"
    /\ done = 0 /\ started = None
    /\ outcome = "Success" /\ owed = {} /\ answers = {} /\ spent = 0

\* run_retention is spawned: interval_at(Instant::now() + interval), a sum
\* that panics when it leaves the range of the clock.
Spawn ==
    /\ task = "Unborn"
    /\ IF limits.interval > Horizon
          THEN task' = "Panicked" /\ UNCHANGED due
          ELSE task' = "Waiting" /\ due' = now + limits.interval
    /\ UNCHANGED <<now, cancelled, rows, writes, limits, passVars, spent>>

------------------------------------------------------------------------------
\* What goes on around the task.

Tick ==
    /\ now < MaxTime
    /\ now' = now + 1
    /\ UNCHANGED <<cancelled, rows, writes, limits, due, task, passVars, spent>>

\* A handler's row is written.  Its stamp is read before the write waits for
\* the database, and a queue completion carries the time of its event.
Insert(s, stamp) ==
    /\ writes > 0
    /\ writes' = writes - 1
    /\ rows' = rows \cup {[store |-> s, stamp |-> stamp, id |-> writes]}
    /\ UNCHANGED <<now, cancelled, limits, due, task, passVars, spent>>

\* A row is written again and stamped anew, as the caches' upserts do.
Refresh(r) ==
    /\ r.stamp < now
    /\ rows' = (rows \ {r}) \cup {[r EXCEPT !.stamp = now]}
    /\ owed' = owed \ {r}
    /\ UNCHANGED <<now, cancelled, writes, limits, due, task, done, started, outcome,
                   answers, spent>>

Signal ==
    /\ ~cancelled
    /\ cancelled' = TRUE
    /\ UNCHANGED <<now, rows, writes, limits, due, task, passVars, spent>>

------------------------------------------------------------------------------
\* The task.

\* Mutant: missed ticks are made up for.
NextTickBurst(tick) == tick + limits.interval

\* MissedTickBehavior::Skip: the next tick is the first multiple of the
\* interval, counted from the tick just taken, that lies in the future.
NextTick(tick) == now + limits.interval - ((now - tick) % limits.interval)

\* The interval of the schedule the clock is in.
Slot(at) == (at - Start) \div limits.interval

\* select!, biased: the ticker is looked at only when not cancelled.
StartPass ==
    /\ task = "Waiting" /\ ~cancelled /\ now >= due
    /\ due' = NextTick(due)
    /\ task' = "Pruning"
    /\ done' = 0 /\ started' = now /\ outcome' = "Success"
    /\ owed' = {r \in rows : r.stamp < Cutoff(r.store, now)}
    /\ answers' = {}
    /\ UNCHANGED <<now, cancelled, rows, writes, limits, spent>>

Stop ==
    /\ task = "Waiting" /\ cancelled
    /\ task' = "Returned"
    /\ UNCHANGED <<now, cancelled, rows, writes, limits, due, passVars, spent>>

\* prune_store answers o, and the pass goes on with the next store, ends, or
\* is cut short because the cancellation is seen before the last store.
Answer(o) ==
    LET combined == Combine(outcome, o)
        cut == (cancelled \/ o = "Cancelled") /\ done + 1 < Len(Stores)
    IN  /\ done' = done + 1
        /\ outcome' = IF cut THEN Combine(combined, "Cancelled") ELSE combined
        /\ answers' = answers \cup {o}
        /\ task' = IF cut \/ done + 1 = Len(Stores) THEN "Finished" ELSE "Pruning"

SkipStore ==
    /\ task = "Pruning" /\ ~HasCutoff(Current)
    /\ Answer("Failed")
    /\ UNCHANGED <<now, cancelled, rows, writes, limits, due, started, owed, spent>>

CancelStore ==
    /\ task = "Pruning" /\ HasCutoff(Current) /\ cancelled
    /\ Answer("Cancelled")
    /\ UNCHANGED <<now, cancelled, rows, writes, limits, due, started, owed, spent>>

\* Mutant: the channel is looked at between stores only.
BeginBatchUnasked ==
    /\ task = "Pruning" /\ HasCutoff(Current)
    /\ task' = "Batch"
    /\ UNCHANGED <<now, cancelled, rows, writes, limits, due, passVars, spent>>

BeginBatch ==
    /\ task = "Pruning" /\ HasCutoff(Current) /\ ~cancelled
    /\ task' = "Batch"
    /\ UNCHANGED <<now, cancelled, rows, writes, limits, due, passVars, spent>>

\* DELETE .. WHERE stamp < cutoff ORDER BY stamp LIMIT BatchSize: the oldest
\* expired rows go, as many as a batch holds.
Batch(s, gone) ==
    LET expired == ExpiredAt(s, started)
    IN  /\ gone \subseteq expired
        /\ \/ Cardinality(gone) = BatchSize
           \/ Cardinality(gone) < BatchSize /\ gone = expired
        /\ \A g \in gone, k \in expired \ gone : g.stamp <= k.stamp

Delete(gone) ==
    /\ rows' = rows \ gone
    /\ owed' = owed \ gone
    /\ spent' = IF cancelled THEN spent + Cardinality(gone) ELSE spent

\* Mutant: a full batch is taken for the last one.
EndBatchFull(gone) ==
    /\ task = "Batch" /\ Batch(Current, gone)
    /\ Delete(gone) /\ Answer("Completed")
    /\ UNCHANGED <<now, cancelled, writes, limits, due, started>>

\* A batch that was not full was the last one of its store.
EndBatch(gone) ==
    /\ task = "Batch" /\ Batch(Current, gone)
    /\ Delete(gone)
    /\ IF Cardinality(gone) < BatchSize
          THEN Answer("Completed")
          ELSE /\ task' = "Pruning"
               /\ UNCHANGED <<done, outcome, answers>>
    /\ UNCHANGED <<now, cancelled, writes, limits, due, started>>

BatchFails ==
    /\ task = "Batch"
    /\ Answer("Failed")
    /\ UNCHANGED <<now, cancelled, rows, writes, limits, due, started, owed, spent>>

\* run_traced_retention_pass puts the outcome on the span and returns.
EndPass ==
    /\ task = "Finished"
    /\ task' = "Waiting"
    /\ done' = 0 /\ outcome' = "Success" /\ owed' = {} /\ answers' = {}
    /\ UNCHANGED <<now, cancelled, rows, writes, limits, due, started, spent>>

\* The task is aborted: it goes no further than the await it is in, and a
\* statement already sent may still be carried out.
Abort ==
    /\ task \in {"Waiting", "Pruning", "Batch", "Finished"}
    /\ task' = "Aborted"
    /\ \/ UNCHANGED <<rows, owed, spent>>
       \/ task = "Batch" /\ \E gone \in SUBSET rows : Batch(Current, gone) /\ Delete(gone)
    /\ UNCHANGED <<now, cancelled, writes, limits, due, done, started, outcome, answers>>

RetentionStep ==
    \/ StartPass \/ EndPass \/ Stop
    \/ SkipStore \/ CancelStore
    \/ BeginBatch \/ BatchFails
    \/ \E gone \in SUBSET rows : EndBatch(gone)

------------------------------------------------------------------------------
RetentionTypeOK ==
    /\ now \in 0 .. MaxTime /\ cancelled \in BOOLEAN
    /\ rows \subseteq Rows /\ owed \subseteq rows /\ writes \in 0 .. MaxRows
    /\ limits = None \/ limits \in [Ages \cup {"interval"} -> Nat \ {0}]
    /\ due \in Nat /\ task \in Tasks
    /\ done \in 0 .. Len(Stores) /\ started \in (0 .. MaxTime) \cup {None}
    /\ outcome \in PassOutcomes /\ answers \subseteq StoreOutcomes
    /\ spent \in Nat
    /\ task \in {"Pruning", "Batch"} => done < Len(Stores) /\ started # None

\* A pass that reports success has deleted every row that had expired when it
\* began, in every store, whatever was written meanwhile and however many
\* batches it took; while it runs, that is so of the stores it is done with
\* (retention.rs:242, 374-390).
SuccessMeansEmptied ==
    outcome = "Success" =>
        \A i \in 1 .. done : \A r \in owed : r.store # Stores[i]

\* The outcome put on the span of a pass tells what happened: failure exactly
\* when some store failed, success exactly when every store was pruned to the
\* end, cancelled otherwise (retention.rs:204-258).
OutcomeIsTrue ==
    task = "Finished" =>
        outcome = CASE "Failed" \in answers -> "Failure"
                    [] answers = {"Completed"} /\ done = Len(Stores) -> "Success"
                    [] OTHER -> "Cancelled"

\* "A shutdown received during an active SQLite batch allows that batch to
\* finish, then prevents another batch from starting" (retention.rs:83-85):
\* after the signal at most one batch of rows is deleted, whatever is left.
OneBatchAfterCancel == spent <= BatchSize

\* "missed ticks are skipped" (retention.rs:83): however long a pass takes,
\* two passes never begin in the same interval, and none begins in the first.
OnePassPerInterval ==
    [][task = "Waiting" /\ task' = "Pruning" =>
           Slot(now) > (IF started = None THEN 0 ELSE Slot(started))]_retentionVars
==============================================================================
