--------------------------- MODULE MergeQueue_proofs ---------------------------
(***************************************************************************)
(* Proofs about MergeQueue for any set of deliveries and any timestamps,   *)
(* durations, retention and pruning batch.                                 *)
(***************************************************************************)
EXTENDS MergeQueue, TLAPS

LEMMA TruncatedBounds ==
  ASSUME NEW t \in Nat
  PROVE  Truncated(t) \in Nat /\ t - Truncated(t) \in 0 .. Resolution - 1
<1>1. Resolution \in Nat \ {0}
  BY QueueAssumption
<1>2. t % Resolution \in 0 .. Resolution - 1
  BY <1>1
<1>3. t % Resolution <= t
  BY <1>1
<1> QED BY <1>1, <1>2, <1>3 DEF Truncated

\* A task that observes a completion knows the row it closed.
ClosedIsKnown == \A e \in Events : pc[e] = "observe" => closed[e] \in RowType

TypeInv == TypeOK /\ ClosedIsKnown

LEMMA NewRowType ==
  ASSUME TypeOK, NEW e \in Events
  PROVE  /\ NewRow(e) \in RowType /\ Pending(NewRow(e))
         /\ NewRow(e).outcome = "pending" /\ NewRow(e).by = e
         /\ NewRow(e).pr = PullRequestOf[e] /\ NewRow(e).enqueuedAt = Truncated(at[e])
<1>1. Truncated(at[e]) \in Nat
  BY TruncatedBounds DEF TypeOK
<1> QED BY <1>1 DEF NewRow, RowType, Pending

LEMMA CompletedType ==
  ASSUME TypeOK, NEW e \in Events, NEW row \in RowType
  PROVE  /\ Completed(row, e) \in RowType /\ ~Pending(Completed(row, e))
         /\ Completed(row, e).outcome # "pending" /\ Completed(row, e).by = row.by
         /\ Completed(row, e).pr = row.pr
         /\ Completed(row, e).enqueuedAt = row.enqueuedAt
<1>1. Truncated(at[e]) \in Nat /\ Truncated(at[e]) # None
  BY TruncatedBounds, QueueAssumption DEF TypeOK
<1>2. OutcomeOf(e) \in {"succeeded", "unknown"}
  BY DEF OutcomeOf
<1> QED BY <1>1, <1>2 DEF Completed, RowType, Pending

LEMMA TypeInductive == TypeInv /\ [Next]_vars => TypeInv'
<1> SUFFICES ASSUME TypeInv, [Next]_vars PROVE TypeInv'
  OBVIOUS
<1> USE DEF TypeInv, ClosedIsKnown, TypeOK, Goto, history, RowType, Pending
<1>n. ASSUME NEW e \in Events, NoteOrder(e) PROVE outOfTurn' \subseteq Events
  BY <1>n DEF NoteOrder
<1>c. ASSUME NEW c \in Counters, Count(c) PROVE metrics' \in [Counters -> Nat]
  BY <1>c DEF Count
<1>1. ASSUME NEW e \in Events, Process(e) PROVE TypeInv'
  <2>1. CASE Receive(e)
    <3>1. at' \in [Events -> Nat]
      BY <2>1, QueueAssumption DEF Receive
    <3> QED BY <2>1, <3>1 DEF Receive
  <2>2. CASE Enqueue(e)
    <3>1. rows' \subseteq rows \union {NewRow(e)}
      BY <2>2 DEF Enqueue
    <3> QED BY <2>2, <3>1, <1>n, NewRowType DEF Enqueue
  <2>3. CASE Complete(e)
    <3>1. CASE \E row \in Row(PullRequestOf[e]) :
                 /\ rows' = (rows \ {row}) \union {Completed(row, e)}
                 /\ closed' = [closed EXCEPT ![e] = row]
                 /\ settled' = settled \union {row.by}
                 /\ Goto(e, "observe")
      <4>1. PICK row \in rows : /\ rows' = (rows \ {row}) \union {Completed(row, e)}
                                /\ closed' = [closed EXCEPT ![e] = row]
                                /\ settled' = settled \union {row.by}
                                /\ Goto(e, "observe")
        BY <3>1 DEF Row
      <4>2. row \in RowType
        BY <4>1
      <4>3. /\ Completed(row, e) \in RowType /\ ~Pending(Completed(row, e))
            /\ Completed(row, e).outcome # "pending"
        BY <4>2, CompletedType
      <4>4. /\ rows' \subseteq RowType
            /\ \A r \in rows' : r.outcome = "pending" <=> Pending(r)
        BY <4>1, <4>3
      <4>5. /\ closed' \in [Events -> RowType \union {None}]
            /\ settled' \subseteq Events
        BY <4>1, <4>2
      <4>6. \A f \in Events : pc'[f] = "observe" => closed'[f] \in RowType
        BY <4>1, <4>2
      <4>7. UNCHANGED <<at, metrics, now, crashes, counted>> /\ outOfTurn' \subseteq Events
        BY <2>3, <1>n DEF Complete
      <4>8. pc' \in [Events -> {"undelivered", "enqueue", "complete", "observe",
                               "report_missing", "done", "abandoned"}]
        BY <4>1
      <4> QED BY <4>4, <4>5, <4>6, <4>7, <4>8
    <3>2. CASE UNCHANGED <<rows, closed, settled>>
                 /\ (Goto(e, "done") \/ Goto(e, "report_missing"))
      BY <2>3, <3>2, <1>n DEF Complete
    <3> QED BY <2>3, <3>1, <3>2 DEF Complete
  <2>4. CASE Observe(e)
    <3>1. OutcomeOf(e) \in Counters /\ "invalid_duration" \in Counters
      BY DEF OutcomeOf, Counters
    <3>2. metrics' \in [Counters -> Nat]
      BY <2>4, <3>1, <1>c DEF Observe
    <3>3. closed[e].by \in Events
      BY <2>4 DEF Observe
    <3> QED BY <2>4, <3>2, <3>3 DEF Observe
  <2>5. CASE ReportMissing(e)
    BY <2>5, <1>c DEF ReportMissing, Counters
  <2>6. CASE Abandon(e)
    BY <2>6 DEF Abandon
  <2> QED BY <1>1, <2>1, <2>2, <2>3, <2>4, <2>5, <2>6 DEF Process
<1>2. CASE Crash
  BY <1>2 DEF Crash
<1>3. CASE Prune
  BY <1>3 DEF Prune
<1>4. CASE Tick \/ Idle \/ UNCHANGED vars
  BY <1>4 DEF Tick, Idle, vars
<1> QED BY <1>1, <1>2, <1>3, <1>4 DEF Next

\* Every variable keeps its type and every row the table's CHECK: it is pending
\* exactly while it has no completion time.
THEOREM TypeCorrect == Spec => [](TypeOK /\ ClosedIsKnown)
<1>1. Init => TypeInv
  BY DEF Init, TypeInv, TypeOK, ClosedIsKnown
<1> QED BY <1>1, TypeInductive, PTL DEF Spec, TypeInv

-----------------------------------------------------------------------------
(* The inductive invariant: who created a row, who closed it, who counted it.  *)

Completions == {"dequeued", "merged"}

\* A task is where the kind of its event sends it.
KindInv ==
  \A e \in Events :
    /\ pc[e] = "enqueue" => KindOf[e] = "enqueued"
    /\ pc[e] \in {"complete", "observe"} => KindOf[e] \in Completions

\* An attempt is named by an enqueue that has committed.
Attempt(a) == a \in Events /\ KindOf[a] = "enqueued" /\ pc[a] = "done"

\* One row per attempt, one pending row per pull request, pending until settled.
RowInv ==
  /\ \A row \in rows : /\ Attempt(row.by)
                       /\ row.pr = PullRequestOf[row.by]
                       /\ row.enqueuedAt = Truncated(at[row.by])
                       /\ Pending(row) <=> row.by \notin settled
  /\ \A p, q \in rows : p.by = q.by => p = q
  /\ \A p, q \in rows : Pending(p) /\ Pending(q) /\ p.pr = q.pr => p = q
  /\ \A a \in settled : Attempt(a)

\* A settled attempt waits for its metric in one task at most.
SettleInv ==
  /\ counted \subseteq settled
  /\ \A e \in Events :
       pc[e] = "observe" =>
         /\ closed[e].by \in settled \ counted
         /\ PullRequestOf[closed[e].by] = PullRequestOf[e]
         /\ closed[e].enqueuedAt = Truncated(at[closed[e].by])
  /\ \A e, f \in Events :
       pc[e] = "observe" /\ pc[f] = "observe" /\ closed[e].by = closed[f].by => e = f

ObservationInv ==
  /\ ObservationsAreGenuine
  /\ \A o \in observed : o.attempt \in counted /\ o.by \in Events /\ pc[o.by] = "done"

QueueInv == TypeInv /\ KindInv /\ RowInv /\ SettleInv /\ ObservationInv

LEMMA KindInductive == TypeInv /\ KindInv /\ [Next]_vars => KindInv'
<1> SUFFICES ASSUME TypeInv, KindInv, [Next]_vars PROVE KindInv'
  OBVIOUS
<1> USE DEF TypeInv, TypeOK, KindInv, Completions, Goto
<1>1. ASSUME NEW e \in Events, Process(e) PROVE KindInv'
  <2>1. CASE Receive(e)
    <3>1. /\ pc'[e] = "enqueue" => KindOf[e] = "enqueued"
          /\ pc'[e] = "complete" => KindOf[e] \in Completions
          /\ pc'[e] # "observe"
      BY <2>1, QueueAssumption DEF Receive
    <3> QED BY <2>1, <3>1 DEF Receive
  <2>2. CASE Enqueue(e) \/ Complete(e) \/ Observe(e) \/ ReportMissing(e) \/ Abandon(e)
    BY <2>2 DEF Enqueue, Complete, Observe, ReportMissing, Abandon
  <2> QED BY <1>1, <2>1, <2>2 DEF Process
<1>2. CASE Crash \/ Prune \/ Tick \/ Idle \/ UNCHANGED vars
  BY <1>2 DEF Crash, Prune, Tick, Idle, vars
<1> QED BY <1>1, <1>2 DEF Next

\* Timestamps and committed tasks stay: what names an attempt keeps naming it.
LEMMA AttemptsStay ==
  TypeInv /\ [Next]_vars =>
    \A a \in Events : /\ pc[a] = "done" => pc'[a] = "done"
                      /\ pc[a] # "undelivered" => at'[a] = at[a]
<1> SUFFICES ASSUME TypeInv, [Next]_vars
             PROVE  \A a \in Events : /\ pc[a] = "done" => pc'[a] = "done"
                                      /\ pc[a] # "undelivered" => at'[a] = at[a]
  OBVIOUS
<1> USE DEF TypeInv, TypeOK, Goto
<1>1. ASSUME NEW e \in Events, Process(e)
      PROVE  \A a \in Events : /\ pc[a] = "done" => pc'[a] = "done"
                               /\ pc[a] # "undelivered" => at'[a] = at[a]
  BY <1>1 DEF Process, Receive, Enqueue, Complete, Observe, ReportMissing, Abandon, Busy
<1>2. CASE Crash \/ Prune \/ Tick \/ Idle \/ UNCHANGED vars
  BY <1>2 DEF Crash, Prune, Tick, Idle, vars, Busy
<1> QED BY <1>1, <1>2 DEF Next

\* What a completion that joins a row changes.
Joins(e, row) ==
  /\ pc[e] = "complete" /\ row \in rows /\ row.pr = PullRequestOf[e] /\ Pending(row)
  /\ rows' = (rows \ {row}) \union {Completed(row, e)}
  /\ closed' = [closed EXCEPT ![e] = row]
  /\ settled' = settled \union {row.by}
  /\ pc' = [pc EXCEPT ![e] = "observe"]
  /\ UNCHANGED <<at, metrics, now, crashes, observed, counted>>

\* What one that finds none changes.
Misses(e) ==
  /\ pc[e] = "complete"
  /\ pc' = [pc EXCEPT ![e] = "done"] \/ pc' = [pc EXCEPT ![e] = "report_missing"]
  /\ UNCHANGED <<rows, at, closed, metrics, now, crashes, settled, observed, counted>>

LEMMA CompleteCases ==
  ASSUME NEW e \in Events, Complete(e)
  PROVE  (\E row \in rows : Joins(e, row)) \/ Misses(e)
BY DEF Complete, Joins, Misses, Row, Goto

LEMMA RowInductive ==
  TypeInv /\ KindInv /\ RowInv /\ [Next]_vars => RowInv'
<1> SUFFICES ASSUME TypeInv, KindInv, RowInv, [Next]_vars PROVE RowInv'
  OBVIOUS
<1>a. ASSUME NEW a, Attempt(a) PROVE Attempt(a)' /\ at'[a] = at[a]
  <2>1. a \in Events /\ KindOf[a] = "enqueued" /\ pc[a] = "done"
    BY <1>a DEF Attempt
  <2>2. pc'[a] = "done" /\ at'[a] = at[a]
    BY <2>1, AttemptsStay
  <2> QED BY <2>1, <2>2 DEF Attempt
<1>k. CASE UNCHANGED <<rows, settled>>
  BY <1>k, <1>a DEF RowInv, Pending
<1>1. ASSUME NEW e \in Events, Process(e) PROVE RowInv'
  <2>1. CASE Receive(e) \/ Observe(e) \/ ReportMissing(e) \/ Abandon(e)
    BY <2>1, <1>k DEF Receive, Observe, ReportMissing, Abandon, history
  <2>2. CASE Enqueue(e)
    <3>1. CASE \E row \in Row(PullRequestOf[e]) : Pending(row)
      BY <2>2, <3>1, <1>k DEF Enqueue
    <3>2. CASE ~\E row \in Row(PullRequestOf[e]) : Pending(row)
      <4> DEFINE new == NewRow(e)
      <4>1. /\ rows' = rows \union {new}
            /\ settled' = settled /\ at' = at
            /\ pc' = [pc EXCEPT ![e] = "done"] /\ pc[e] = "enqueue"
        BY <2>2, <3>2 DEF Enqueue, Goto
      <4>2. /\ new.by = e /\ new.pr = PullRequestOf[e]
            /\ new.enqueuedAt = Truncated(at[e]) /\ Pending(new)
        BY NewRowType DEF TypeInv
      <4>3. Attempt(e)' /\ ~Attempt(e)
        BY <4>1 DEF Attempt, TypeInv, TypeOK, KindInv
      <4>4. \A row \in rows : row.by # e /\ ~(Pending(row) /\ row.pr = PullRequestOf[e])
        BY <3>2, <4>3 DEF RowInv, Row
      <4>5. e \notin settled
        BY <4>3 DEF RowInv
      <4> HIDE DEF new
      <4>6. (\A row \in rows : /\ Attempt(row.by)
                               /\ row.pr = PullRequestOf[row.by]
                               /\ row.enqueuedAt = Truncated(at[row.by])
                               /\ Pending(row) <=> row.by \notin settled)'
        BY <4>1, <4>2, <4>3, <4>5, <1>a DEF RowInv, Pending, Truncated
      <4>7. \A p, q \in rows' : p.by = q.by => p = q
        BY <4>1, <4>2, <4>4 DEF RowInv
      <4>8. \A p, q \in rows' : Pending(p) /\ Pending(q) /\ p.pr = q.pr => p = q
        BY <4>1, <4>2, <4>4 DEF RowInv
      <4>9. (\A a \in settled : Attempt(a))'
        BY <4>1, <1>a DEF RowInv
      <4> QED BY <4>6, <4>7, <4>8, <4>9 DEF RowInv, Pending
    <3> QED BY <3>1, <3>2
  <2>3. CASE Complete(e)
    <3>1. CASE Misses(e)
      BY <3>1, <1>k DEF Misses
    <3>2. ASSUME NEW row \in rows, Joins(e, row) PROVE RowInv'
      <4> DEFINE new == Completed(row, e)
      <4>1. /\ rows' = (rows \ {row}) \union {new}
            /\ settled' = settled \union {row.by} /\ at' = at
            /\ Pending(row)
        BY <3>2 DEF Joins
      <4>2. /\ ~Pending(new) /\ new.by = row.by
            /\ new.pr = row.pr /\ new.enqueuedAt = row.enqueuedAt
        BY CompletedType DEF TypeInv, TypeOK
      <4>3. \A other \in rows \ {row} : other.by # row.by
        BY DEF RowInv
      <4> HIDE DEF new
      <4>4. (\A r \in rows : /\ Attempt(r.by)
                             /\ r.pr = PullRequestOf[r.by]
                             /\ r.enqueuedAt = Truncated(at[r.by])
                             /\ Pending(r) <=> r.by \notin settled)'
        BY <4>1, <4>2, <4>3, <1>a DEF RowInv, Pending, Truncated
      <4>5. \A p, q \in rows' : p.by = q.by => p = q
        BY <4>1, <4>2, <4>3 DEF RowInv
      <4>6. \A p, q \in rows' : Pending(p) /\ Pending(q) /\ p.pr = q.pr => p = q
        BY <4>1, <4>2 DEF RowInv
      <4>7. (\A a \in settled : Attempt(a))'
        BY <4>1, <1>a DEF RowInv
      <4> QED BY <4>4, <4>5, <4>6, <4>7 DEF RowInv, Pending
    <3> QED BY <2>3, <3>1, <3>2, CompleteCases
  <2> QED BY <1>1, <2>1, <2>2, <2>3 DEF Process
<1>2. CASE Prune
  <2>1. rows' \subseteq rows /\ settled' = settled
    BY <1>2 DEF Prune, history
  <2> QED BY <2>1, <1>a DEF RowInv, Pending
<1>3. CASE Crash \/ Tick \/ Idle \/ UNCHANGED vars
  BY <1>3, <1>k DEF Crash, Tick, Idle, vars, history
<1> QED BY <1>1, <1>2, <1>3 DEF Next

LEMMA SettleInductive ==
  TypeInv /\ KindInv /\ RowInv /\ SettleInv /\ [Next]_vars => SettleInv'
<1> SUFFICES ASSUME TypeInv, KindInv, RowInv, SettleInv, [Next]_vars PROVE SettleInv'
  OBVIOUS
\* What holds of a task that observes, put so that a step can move the other tasks.
<1> DEFINE Awaits(e) ==
      /\ closed[e].by \in settled \ counted
      /\ PullRequestOf[closed[e].by] = PullRequestOf[e]
      /\ closed[e].enqueuedAt = Truncated(at[closed[e].by])
<1>a. ASSUME NEW a \in settled PROVE at'[a] = at[a]
  <2>1. a \in Events /\ pc[a] = "done"
    BY DEF RowInv, Attempt
  <2> QED BY <2>1, AttemptsStay
\* The other tasks keep waiting while nothing they wait for is counted.
<1>s. ASSUME NEW e \in Events, pc'[e] = "observe", pc[e] = "observe", closed'[e] = closed[e],
             settled \subseteq settled', closed[e].by \notin counted'
      PROVE  Awaits(e)'
  BY <1>s, <1>a DEF SettleInv, Truncated
<1>k. CASE /\ \A e \in Events : pc'[e] = "observe" => pc[e] = "observe"
           /\ UNCHANGED <<closed, settled, counted>>
  <2>1. \A e \in Events : pc'[e] = "observe" => Awaits(e)'
    BY <1>k, <1>s DEF SettleInv
  <2> QED BY <2>1, <1>k DEF SettleInv
<1>1. ASSUME NEW e \in Events, Process(e) PROVE SettleInv'
  <2>1. CASE Receive(e) \/ Enqueue(e) \/ ReportMissing(e) \/ Abandon(e)
    BY <2>1, <1>k DEF Receive, Enqueue, ReportMissing, Abandon, history, Goto, TypeInv, TypeOK
  <2>2. CASE Complete(e)
    <3>1. CASE Misses(e)
      BY <3>1, <1>k DEF Misses, TypeInv, TypeOK
    <3>2. ASSUME NEW row \in rows, Joins(e, row) PROVE SettleInv'
      <4>1. /\ pc[e] = "complete" /\ Pending(row) /\ row.pr = PullRequestOf[e]
            /\ pc' = [pc EXCEPT ![e] = "observe"] /\ closed' = [closed EXCEPT ![e] = row]
            /\ settled' = settled \union {row.by} /\ counted' = counted /\ at' = at
        BY <3>2 DEF Joins
      <4>2. /\ row.by \notin settled /\ row.pr = PullRequestOf[row.by]
            /\ row.enqueuedAt = Truncated(at[row.by])
        BY <4>1 DEF RowInv
      <4>3. /\ pc'[e] = "observe" /\ closed'[e] = row
            /\ \A f \in Events \ {e} : pc'[f] = pc[f] /\ closed'[f] = closed[f]
        BY <4>1 DEF TypeInv, TypeOK
      <4>4. Awaits(e)'
        BY <4>1, <4>2, <4>3 DEF SettleInv, Truncated
      <4>5. \A f \in Events \ {e} : pc'[f] = "observe" => Awaits(f)' /\ closed[f].by # row.by
        BY <4>1, <4>2, <4>3, <1>s DEF SettleInv
      <4>6. (\A f, g \in Events : pc[f] = "observe" /\ pc[g] = "observe"
                                  /\ closed[f].by = closed[g].by => f = g)'
        BY <4>3, <4>5 DEF SettleInv
      <4>7. counted' \subseteq settled'
        BY <4>1 DEF SettleInv
      <4>8. \A f \in Events : pc'[f] = "observe" => Awaits(f)'
        BY <4>4, <4>5
      <4> QED BY <4>6, <4>7, <4>8 DEF SettleInv
    <3> QED BY <2>2, <3>1, <3>2, CompleteCases
  <2>3. CASE Observe(e)
    <3>1. /\ pc[e] = "observe" /\ pc' = [pc EXCEPT ![e] = "done"]
          /\ counted' = counted \union {closed[e].by}
          /\ UNCHANGED <<closed, settled, at>>
      BY <2>3 DEF Observe, Goto
    <3>2. /\ pc'[e] # "observe"
          /\ \A f \in Events \ {e} : pc'[f] = pc[f]
      BY <3>1 DEF TypeInv, TypeOK
    <3>3. \A f \in Events : pc'[f] = "observe" => Awaits(f)'
      BY <3>1, <3>2, <1>s DEF SettleInv
    <3>4. counted' \subseteq settled'
      BY <3>1 DEF SettleInv
    <3>5. (\A f, g \in Events : pc[f] = "observe" /\ pc[g] = "observe"
                                /\ closed[f].by = closed[g].by => f = g)'
      BY <3>1, <3>2 DEF SettleInv
    <3> QED BY <3>3, <3>4, <3>5 DEF SettleInv
  <2> QED BY <1>1, <2>1, <2>2, <2>3 DEF Process
<1>2. CASE Crash \/ Prune \/ Tick \/ Idle \/ UNCHANGED vars
  BY <1>2, <1>k DEF Crash, Busy, Prune, Tick, Idle, vars, history
<1> QED BY <1>1, <1>2 DEF Next

LEMMA ObservationInductive ==
  TypeInv /\ KindInv /\ RowInv /\ SettleInv /\ ObservationInv /\ [Next]_vars
    => ObservationInv'
<1> SUFFICES ASSUME TypeInv, KindInv, RowInv, SettleInv, ObservationInv, [Next]_vars
             PROVE  ObservationInv'
  OBVIOUS
<1>a. ASSUME NEW o \in observed
      PROVE  /\ o.by \in Events /\ pc'[o.by] = "done" /\ at'[o.by] = at[o.by]
             /\ o.attempt \in Events /\ at'[o.attempt] = at[o.attempt]
             /\ o.attempt \in counted
  <2>1. o.by \in Events /\ pc[o.by] = "done" /\ o.attempt \in counted
    BY DEF ObservationInv
  <2>2. o.attempt \in Events /\ pc[o.attempt] = "done"
    BY <2>1 DEF SettleInv, RowInv, Attempt
  <2> QED BY <2>1, <2>2, AttemptsStay
<1>k. CASE observed' = observed /\ counted \subseteq counted'
  BY <1>k, <1>a DEF ObservationInv, ObservationsAreGenuine
<1>1. ASSUME NEW e \in Events, Process(e) PROVE ObservationInv'
  <2>1. CASE Receive(e) \/ Enqueue(e) \/ Complete(e) \/ ReportMissing(e) \/ Abandon(e)
    BY <2>1, <1>k DEF Receive, Enqueue, Complete, ReportMissing, Abandon, history
  <2>2. CASE Observe(e)
    <3> DEFINE a == closed[e].by
               duration == at[e] - closed[e].enqueuedAt
               new == [attempt |-> a, by |-> e, duration |-> duration]
    <3>1. pc[e] = "observe" /\ pc'[e] = "done" /\ at' = at /\ counted' = counted \union {a}
      BY <2>2 DEF Observe, Goto, TypeInv, TypeOK
    <3>2. CASE observed' = observed
      BY <3>1, <3>2, <1>k
    <3>3. CASE observed' = observed \union {new} /\ duration \in 0 .. MaxDuration
      <4>1. /\ a \in settled \ counted /\ PullRequestOf[a] = PullRequestOf[e]
            /\ closed[e].enqueuedAt = Truncated(at[a])
        BY <3>1 DEF SettleInv
      <4>2. a \in Events /\ KindOf[a] = "enqueued"
        BY <4>1 DEF RowInv, Attempt
      <4>3. KindOf[e] \in {"dequeued", "merged"}
        BY <3>1 DEF KindInv, Completions
      <4>4. at[e] \in Nat /\ at[a] \in Nat
        BY <4>2 DEF TypeInv, TypeOK
      <4>5. duration - (at[e] - at[a]) \in 0 .. Resolution - 1
        <5>1. Truncated(at[a]) \in Nat /\ at[a] - Truncated(at[a]) \in 0 .. Resolution - 1
          BY <4>4, TruncatedBounds
        <5>2. duration = at[e] - Truncated(at[a])
          BY <4>1
        <5>3. duration - (at[e] - at[a]) = at[a] - Truncated(at[a])
          BY <5>1, <5>2, <4>4
        <5> QED BY <5>1, <5>3
      <4> HIDE DEF duration, a
      <4>6. new.attempt = a /\ new.by = e /\ new.duration = duration
        OBVIOUS
      <4> HIDE DEF new
      <4>7. \A o \in observed : o.attempt # a
        BY <4>1, <1>a
      <4>8. ASSUME NEW o \in observed'
            PROVE  /\ PullRequestOf[o.by] = PullRequestOf[o.attempt]
                   /\ KindOf[o.attempt] = "enqueued" /\ KindOf[o.by] \in {"dequeued", "merged"}
                   /\ o.duration \in 0 .. MaxDuration
                   /\ o.duration - (at[o.by] - at[o.attempt]) \in 0 .. Resolution - 1
        <5>1. CASE o = new
          BY <3>3, <4>1, <4>2, <4>3, <4>5, <4>6, <5>1
        <5>2. CASE o \in observed
          BY <5>2 DEF ObservationInv, ObservationsAreGenuine
        <5> QED BY <3>3, <5>1, <5>2
      <4>9. \A o, other \in observed' : other.attempt = o.attempt => other = o
        BY <3>3, <4>6, <4>7 DEF ObservationInv, ObservationsAreGenuine
      <4>10. \A o \in observed' : o.attempt \in counted' /\ o.by \in Events /\ pc'[o.by] = "done"
        BY <3>1, <3>3, <4>6, <1>a
      <4> QED BY <3>1, <4>8, <4>9, <4>10 DEF ObservationInv, ObservationsAreGenuine
    <3> QED BY <2>2, <3>2, <3>3 DEF Observe
  <2> QED BY <1>1, <2>1, <2>2 DEF Process
<1>2. CASE Crash \/ Prune \/ Tick \/ Idle \/ UNCHANGED vars
  BY <1>2, <1>k DEF Crash, Prune, Tick, Idle, vars, history
<1> QED BY <1>1, <1>2 DEF Next

LEMMA QueueInductive == QueueInv /\ [Next]_vars => QueueInv'
BY TypeInductive, KindInductive, RowInductive, SettleInductive, ObservationInductive
   DEF QueueInv

LEMMA QueueInvariant == Spec => []QueueInv
<1>1. Init => QueueInv
  BY DEF Init, QueueInv, TypeInv, TypeOK, ClosedIsKnown, KindInv, RowInv, SettleInv,
         ObservationInv, ObservationsAreGenuine
<1> QED BY <1>1, QueueInductive, PTL DEF Spec

\* Whatever the order, loss and failure of deliveries, the metric holds one observation
\* per attempt, of a completion of its pull request, with a duration in range and right
\* to the millisecond a stored timestamp loses.
THEOREM MetricIsGenuine == Spec => []ObservationsAreGenuine
<1>1. QueueInv => ObservationsAreGenuine
  BY DEF QueueInv, ObservationInv
<1> QED BY <1>1, QueueInvariant, PTL

-----------------------------------------------------------------------------
(* The rows keep the promise about attempts.                                *)

Active == {row.by : row \in {open \in rows : Pending(open)}}
Openers == {e \in Events : KindOf[e] = "enqueued"}

LEMMA StepKeepsPromise == QueueInv /\ [Next]_vars => [Promise!Next]_(Promise!vars)
<1> SUFFICES ASSUME QueueInv, [Next]_vars
             PROVE  [Promise!Next]_(Promise!vars)
  OBVIOUS
<1> USE DEF QueueInv
<1>k. CASE UNCHANGED <<Active, settled, counted>>
  BY <1>k DEF Promise!vars, Active
<1>1. ASSUME NEW e \in Events, Process(e) PROVE [Promise!Next]_(Promise!vars)
  <2>1. CASE Receive(e) \/ ReportMissing(e) \/ Abandon(e)
    BY <2>1, <1>k DEF Receive, ReportMissing, Abandon, Active, Pending, history
  <2>2. CASE Enqueue(e)
    <3>1. CASE \E row \in Row(PullRequestOf[e]) : Pending(row)
      BY <2>2, <3>1, <1>k DEF Enqueue, Active, Pending
    <3>2. CASE ~\E row \in Row(PullRequestOf[e]) : Pending(row)
      <4>1. /\ pc[e] = "enqueue" /\ rows' = rows \union {NewRow(e)}
            /\ settled' = settled /\ counted' = counted
        BY <2>2, <3>2 DEF Enqueue
      <4>2. e \in Openers
        BY <4>1 DEF KindInv, Openers
      <4>3. \A row \in rows : row.by # e
        BY <4>1 DEF RowInv, Attempt
      <4>4. e \notin Active /\ e \notin settled
        BY <4>1, <4>3 DEF RowInv, Attempt, Active
      <4>5. \A b \in Active : PullRequestOf[b] # PullRequestOf[e]
        BY <3>2 DEF RowInv, Active, Row
      <4>6. Active' = Active \union {e}
        BY <4>1, NewRowType DEF TypeInv, Active, Pending
      <4> QED BY <4>1, <4>2, <4>4, <4>5, <4>6
            DEF Promise!Next, Promise!Open, Active, Openers
    <3> QED BY <3>1, <3>2
  <2>3. CASE Complete(e)
    <3>1. CASE Misses(e)
      BY <3>1, <1>k DEF Misses, Active, Pending
    <3>2. ASSUME NEW row \in rows, Joins(e, row) PROVE Promise!Next
      <4>1. /\ rows' = (rows \ {row}) \union {Completed(row, e)} /\ Pending(row)
            /\ settled' = settled \union {row.by} /\ counted' = counted
        BY <3>2 DEF Joins
      <4>2. row.by \in Active /\ row.by \in Openers
        BY <4>1 DEF Active, RowInv, Attempt, Openers
      <4>3. Active' = Active \ {row.by}
        <5>1. ~Pending(Completed(row, e))
          BY CompletedType DEF TypeInv, TypeOK
        <5>2. \A other \in rows \ {row} : other.by # row.by
          BY DEF RowInv
        <5> QED BY <4>1, <5>1, <5>2 DEF Active, Pending
      <4> QED BY <4>1, <4>2, <4>3 DEF Promise!Next, Promise!Settle, Active, Openers
    <3> QED BY <2>3, <3>1, <3>2, CompleteCases
  <2>4. CASE Observe(e)
    <3> DEFINE a == closed[e].by
    <3>1. /\ pc[e] = "observe" /\ UNCHANGED <<rows, settled>>
          /\ counted' = counted \union {a}
      BY <2>4 DEF Observe
    <3>2. a \in settled \ counted /\ a \in Openers
      BY <3>1 DEF SettleInv, RowInv, Attempt, Openers
    <3>3. Active' = Active
      BY <3>1 DEF Active, Pending
    <3> HIDE DEF a
    <3> QED BY <3>1, <3>2, <3>3 DEF Promise!Next, Promise!Count, Active, Openers
  <2> QED BY <1>1, <2>1, <2>2, <2>3, <2>4 DEF Process
<1>2. CASE Prune
  <2>1. /\ settled' = settled /\ counted' = counted
        /\ \E batch \in SUBSET {row \in rows : ~Pending(row)} : rows' = rows \ batch
    BY <1>2 DEF Prune, Expired, history
  <2>2. Active' = Active
    BY <2>1 DEF Active, Pending
  <2> QED BY <2>1, <2>2, <1>k
<1>3. CASE Crash \/ Tick \/ Idle \/ UNCHANGED vars
  BY <1>3, <1>k DEF Crash, Tick, Idle, vars, Active, Pending, history
<1> QED BY <1>1, <1>2, <1>3 DEF Next

\* Over failed tasks, crashes and pruning, a pull request has one open attempt at a
\* time, settled once and counted at most once, and never before it is settled.
THEOREM QueueKeepsPromise == Spec => KeepsAttemptPromise
<1>1. Init => Promise!Init
  BY DEF Init, Promise!Init
<1> QED BY <1>1, StepKeepsPromise, QueueInvariant, PTL DEF Spec, KeepsAttemptPromise, Promise!Spec

\* A row leaves the table only completed, and longer than the retention ago; neither a
\* batch of pruning nor a crash ever removes an attempt that is pending.
THEOREM PendingRowsStay == Spec => OnlyExpiredRowsVanish
<1> DEFINE Gone == \A row \in rows : (\A kept \in rows' : kept.by # row.by) =>
                     ~Pending(row) /\ row.completedAt < now - Retention
<1>1. QueueInv /\ [Next]_vars => [Gone]_vars
  <2> SUFFICES ASSUME QueueInv, [Next]_vars PROVE Gone \/ UNCHANGED vars
    OBVIOUS
  <2>1. CASE rows \subseteq rows'
    BY <2>1
  <2>2. ASSUME NEW e \in Events, Complete(e) PROVE Gone
    <3>1. CASE Misses(e)
      BY <3>1 DEF Misses
    <3>2. ASSUME NEW row \in rows, Joins(e, row) PROVE Gone
      <4>1. Completed(row, e).by = row.by
        BY CompletedType DEF QueueInv, TypeInv, TypeOK
      <4> QED BY <3>2, <4>1 DEF Joins
    <3> QED BY <2>2, <3>1, <3>2, CompleteCases
  <2>3. CASE Prune
    <3>1. PICK cutoff \in 0 .. now - Retention :
            \E batch \in SUBSET {row \in rows : Expired(row, cutoff)} : rows' = rows \ batch
      BY <2>3 DEF Prune
    <3>2. cutoff \in Nat /\ cutoff <= now - Retention /\ now \in Nat /\ Retention \in Nat
      BY <3>1, QueueAssumption DEF QueueInv, TypeInv, TypeOK
    <3>3. Truncated(cutoff) \in Nat /\ Truncated(cutoff) <= cutoff
      <4>1. /\ Truncated(cutoff) \in Nat
            /\ cutoff - Truncated(cutoff) \in 0 .. Resolution - 1
        BY <3>2, TruncatedBounds
      <4>2. Resolution \in Nat
        BY QueueAssumption
      <4> QED BY <3>2, <4>1, <4>2
    <3>4. ASSUME NEW row \in rows, Expired(row, cutoff)
          PROVE  ~Pending(row) /\ row.completedAt < now - Retention
      <4>1. row.completedAt \in Nat
        BY <3>4 DEF Expired, Pending, QueueInv, TypeInv, TypeOK, RowType
      <4> QED BY <3>2, <3>3, <3>4, <4>1 DEF Expired
    <3> QED BY <3>1, <3>4
  <2>4. CASE \/ Crash \/ Tick \/ Idle \/ UNCHANGED vars
             \/ \E e \in Events : Receive(e) \/ Enqueue(e) \/ Observe(e)
                                  \/ ReportMissing(e) \/ Abandon(e)
    BY <2>1, <2>4 DEF Crash, Tick, Idle, vars, Receive, Enqueue, Observe, ReportMissing,
                      Abandon
  <2> QED BY <2>2, <2>3, <2>4 DEF Next, Process
<1> QED BY <1>1, QueueInvariant, PTL DEF Spec, OnlyExpiredRowsVanish

-----------------------------------------------------------------------------
(* Events that commit in turn are joined as their timestamps tell.          *)

InTurn(pr) == \A e \in outOfTurn : PullRequestOf[e] # pr
Waiting(e) == pc[e] \in {"undelivered", "enqueue", "complete"}
Committed(e) == pc[e] \in {"done", "observe", "report_missing"}

\* A completion of pr with a timestamp of its own.
StampedCompletion(c, pr) ==
  PullRequestOf[c] = pr /\ KindOf[c] \in Completions /\ UpdatedAt[c] # None

NothingBetween(a, b) ==
  \A c \in Events : StampedCompletion(c, PullRequestOf[b]) =>
    ~(at[a] < UpdatedAt[c] /\ UpdatedAt[c] < at[b])

StampInv ==
  \A e \in Events : pc[e] # "undelivered" /\ UpdatedAt[e] # None => at[e] = UpdatedAt[e]

\* A completion that committed while an earlier event waited is out of turn.
OvertakenInv ==
  \A c, e \in Events :
    /\ Committed(c) /\ KindOf[c] \in Completions /\ Waiting(e)
    /\ PullRequestOf[c] = PullRequestOf[e] /\ UpdatedAt[e] # None /\ UpdatedAt[e] < at[c]
    => c \in outOfTurn

\* While a row is pending, no committed completion is later than its enqueue.
OpenInv ==
  \A row \in rows : Pending(row) /\ UpdatedAt[row.by] # None /\ InTurn(row.pr) =>
    \A c \in Events : StampedCompletion(c, row.pr) /\ Committed(c) =>
      UpdatedAt[c] <= at[row.by]

JoinInv ==
  /\ \A b \in Events :
       pc[b] = "observe" /\ UpdatedAt[closed[b].by] # None /\ InTurn(PullRequestOf[b]) =>
         NothingBetween(closed[b].by, b)
  /\ \A o \in observed : UpdatedAt[o.attempt] # None /\ InTurn(PullRequestOf[o.by]) =>
       NothingBetween(o.attempt, o.by)

TurnInv == StampInv /\ OvertakenInv /\ OpenInv /\ JoinInv

\* What a step does to the turn of events, apart from the commits themselves.
LEMMA TurnsPass ==
  ASSUME TypeInv, KindInv, [Next]_vars
  PROVE  /\ outOfTurn \subseteq outOfTurn'
         /\ \A e \in Events :
              /\ Waiting(e)' => Waiting(e)
              /\ Committed(e)' /\ KindOf[e] \in Completions /\ ~Committed(e) => Complete(e)
              /\ Committed(e) => pc[e] # "undelivered"
              /\ pc'[e] = "observe" /\ pc[e] # "observe" => Complete(e)
<1> USE DEF TypeInv, TypeOK, Goto, Waiting, Committed, Completions
<1>1. ASSUME NEW e \in Events, Process(e)
      PROVE  /\ outOfTurn \subseteq outOfTurn'
             /\ \A f \in Events \ {e} : pc'[f] = pc[f]
  BY <1>1 DEF Process, Receive, Enqueue, Complete, Observe, ReportMissing, Abandon, NoteOrder,
              history
<1>2. ASSUME NEW e \in Events, Process(e)
      PROVE  /\ Waiting(e)' => Waiting(e)
             /\ Committed(e)' /\ KindOf[e] \in Completions /\ ~Committed(e) => Complete(e)
             /\ pc'[e] = "observe" /\ pc[e] # "observe" => Complete(e)
  <2>1. CASE Receive(e)
    BY <2>1, QueueAssumption DEF Receive
  <2>2. CASE Enqueue(e)
    BY <2>2 DEF Enqueue, KindInv
  <2>3. CASE Complete(e)
    <3>1. pc[e] = "complete"
      BY <2>3 DEF Complete
    <3> QED BY <2>3, <3>1
  <2>4. CASE Observe(e) \/ ReportMissing(e) \/ Abandon(e)
    BY <2>4 DEF Observe, ReportMissing, Abandon, Busy
  <2> QED BY <1>2, <2>1, <2>2, <2>3, <2>4 DEF Process
<1>3. CASE Crash \/ Prune \/ Tick \/ Idle \/ UNCHANGED vars
  BY <1>3 DEF Crash, Prune, Tick, Idle, vars, history, Busy
<1> QED BY <1>1, <1>2, <1>3 DEF Next

LEMMA StampInductive == TypeInv /\ StampInv /\ [Next]_vars => StampInv'
<1> SUFFICES ASSUME TypeInv, StampInv, [Next]_vars PROVE StampInv'
  OBVIOUS
<1> SUFFICES ASSUME NEW e \in Events, pc'[e] # "undelivered", UpdatedAt[e] # None
             PROVE  at'[e] = UpdatedAt[e]
  BY DEF StampInv
<1>1. CASE pc[e] # "undelivered"
  BY <1>1, AttemptsStay DEF StampInv
<1>2. CASE pc[e] = "undelivered"
  <2>1. Receive(e)
    BY <1>2 DEF Next, Process, Receive, Enqueue, Complete, Observe, ReportMissing, Abandon, Busy,
                Goto, Crash, Prune, Tick, Idle, vars, TypeInv, TypeOK
  <2> QED BY <2>1 DEF Receive, TypeInv, TypeOK
<1> QED BY <1>1, <1>2

LEMMA OvertakenInductive == TypeInv /\ KindInv /\ OvertakenInv /\ [Next]_vars => OvertakenInv'
<1> SUFFICES ASSUME TypeInv, KindInv, OvertakenInv, [Next]_vars,
                    NEW c \in Events, NEW e \in Events,
                    Committed(c)', KindOf[c] \in Completions, Waiting(e)',
                    PullRequestOf[c] = PullRequestOf[e], UpdatedAt[e] # None,
                    UpdatedAt[e] < at'[c]
             PROVE  c \in outOfTurn'
  BY DEF OvertakenInv
<1>1. Waiting(e) /\ outOfTurn \subseteq outOfTurn'
  BY TurnsPass
<1>2. CASE Committed(c)
  <2>1. at'[c] = at[c]
    BY <1>2, TurnsPass, AttemptsStay
  <2> QED BY <1>1, <1>2, <2>1 DEF OvertakenInv
<1>3. CASE ~Committed(c)
  <2>1. Complete(c)
    BY <1>3, TurnsPass
  <2>2. at' = at /\ NoteOrder(c)
    BY <2>1 DEF Complete
  <2>3. Skipped(c)
    BY <1>1, <2>2 DEF Skipped, Waiting
  <2> QED BY <2>2, <2>3 DEF NoteOrder
<1> QED BY <1>2, <1>3

LEMMA OpenInductive == QueueInv /\ TurnInv /\ [Next]_vars => OpenInv'
<1> SUFFICES ASSUME QueueInv, TurnInv, [Next]_vars,
                    NEW row \in rows', Pending(row), UpdatedAt[row.by] # None, InTurn(row.pr)',
                    NEW c \in Events, StampedCompletion(c, row.pr), Committed(c)'
             PROVE  UpdatedAt[c] <= at'[row.by]
  BY DEF OpenInv, Pending, StampedCompletion
<1> USE DEF QueueInv
<1>1. outOfTurn \subseteq outOfTurn' /\ InTurn(row.pr)
  BY TurnsPass DEF InTurn
<1>2. UpdatedAt[c] \in Nat /\ at \in [Events -> Nat] /\ KindOf[c] \in Completions
  BY QueueAssumption DEF StampedCompletion, TypeInv, TypeOK
<1>3. CASE row \in rows
  <2>1. row.by \in Events /\ at'[row.by] = at[row.by]
    BY <1>3, AttemptsStay DEF RowInv, Attempt
  <2>2. CASE Committed(c)
    BY <1>1, <1>3, <2>1, <2>2 DEF TurnInv, OpenInv
  <2>3. CASE ~Committed(c)
    \* The completion would have closed the row.
    <3>1. Complete(c)
      BY <1>2, <2>3, TurnsPass
    <3>2. PullRequestOf[c] = row.pr
      BY DEF StampedCompletion
    <3>3. row \in Row(PullRequestOf[c])
      BY <1>3, <3>2 DEF Row
    <3>4. PICK joined \in rows : Joins(c, joined)
      <4>1. \E r \in Row(PullRequestOf[c]) : Pending(r)
        BY <3>3
      <4> QED BY <3>1, <4>1 DEF Complete, Joins, Row, Goto
    <3>5. joined = row
      BY <1>3, <3>2, <3>4 DEF Joins, RowInv
    <3>6. row # Completed(row, c)
      BY <1>3, CompletedType DEF TypeInv, TypeOK
    <3> QED BY <3>4, <3>5, <3>6 DEF Joins
  <2> QED BY <2>2, <2>3
<1>4. CASE row \notin rows
  <2>1. PICK a \in Events : Enqueue(a) /\ row = NewRow(a)
    <3>1. ASSUME NEW e \in Events, Process(e) PROVE Enqueue(e) /\ row = NewRow(e)
      <4>1. CASE Complete(e)
        <5>1. PICK joined \in rows : Joins(e, joined)
          BY <1>4, <4>1, CompleteCases DEF Misses
        <5>2. row = Completed(joined, e)
          BY <1>4, <5>1 DEF Joins
        <5> QED BY <5>1, <5>2, CompletedType DEF TypeInv, TypeOK
      <4>2. CASE Enqueue(e)
        BY <1>4, <4>2 DEF Enqueue
      <4>3. CASE Receive(e) \/ Observe(e) \/ ReportMissing(e) \/ Abandon(e)
        BY <1>4, <4>3 DEF Receive, Observe, ReportMissing, Abandon
      <4> QED BY <3>1, <4>1, <4>2, <4>3 DEF Process
    <3>2. ~(Crash \/ Prune \/ Tick \/ Idle \/ UNCHANGED vars)
      BY <1>4 DEF Crash, Prune, Tick, Idle, vars
    <3> QED BY <3>1, <3>2 DEF Next
  <2>2. /\ row.by = a /\ row.pr = PullRequestOf[a] /\ pc[a] = "enqueue" /\ at' = at
        /\ pc' = [pc EXCEPT ![a] = "done"]
    BY <2>1, NewRowType DEF Enqueue, Goto, TypeInv
  <2>3. KindOf[a] = "enqueued" /\ UpdatedAt[a] # None
    BY <2>2 DEF KindInv
  <2>4. at[a] = UpdatedAt[a] /\ at[a] \in Nat
    BY <1>2, <2>2, <2>3 DEF TurnInv, StampInv
  <2>5. c # a /\ Committed(c)
    BY <1>2, <2>2, <2>3 DEF Completions, Committed, TypeInv, TypeOK
  <2>6. at[c] = UpdatedAt[c]
    BY <2>5 DEF TurnInv, StampInv, Committed, StampedCompletion
  <2>7. c \notin outOfTurn
    BY <1>1 DEF InTurn, StampedCompletion
  <2>8. ~(UpdatedAt[a] < at[c])
    BY <1>2, <2>2, <2>3, <2>5, <2>7 DEF TurnInv, OvertakenInv, Waiting, StampedCompletion
  <2> QED BY <1>2, <2>2, <2>4, <2>6, <2>8
<1> QED BY <1>3, <1>4

LEMMA JoinInductive == QueueInv /\ TurnInv /\ [Next]_vars => JoinInv'
<1> SUFFICES ASSUME QueueInv, TurnInv, [Next]_vars PROVE JoinInv'
  OBVIOUS
<1> USE DEF QueueInv, TurnInv
<1>1. outOfTurn \subseteq outOfTurn'
  BY TurnsPass
<1>t. \A a \in Events : pc[a] # "undelivered" => at'[a] = at[a]
  BY AttemptsStay
<1>2. ASSUME NEW b \in Events, pc'[b] = "observe", UpdatedAt[closed'[b].by] # None,
             InTurn(PullRequestOf[b])'
      PROVE  NothingBetween(closed[b].by, b)'
  <2>1. InTurn(PullRequestOf[b])
    BY <1>1, <1>2 DEF InTurn
  <2>2. CASE pc[b] = "observe"
    <3>1. closed'[b] = closed[b]
      <4>1. ASSUME NEW e \in Events, Complete(e) PROVE closed'[b] = closed[b]
        BY <2>2, <4>1, CompleteCases DEF Joins, Misses, TypeInv, TypeOK
      <4>2. ASSUME NEW e \in Events, ~Complete(e), Process(e) PROVE closed' = closed
        BY <4>2 DEF Process, Receive, Enqueue, Observe, ReportMissing, Abandon
      <4>3. CASE Crash \/ Prune \/ Tick \/ Idle \/ UNCHANGED vars
        BY <4>3 DEF Crash, Prune, Tick, Idle, vars
      <4> QED BY <4>1, <4>2, <4>3 DEF Next
    <3>2. closed[b].by \in Events /\ pc[closed[b].by] = "done"
      BY <2>2 DEF SettleInv, RowInv, Attempt
    <3>3. at'[b] = at[b] /\ at'[closed[b].by] = at[closed[b].by]
      BY <1>t, <2>2, <3>2
    <3>4. NothingBetween(closed[b].by, b)
      BY <1>2, <2>1, <2>2, <3>1 DEF JoinInv
    <3> QED BY <3>1, <3>3, <3>4 DEF NothingBetween, StampedCompletion
  <2>3. CASE pc[b] # "observe"
    <3>1. Complete(b)
      BY <1>2, <2>3, TurnsPass DEF TypeInv
    <3>2. PICK row \in rows : Joins(b, row)
      BY <1>2, <3>1, CompleteCases DEF Misses, TypeInv, TypeOK
    <3>3. /\ closed'[b] = row /\ at' = at /\ pc[b] = "complete"
          /\ Pending(row) /\ row.pr = PullRequestOf[b] /\ row.by \in Events
      BY <3>2 DEF Joins, TypeInv, TypeOK, RowType
    <3>4. ~Skipped(b)
      <4>1. b \notin outOfTurn'
        BY <1>2 DEF InTurn
      <4>2. NoteOrder(b)
        BY <3>1 DEF Complete
      <4> QED BY <4>1, <4>2 DEF NoteOrder
    <3>5. ASSUME NEW c \in Events, StampedCompletion(c, PullRequestOf[b]), UpdatedAt[c] < at[b]
          PROVE  ~(at[row.by] < UpdatedAt[c])
      <4>1. Committed(c)
        BY <3>4, <3>5 DEF Skipped, Committed, StampedCompletion
      <4>2. UpdatedAt[c] <= at[row.by]
        BY <1>2, <2>1, <3>3, <3>5, <4>1 DEF OpenInv
      <4>3. UpdatedAt[c] \in Nat /\ at[row.by] \in Nat
        BY <3>3, <3>5, QueueAssumption DEF StampedCompletion, TypeInv, TypeOK
      <4> QED BY <4>2, <4>3
    <3> QED BY <3>3, <3>5 DEF NothingBetween, StampedCompletion
  <2> QED BY <2>2, <2>3
<1>3. ASSUME NEW o \in observed', UpdatedAt[o.attempt] # None, InTurn(PullRequestOf[o.by])'
      PROVE  NothingBetween(o.attempt, o.by)'
  <2>1. InTurn(PullRequestOf[o.by])
    BY <1>1, <1>3 DEF InTurn
  <2>2. CASE o \in observed
    <3>1. o.by \in Events /\ pc[o.by] = "done" /\ o.attempt \in Events /\ pc[o.attempt] = "done"
      BY <2>2 DEF ObservationInv, SettleInv, RowInv, Attempt
    <3>2. at'[o.by] = at[o.by] /\ at'[o.attempt] = at[o.attempt]
      BY <1>t, <3>1
    <3>3. NothingBetween(o.attempt, o.by)
      BY <1>3, <2>1, <2>2 DEF JoinInv
    <3> QED BY <3>2, <3>3 DEF NothingBetween, StampedCompletion
  <2>3. CASE o \notin observed
    <3>1. PICK e \in Events : Observe(e)
      BY <2>3 DEF Next, Process, Receive, Enqueue, Complete, Observe, ReportMissing, Abandon, Crash,
                  Prune, Tick, Idle, vars, history
    <3>2. pc[e] = "observe" /\ at' = at /\ o.by = e /\ o.attempt = closed[e].by
      BY <2>3, <3>1 DEF Observe
    <3>3. NothingBetween(closed[e].by, e)
      BY <1>3, <2>1, <3>2 DEF JoinInv
    <3> QED BY <3>2, <3>3 DEF NothingBetween, StampedCompletion
  <2> QED BY <2>2, <2>3
<1> QED BY <1>2, <1>3 DEF JoinInv, InTurn

\* An observation of a timestamped attempt, of a pull request whose events all committed
\* in turn, joins the enqueue to the first completion that follows it, over any number of
\* attempts, crashes and pruned rows.
THEOREM InTurnIsAuthoritative == Spec => []OrderedIsAuthoritative
<1>1. Init => QueueInv /\ TurnInv
  BY DEF Init, QueueInv, TypeInv, TypeOK, ClosedIsKnown, KindInv, RowInv, SettleInv,
         ObservationInv, ObservationsAreGenuine, TurnInv, StampInv, OvertakenInv, OpenInv,
         JoinInv, Committed
<1>2. QueueInv /\ TurnInv /\ [Next]_vars => QueueInv' /\ TurnInv'
  BY QueueInductive, StampInductive, OvertakenInductive, OpenInductive, JoinInductive
     DEF TurnInv, QueueInv
<1>3. QueueInv /\ TurnInv => OrderedIsAuthoritative
  BY DEF TurnInv, JoinInv, OrderedIsAuthoritative, Authoritative, NothingBetween, InTurn,
         StampedCompletion, Completions
<1> QED BY <1>1, <1>2, <1>3, PTL DEF Spec
=============================================================================
