-------------------------- MODULE Lifecycle_proofs ---------------------------
(***************************************************************************)
(* Proofs about Lifecycle and the Retention it contains, for any stores,   *)
(* batch size, environments and numbers of requests that satisfy           *)
(* RetentionAssumption and LifecycleAssumption.                            *)
(***************************************************************************)
EXTENDS Lifecycle, TLAPS, FiniteSetTheorems

-------------------------------------------------------------------------------
(* The retention task *)

InPass == task \in {"Pruning", "Batch"}

\* The outcome is that of the answers so far; a store that answers "Cancelled" is
\* the last one of its pass.
AnswersInv ==
    InPass => /\ done \in Nat /\ done < Len(Stores)
              /\ answers \subseteq {"Completed", "Failed"}
              /\ outcome = IF "Failed" \in answers THEN "Failure" ELSE "Success"

\* Rows a pass must still delete are rows its statements would delete.
OwedInv ==
    /\ IsFiniteSet(rows)
    /\ InPass => \A r \in owed : r \in rows /\ r.stamp < Cutoff(r.store, started)

\* After the cancellation rows are deleted by the batch that was under way, or not at all.
SpentInv ==
    /\ ~cancelled \/ task = "Batch" => spent = 0
    /\ spent <= BatchSize

RetentionInv ==
    AnswersInv /\ OwedInv /\ SpentInv /\ SuccessMeansEmptied /\ OutcomeIsTrue

LEMMA Sizes == Len(Stores) \in Nat \ {0} /\ BatchSize \in Nat \ {0}
BY RetentionAssumption

LEMMA InitRetentionInv ==
    ASSUME NEW kept, NEW bound, InitRetention(kept, bound), IsFiniteSet(kept)
    PROVE  RetentionInv
BY Sizes DEF InitRetention, RetentionInv, AnswersInv, OwedInv, SpentInv, InPass,
             SuccessMeansEmptied, OutcomeIsTrue

\* A store is answered for: what it answers goes into the outcome.
LEMMA AnswerKeeps ==
    ASSUME RetentionInv, InPass, NEW o \in StoreOutcomes, Answer(o),
           rows' \subseteq rows, owed' \subseteq owed, UNCHANGED <<limits, started, cancelled>>,
           spent' <= BatchSize, ~cancelled => spent' = 0,
           o = "Cancelled" => cancelled,
           o = "Completed" => \A r \in owed' : r.store # Current,
           \A r \in owed' : r \in rows'
    PROVE  RetentionInv'
<1> USE DEF RetentionInv, Answer
<1>1. done \in Nat /\ done < Len(Stores) /\ done + 1 \in Nat
    BY DEF AnswersInv
<1>2. AnswersInv'
    BY <1>1, Sizes DEF AnswersInv, InPass, StoreOutcomes, Combine
<1>3. OwedInv'
    <2>1. IsFiniteSet(rows')
        BY FS_Subset DEF OwedInv
    <2> QED BY <2>1 DEF OwedInv, InPass, Cutoff
<1>4. SpentInv'
    BY DEF SpentInv, InPass
<1>5. SuccessMeansEmptied'
    <2> SUFFICES ASSUME outcome' = "Success", NEW i \in 1 .. done', NEW r \in owed'
                 PROVE  r.store # Stores[i]
        BY DEF SuccessMeansEmptied
    <2>1. outcome = "Success" /\ o = "Completed"
        BY DEF Combine, StoreOutcomes, AnswersInv
    <2>2. CASE i = done + 1
        BY <2>1, <2>2 DEF Current
    <2>3. CASE i # done + 1
        <3>1. i \in 1 .. done
            BY <1>1, <2>3
        <3> QED BY <2>1, <3>1 DEF SuccessMeansEmptied
    <2> QED BY <2>2, <2>3
<1>6. OutcomeIsTrue'
    BY <1>1, Sizes DEF AnswersInv, InPass, StoreOutcomes, Combine, OutcomeIsTrue
<1> QED BY <1>2, <1>3, <1>4, <1>5, <1>6

\* A batch deletes no more than it may, and a batch that is not full leaves nothing.
LEMMA BatchBound ==
    ASSUME RetentionInv, NEW s, NEW gone, Batch(s, gone)
    PROVE  /\ Cardinality(gone) \in Nat /\ Cardinality(gone) <= BatchSize
           /\ Cardinality(gone) < BatchSize => gone = ExpiredAt(s, started)
<1>1. gone \subseteq rows
    BY DEF Batch, ExpiredAt
<1>2. IsFiniteSet(gone)
    BY <1>1, FS_Subset DEF RetentionInv, OwedInv
<1>3. Cardinality(gone) \in Nat
    BY <1>2, FS_CardinalityType
<1> QED BY <1>3, Sizes DEF Batch

LEMMA DeleteSpends ==
    ASSUME RetentionInv, task = "Batch", NEW gone, Batch(Current, gone), Delete(gone)
    PROVE  /\ spent' <= BatchSize /\ (~cancelled => spent' = 0)
           /\ IsFiniteSet(rows')
<1>1. spent = 0
    BY DEF RetentionInv, SpentInv
<1>2. IsFiniteSet(rows')
    BY FS_Subset DEF RetentionInv, OwedInv, Delete
<1> QED BY <1>1, <1>2, BatchBound, Sizes DEF Delete

LEMMA EndBatchKeeps == ASSUME RetentionInv, NEW gone, EndBatch(gone) PROVE RetentionInv'
<1>1. task = "Batch" /\ Batch(Current, gone) /\ Delete(gone)
      /\ UNCHANGED <<now, cancelled, writes, limits, due, started>>
    BY DEF EndBatch
<1>2. rows' = rows \ gone /\ owed' = owed \ gone
    BY <1>1 DEF Delete
<1>3. \A r \in owed : r \in rows /\ r.stamp < Cutoff(r.store, started)
    BY <1>1 DEF RetentionInv, OwedInv, InPass
<1>4. spent' <= BatchSize /\ (~cancelled => spent' = 0) /\ IsFiniteSet(rows')
    BY <1>1, DeleteSpends
<1>5. CASE Cardinality(gone) < BatchSize
    <2>1. Answer("Completed")
        BY <1>5 DEF EndBatch
    <2>2. \A r \in owed' : r.store # Current
        <3>1. gone = ExpiredAt(Current, started)
            BY <1>1, <1>5, BatchBound
        <3> QED BY <1>2, <1>3, <3>1 DEF ExpiredAt
    <2>3. \A r \in owed' : r \in rows'
        BY <1>2, <1>3
    <2> QED BY <1>1, <1>2, <1>4, <2>1, <2>2, <2>3, AnswerKeeps DEF InPass, StoreOutcomes
<1>6. CASE ~(Cardinality(gone) < BatchSize)
    <2>1. task' = "Pruning" /\ UNCHANGED <<done, outcome, answers>>
        BY <1>6 DEF EndBatch
    <2> USE DEF RetentionInv
    <2>2. AnswersInv' /\ OutcomeIsTrue'
        BY <1>1, <2>1 DEF AnswersInv, InPass, OutcomeIsTrue
    <2>3. OwedInv'
        BY <1>1, <1>2, <1>3, <1>4, <2>1 DEF OwedInv, InPass, Cutoff
    <2>4. SpentInv'
        BY <1>1, <1>4, <2>1 DEF SpentInv
    <2>5. SuccessMeansEmptied'
        BY <1>2, <2>1 DEF SuccessMeansEmptied
    <2> QED BY <2>2, <2>3, <2>4, <2>5
<1> QED BY <1>5, <1>6

LEMMA PassSteps ==
    ASSUME RetentionInv, RetentionStep
    PROVE  RetentionInv'
<1> USE DEF RetentionInv
<1>1. CASE StartPass
    <2>1. \A r \in owed' : r \in rows' /\ r.stamp < Cutoff(r.store, started)'
        BY <1>1 DEF StartPass, Cutoff
    <2>2. AnswersInv' /\ OutcomeIsTrue' /\ SuccessMeansEmptied'
        BY <1>1, Sizes DEF StartPass, AnswersInv, InPass, OutcomeIsTrue, SuccessMeansEmptied
    <2>3. OwedInv' /\ SpentInv'
        BY <1>1, <2>1 DEF StartPass, OwedInv, SpentInv
    <2> QED BY <2>2, <2>3
<1>2. CASE EndPass
    BY <1>2, Sizes DEF EndPass, AnswersInv, OwedInv, SpentInv, InPass, OutcomeIsTrue, SuccessMeansEmptied
<1>3. CASE Stop
    BY <1>3 DEF Stop, AnswersInv, OwedInv, SpentInv, InPass, OutcomeIsTrue, SuccessMeansEmptied, passVars
<1>4. CASE SkipStore \/ CancelStore \/ BatchFails
    <2>1. PICK o \in {"Failed", "Cancelled"} :
              /\ InPass /\ Answer(o) /\ (o = "Cancelled" => cancelled)
              /\ UNCHANGED <<cancelled, rows, limits, started, owed, spent>>
        BY <1>4 DEF SkipStore, CancelStore, BatchFails, InPass
    <2>2. spent' <= BatchSize /\ (~cancelled => spent' = 0)
        BY <2>1 DEF SpentInv
    <2>3. \A r \in owed' : r \in rows'
        BY <2>1 DEF OwedInv
    <2>4. o \in StoreOutcomes
        BY DEF StoreOutcomes
    <2> QED BY <2>1, <2>2, <2>3, <2>4, AnswerKeeps
<1>5. CASE BeginBatch
    BY <1>5 DEF BeginBatch, AnswersInv, OwedInv, SpentInv, InPass, OutcomeIsTrue,
                SuccessMeansEmptied, Cutoff, passVars
<1> QED BY <1>1, <1>2, <1>3, <1>4, <1>5, EndBatchKeeps DEF RetentionStep

\* What goes on around the task: rows come and are stamped anew, time passes, the
\* cancellation is sent, the task is spawned or aborted.
LEMMA AroundSteps ==
    ASSUME RetentionInv,
           \/ Spawn \/ Tick \/ Signal \/ Abort
           \/ \E s, stamp : Insert(s, stamp)
           \/ \E r \in rows : Refresh(r)
    PROVE  RetentionInv'
<1> USE DEF RetentionInv
<1>1. CASE Spawn \/ Tick
    BY <1>1 DEF Spawn, Tick, AnswersInv, OwedInv, SpentInv, InPass, OutcomeIsTrue,
                SuccessMeansEmptied, Cutoff, passVars
<1>2. CASE Signal
    BY <1>2 DEF Signal, AnswersInv, OwedInv, SpentInv, InPass, OutcomeIsTrue,
                SuccessMeansEmptied, Cutoff, passVars
<1>3. CASE Abort
    <2>1. /\ task' = "Aborted" /\ UNCHANGED <<cancelled, done, outcome, answers>>
          /\ owed' \subseteq owed
        BY <1>3 DEF Abort, Delete
    <2>2. spent' <= BatchSize /\ (~cancelled => spent' = 0) /\ IsFiniteSet(rows')
        <3>1. CASE UNCHANGED <<rows, owed, spent>>
            BY <3>1 DEF SpentInv, OwedInv
        <3>2. CASE task = "Batch" /\ \E gone \in SUBSET rows : Batch(Current, gone) /\ Delete(gone)
            BY <3>2, DeleteSpends
        <3> QED BY <1>3, <3>1, <3>2 DEF Abort
    <2> QED BY <2>1, <2>2 DEF AnswersInv, OwedInv, SpentInv, InPass, OutcomeIsTrue, SuccessMeansEmptied
<1>4. ASSUME NEW s, NEW stamp, Insert(s, stamp) PROVE RetentionInv'
    <2>1. IsFiniteSet(rows') /\ rows \subseteq rows'
        BY <1>4, FS_AddElement DEF Insert, OwedInv
    <2>2. UNCHANGED <<cancelled, limits, task, done, started, outcome, owed, answers, spent>>
        BY <1>4 DEF Insert, passVars
    <2> QED BY <2>1, <2>2 DEF AnswersInv, OwedInv, SpentInv, InPass, OutcomeIsTrue,
                              SuccessMeansEmptied, Cutoff
<1>5. ASSUME NEW r \in rows, Refresh(r) PROVE RetentionInv'
    <2>1. rows' = (rows \ {r}) \cup {[r EXCEPT !.stamp = now]} /\ owed' = owed \ {r}
        BY <1>5 DEF Refresh
    <2>2. IsFiniteSet(rows')
        BY <2>1, FS_RemoveElement, FS_AddElement DEF OwedInv
    <2>3. UNCHANGED <<cancelled, limits, task, done, started, outcome, answers, spent>>
        BY <1>5 DEF Refresh
    <2> QED BY <2>1, <2>2, <2>3 DEF AnswersInv, OwedInv, SpentInv, InPass, OutcomeIsTrue,
                                    SuccessMeansEmptied, Cutoff
<1> QED BY <1>1, <1>2, <1>3, <1>4, <1>5

\* Nobody is in a pass when the settings arrive.
LEMMA QuietSteps ==
    ASSUME RetentionInv, ~InPass \/ limits' = limits,
           UNCHANGED <<cancelled, rows, task, passVars, spent>>
    PROVE  RetentionInv'
BY DEF RetentionInv, AnswersInv, OwedInv, SpentInv, InPass, OutcomeIsTrue,
       SuccessMeansEmptied, Cutoff, passVars

LEMMA StillSteps == ASSUME RetentionInv, UNCHANGED retentionVars PROVE RetentionInv'
BY DEF RetentionInv, AnswersInv, OwedInv, SpentInv, InPass, OutcomeIsTrue,
       SuccessMeansEmptied, Cutoff, passVars, retentionVars

-------------------------------------------------------------------------------
(* The process *)

Early == {"Loading", "Telemetry", "Database", "GitHub", "Gauge", "Retention", "Bind"}
Late == {"Closing", "Waiting", "Exited"}
Unstarted == /\ task = "Unborn" /\ refresher = "Unborn" /\ requests = 0
             /\ server = "Serving" /\ drained = None /\ faults = {}

\* How far main has come tells what can be running.
StageInv ==
    /\ stage \in Stages /\ requests \in Nat
    /\ stage \in Early => Unstarted /\ result = None
    /\ stage = "Serving" =>
           /\ task = "Unborn" => Unstarted
           /\ server = "Serving" /\ drained = None /\ faults = {}
    /\ stage = "Joining" => server = "Stopped" /\ drained = None /\ faults \subseteq {"server"}
    /\ stage = "Draining" =>
           /\ server \in {"Serving", "Drained"} /\ drained = None /\ faults \subseteq {"server"}
           /\ server = "Drained" => requests = 0
    /\ stage \in {"Serving", "Joining", "Draining"} => result = None

\* The service's answer, from the moment it is given.
ResultInv ==
    stage \in Late /\ result # None =>
        result = "Ok" <=> (drained = "TimedOut" \/ faults = {})

\* What has been reported of each provider, while its result can still come.
ThreadInv ==
    /\ providers \subseteq Providers
    /\ DOMAIN threads = Providers /\ reported \in [Providers -> Nat]
    /\ stage \notin {"Waiting", "Exited"} => unread = {} /\ reported = [p \in Providers |-> 0]
    /\ stage = "Waiting" =>
           \A p \in providers :
               /\ threads[p] \in {"Unspawned", "Running", "Done", "Failed"}
               /\ p \in unread => threads[p] \in {"Done", "Failed"}
               /\ reported[p] = IF threads[p] = "Unspawned" \/ (threads[p] = "Failed" /\ p \notin unread)
                                THEN 1 ELSE 0

ProcessInv == StageInv /\ QuietBeforeTelemetry /\ ResultInv /\ ThreadInv /\ ExitTellsTheTruth

LEMMA InitProcessInv == Init => RetentionInv /\ ProcessInv
<1> SUFFICES ASSUME Init PROVE RetentionInv /\ ProcessInv
    OBVIOUS
<1>1. PICK w \in Worlds : InitRetention(w.rows, w.writes) /\ env = w.env
    BY DEF Init
<1>2. RetentionInv
    BY <1>1, LifecycleAssumption, InitRetentionInv
<1>3. task = "Unborn"
    BY <1>1 DEF InitRetention
<1>4. stage \in Stages
    BY DEF Init, Stages
<1>5. StageInv
    BY <1>3, <1>4 DEF Init, StageInv, Early, Unstarted
<1>6. QuietBeforeTelemetry /\ ResultInv /\ ThreadInv /\ ExitTellsTheTruth
    BY DEF Init, QuietBeforeTelemetry, ResultInv, ThreadInv, ExitTellsTheTruth, Late
<1> QED BY <1>2, <1>5, <1>6 DEF ProcessInv

LEMMA StageNames ==
    /\ Stages = Early \cup Late \cup {"Serving", "Joining", "Draining"}
    /\ Startup[2] = "Database" /\ Startup[3] = "GitHub" /\ Startup[4] = "Gauge"
    /\ Startup[5] = "Retention" /\ Startup[6] = "Bind" /\ Startup[7] = "Serving"
<1>1. Startup = <<"Telemetry", "Database", "GitHub", "Gauge", "Retention", "Bind", "Serving">>
    BY DEF Startup
<1>2. Len(Startup) = 7
    BY <1>1
<1>3. {Startup[i] : i \in 1 .. 7} =
          {"Telemetry", "Database", "GitHub", "Gauge", "Retention", "Bind", "Serving"}
    BY <1>1
<1> QED BY <1>1, <1>2, <1>3 DEF Stages, Early, Late

\* What a step of main before the server must show.
LEMMA LoadKeeps == ASSUME RetentionInv, ProcessInv, Load PROVE RetentionInv' /\ ProcessInv'
<1> USE DEF ProcessInv
<1>1. /\ UNCHANGED <<retentionVars, requests, refresher, server, drained, faults, result, threads,
                     unread, reported>>
      /\ stage = "Loading" /\ stage' \in {"Telemetry", "Exited"}
      /\ stage' = "Telemetry" => providers' = ProvidersOf(TelemetrySettings(env))
      /\ stage' = "Exited" => providers' = providers
    BY DEF Load
<1>2. RetentionInv'
    BY <1>1, StillSteps
<1>3. providers' \subseteq Providers
    BY <1>1 DEF ProvidersOf, ThreadInv
<1>4. task' = task
    BY <1>1 DEF retentionVars
<1>5. Unstarted /\ result = None
    BY <1>1 DEF StageInv, Early
<1>6. StageInv' /\ QuietBeforeTelemetry' /\ ResultInv' /\ ExitTellsTheTruth'
    BY <1>1, <1>4, <1>5, StageNames DEF StageInv, QuietBeforeTelemetry, ResultInv, ExitTellsTheTruth,
        Early, Late, Unstarted
<1>7. ThreadInv'
    BY <1>1, <1>3 DEF ThreadInv
<1> QED BY <1>2, <1>6, <1>7

LEMMA TelemetryKeeps ==
    ASSUME RetentionInv, ProcessInv, NEW ok, InitTelemetry(ok)
    PROVE  RetentionInv' /\ ProcessInv'
<1> USE DEF ProcessInv
<1>1. /\ UNCHANGED <<retentionVars, requests, refresher, server, drained, faults, result, threads,
                     unread, reported, providers>>
      /\ stage = "Telemetry" /\ stage' \in {"Database", "Exited"}
    BY DEF InitTelemetry
<1>2. RetentionInv'
    BY <1>1, StillSteps
<1>3. task' = task
    BY <1>1 DEF retentionVars
<1>4. Unstarted /\ result = None
    BY <1>1 DEF StageInv, Early
<1>5. StageInv' /\ QuietBeforeTelemetry' /\ ResultInv' /\ ExitTellsTheTruth'
    BY <1>1, <1>3, <1>4, StageNames DEF StageInv, QuietBeforeTelemetry, ResultInv, ExitTellsTheTruth,
        Early, Late, Unstarted
<1>6. ThreadInv'
    BY <1>1 DEF ThreadInv
<1> QED BY <1>2, <1>5, <1>6

LEMMA StartupKeeps ==
    ASSUME RetentionInv, ProcessInv, NEW i \in 2 .. 6, NEW ok \in BOOLEAN, StartupStep(i, ok)
    PROVE  RetentionInv' /\ ProcessInv'
<1> USE DEF ProcessInv
<1>1. /\ UNCHANGED <<now, cancelled, rows, writes, due, task, passVars, spent, providers,
                     requests, refresher, server, drained, threads, unread, reported>>
      /\ ok => stage' = Startup[i + 1] /\ faults' = faults /\ result' = result
      /\ ~ok => stage' = "Closing" /\ faults' = faults \cup {"startup"} /\ result' = "Err"
      /\ stage = Startup[i]
    BY DEF StartupStep, Answered, telemetryVars
<1>2. /\ stage \in Early
      /\ ok => stage' \in Early \cup {"Serving"}
    <2>1. i = 2 \/ i = 3 \/ i = 4 \/ i = 5 \/ i = 6
        OBVIOUS
    <2> QED BY <1>1, <2>1, StageNames DEF Early
<1>3. Unstarted /\ result = None
    BY <1>2 DEF StageInv
<1>4. RetentionInv'
    BY <1>1, <1>3, QuietSteps DEF InPass, Unstarted
<1>5. StageInv' /\ QuietBeforeTelemetry'
    BY <1>1, <1>2, <1>3, StageNames DEF StageInv, QuietBeforeTelemetry, Early, Late, Unstarted
<1>6. ResultInv' /\ ExitTellsTheTruth'
    BY <1>1, <1>2, <1>3, LifecycleAssumption DEF ResultInv, ExitTellsTheTruth, Early, Late, Unstarted
<1>7. stage \notin {"Waiting", "Exited"} /\ stage' \notin {"Waiting", "Exited"}
    BY <1>1, <1>2 DEF Early
<1>8. ThreadInv'
    BY <1>1, <1>7 DEF ThreadInv
<1> QED BY <1>4, <1>5, <1>6, <1>8

\* The steps that leave main, the answer and telemetry where they are.
LEMMA SpawnKeeps == ASSUME RetentionInv, ProcessInv, SpawnBackground PROVE RetentionInv' /\ ProcessInv'
<1> USE DEF ProcessInv
<1>1. /\ stage = "Serving" /\ Spawn
      /\ UNCHANGED <<providers, stage, requests, server, drained, faults, result, telemetryVars>>
    BY DEF SpawnBackground
<1>2. RetentionInv'
    BY <1>1, AroundSteps
<1>3. task' # "Unborn"
    BY <1>1 DEF Spawn
<1>4. StageInv' /\ QuietBeforeTelemetry' /\ ResultInv' /\ ExitTellsTheTruth'
    BY <1>1, <1>3 DEF StageInv, QuietBeforeTelemetry, ResultInv, ExitTellsTheTruth, Early, Late
<1>5. ThreadInv'
    BY <1>1 DEF ThreadInv, telemetryVars
<1> QED BY <1>2, <1>4, <1>5

LEMMA RequestsKeep == ASSUME RetentionInv, ProcessInv, Accept \/ Finish PROVE RetentionInv' /\ ProcessInv'
<1> USE DEF ProcessInv
<1>1. /\ UNCHANGED <<retentionVars, providers, stage, refresher, server, drained, faults, result,
                     telemetryVars>>
      /\ requests' \in Nat
      /\ requests' > requests => stage = "Serving" /\ task # "Unborn"
      /\ requests' < requests => requests > 0
      /\ requests' # requests
    BY DEF Accept, Finish, StageInv
<1>2. RetentionInv'
    BY <1>1, StillSteps
<1>3. task' = task /\ (requests = 0 => stage = "Serving" /\ task # "Unborn")
    BY <1>1 DEF retentionVars, StageInv
<1>4. StageInv'
    BY <1>1, <1>3 DEF StageInv, Early, Unstarted
<1>5. QuietBeforeTelemetry' /\ ResultInv' /\ ExitTellsTheTruth'
    BY <1>1, <1>3 DEF StageInv, QuietBeforeTelemetry, ResultInv, ExitTellsTheTruth, Late, telemetryVars
<1>6. ThreadInv'
    BY <1>1 DEF ThreadInv, telemetryVars
<1> QED BY <1>2, <1>4, <1>5, <1>6

LEMMA RefresherKeeps ==
    ASSUME RetentionInv, ProcessInv, RefresherTakes \/ RefresherDone \/ RefresherStops
    PROVE  RetentionInv' /\ ProcessInv'
<1> USE DEF ProcessInv
<1>1. /\ UNCHANGED <<retentionVars, providers, stage, requests, server, drained, faults, result,
                     telemetryVars>>
      /\ refresher \in {"Waiting", "Busy"}
    BY DEF RefresherTakes, RefresherDone, RefresherStops, RefresherMoves
<1>2. RetentionInv'
    BY <1>1, StillSteps
<1>3. task' = task
    BY <1>1 DEF retentionVars
<1>4. StageInv' /\ QuietBeforeTelemetry' /\ ResultInv' /\ ExitTellsTheTruth'
    BY <1>1, <1>3 DEF StageInv, QuietBeforeTelemetry, ResultInv, ExitTellsTheTruth, Early, Late,
        Unstarted, telemetryVars
<1>5. ThreadInv'
    BY <1>1 DEF ThreadInv, telemetryVars
<1> QED BY <1>2, <1>4, <1>5

\* The cancellation, and what main then waits for.
LEMMA CancelKeeps ==
    ASSUME RetentionInv, ProcessInv, ShutdownSignal \/ \E ok \in BOOLEAN : ServerStops(ok)
    PROVE  RetentionInv' /\ ProcessInv'
<1> USE DEF ProcessInv
<1>1. /\ stage = "Serving" /\ task # "Unborn" /\ Signal
      /\ UNCHANGED <<providers, requests, refresher, drained, result, threads, unread, reported>>
      /\ \/ stage' = "Draining" /\ UNCHANGED <<server, faults>>
         \/ stage' = "Joining" /\ server' = "Stopped" /\ faults' \subseteq faults \cup {"server"}
    BY DEF ShutdownSignal, ServerStops, telemetryVars
<1>2. RetentionInv'
    BY <1>1, AroundSteps
<1>3. StageInv' /\ QuietBeforeTelemetry' /\ ResultInv' /\ ExitTellsTheTruth'
    BY <1>1, StageNames DEF StageInv, QuietBeforeTelemetry, ResultInv, ExitTellsTheTruth, Early, Late
<1>4. ThreadInv'
    BY <1>1 DEF ThreadInv
<1> QED BY <1>2, <1>3, <1>4

LEMMA DrainsKeeps ==
    ASSUME RetentionInv, ProcessInv, NEW ok \in BOOLEAN, ServerDrains(ok)
    PROVE  RetentionInv' /\ ProcessInv'
<1> USE DEF ProcessInv
<1>1. /\ stage = "Draining" /\ requests = 0 /\ server' = "Drained"
      /\ faults' \subseteq faults \cup {"server"}
      /\ UNCHANGED <<retentionVars, providers, stage, requests, refresher, drained, result, telemetryVars>>
    BY DEF ServerDrains
<1>2. RetentionInv'
    BY <1>1, StillSteps
<1>3. StageInv' /\ QuietBeforeTelemetry' /\ ResultInv' /\ ExitTellsTheTruth'
    BY <1>1 DEF StageInv, QuietBeforeTelemetry, ResultInv, ExitTellsTheTruth, Early, Late
<1>4. ThreadInv'
    BY <1>1 DEF ThreadInv, telemetryVars
<1> QED BY <1>2, <1>3, <1>4

LEMMA JoinedKeeps ==
    ASSUME RetentionInv, ProcessInv, Join \/ DrainCompletes PROVE RetentionInv' /\ ProcessInv'
<1> USE DEF ProcessInv
<1>1. /\ stage \in {"Joining", "Draining"} /\ BackgroundOver
      /\ stage = "Draining" => server = "Drained"
      /\ Joined("server" \notin faults)
      /\ UNCHANGED <<retentionVars, providers, requests, refresher, server, telemetryVars>>
    BY DEF Join, DrainCompletes
<1>2. RetentionInv'
    BY <1>1, StillSteps
<1>3. task' = task /\ stage' = "Closing"
    BY <1>1 DEF retentionVars, Joined, Answered
<1>4. StageInv'
    BY <1>1, <1>3, StageNames DEF StageInv, Early, Late
<1>5. QuietBeforeTelemetry'
    BY <1>1, <1>3 DEF QuietBeforeTelemetry, BackgroundOver, StageInv
<1>6. ResultInv'
    BY <1>1, LifecycleAssumption DEF ResultInv, Joined, Answered, StageInv
<1>7. ThreadInv' /\ ExitTellsTheTruth'
    BY <1>1, <1>3 DEF ThreadInv, ExitTellsTheTruth, telemetryVars
<1> QED BY <1>2, <1>4, <1>5, <1>6, <1>7

LEMMA TimeOutKeeps == ASSUME RetentionInv, ProcessInv, DrainTimesOut PROVE RetentionInv' /\ ProcessInv'
<1> USE DEF ProcessInv
<1>1. /\ stage = "Draining" /\ stage' = "Closing" /\ drained' = "TimedOut" /\ result' = "Ok"
      /\ UNCHANGED <<retentionVars, providers, requests, refresher, server, faults, telemetryVars>>
    BY DEF DrainTimesOut, Answered
<1>2. RetentionInv'
    BY <1>1, StillSteps
<1>3. StageInv' /\ QuietBeforeTelemetry' /\ ResultInv'
    BY <1>1, StageNames DEF StageInv, QuietBeforeTelemetry, ResultInv, Early, Late
<1>4. ThreadInv' /\ ExitTellsTheTruth'
    BY <1>1 DEF ThreadInv, ExitTellsTheTruth, telemetryVars
<1> QED BY <1>2, <1>3, <1>4

LEMMA AbortKeeps == ASSUME RetentionInv, ProcessInv, BackgroundAborts PROVE RetentionInv' /\ ProcessInv'
<1> USE DEF ProcessInv
<1>1. /\ drained = "TimedOut" /\ (Abort \/ (task = "Returned" /\ UNCHANGED retentionVars))
      /\ UNCHANGED <<providers, stage, requests, server, drained, faults, result, telemetryVars>>
    BY DEF BackgroundAborts, Aborting
<1>2. RetentionInv'
    BY <1>1, AroundSteps, StillSteps
<1>3. stage \in Late
    BY <1>1, StageNames, LifecycleAssumption DEF StageInv, Unstarted
<1>4. StageInv' /\ QuietBeforeTelemetry' /\ ResultInv' /\ ExitTellsTheTruth'
    BY <1>1, <1>3 DEF StageInv, QuietBeforeTelemetry, ResultInv, ExitTellsTheTruth, Early, Late, telemetryVars
<1>5. ThreadInv'
    BY <1>1 DEF ThreadInv, telemetryVars
<1> QED BY <1>2, <1>4, <1>5

\* The providers' threads.
LEMMA CloseKeeps ==
    ASSUME RetentionInv, ProcessInv, NEW S \in SUBSET Providers, CloseTelemetry(S)
    PROVE  RetentionInv' /\ ProcessInv'
<1> USE DEF ProcessInv
<1>1. /\ stage = "Closing" /\ stage' = "Waiting" /\ S \subseteq providers
      /\ threads' = [p \in Providers |-> IF p \in S THEN "Unspawned"
                                         ELSE IF p \in providers THEN "Running" ELSE "Idle"]
      /\ reported' = [p \in Providers |-> reported[p] + IF p \in S THEN 1 ELSE 0]
      /\ UNCHANGED <<retentionVars, providers, requests, refresher, server, drained, faults,
                     result, unread>>
    BY DEF CloseTelemetry, Report
<1>2. RetentionInv'
    BY <1>1, StillSteps
<1>3. task' = task
    BY <1>1 DEF retentionVars
<1>4. StageInv' /\ QuietBeforeTelemetry' /\ ResultInv' /\ ExitTellsTheTruth'
    BY <1>1, <1>3, StageNames DEF StageInv, QuietBeforeTelemetry, ResultInv, ExitTellsTheTruth, Early, Late
<1>5. ThreadInv'
    <2>1. unread = {} /\ reported = [p \in Providers |-> 0] /\ providers \subseteq Providers
        BY <1>1 DEF ThreadInv
    <2>2. \A p \in Providers : reported'[p] = IF p \in S THEN 1 ELSE 0
        BY <1>1, <2>1
    <2>3. reported' \in [Providers -> Nat]
        BY <1>1, <2>1
    <2> QED BY <1>1, <2>1, <2>2, <2>3 DEF ThreadInv
<1> QED BY <1>2, <1>4, <1>5

LEMMA ThreadsKeep ==
    ASSUME RetentionInv, ProcessInv,
           \E p \in Providers : Receive(p) \/ \E how \in {"Done", "Failed"} : ThreadEnds(p, how)
    PROVE  RetentionInv' /\ ProcessInv'
<1> USE DEF ProcessInv
<1>1. stage = "Waiting" /\ UNCHANGED <<retentionVars, serviceVars, code>>
    BY DEF Receive, ThreadEnds
<1>2. RetentionInv'
    BY <1>1, StillSteps
<1>3. UNCHANGED <<task, stage, providers, requests, refresher, server, drained, faults, result>>
    BY <1>1 DEF retentionVars, serviceVars
<1>4. StageInv' /\ QuietBeforeTelemetry' /\ ResultInv' /\ ExitTellsTheTruth'
    BY <1>1, <1>3 DEF StageInv, QuietBeforeTelemetry, ResultInv, ExitTellsTheTruth, Early, Late, Unstarted
<1>5. ThreadInv'
    <2>1. ASSUME NEW p \in Providers, NEW how \in {"Done", "Failed"}, ThreadEnds(p, how)
          PROVE  ThreadInv'
        BY <1>1, <1>3, <2>1 DEF ThreadInv, ThreadEnds
    <2>2. ASSUME NEW p \in Providers, Receive(p) PROVE ThreadInv'
        <3>1. \A q \in Providers :
                  reported'[q] = reported[q] + (IF q = p /\ threads[p] = "Failed" THEN 1 ELSE 0)
            BY <2>2 DEF Receive, Report, ThreadInv
        <3>2. reported' \in [Providers -> Nat]
            <4>1. reported' = [q \in Providers |-> reported'[q]]
                BY <2>2 DEF Receive, Report
            <4> QED BY <3>1, <4>1 DEF ThreadInv
        <3>3. p \in unread /\ unread' = unread \ {p} /\ threads' = threads
            BY <2>2 DEF Receive
        <3> QED BY <1>1, <1>3, <3>1, <3>2, <3>3 DEF ThreadInv
    <2> QED BY <2>1, <2>2
<1> QED BY <1>2, <1>4, <1>5

LEMMA ExitKeeps == ASSUME RetentionInv, ProcessInv, Exit PROVE RetentionInv' /\ ProcessInv'
<1> USE DEF ProcessInv
<1>1. /\ stage = "Waiting" /\ stage' = "Exited" /\ Report(Pending)
      /\ code' = IF result = "Ok" THEN "Success" ELSE "Failure"
      /\ UNCHANGED <<retentionVars, providers, requests, refresher, server, drained, faults,
                     result, threads, unread>>
    BY DEF Exit
<1>2. RetentionInv'
    BY <1>1, StillSteps
<1>3. task' = task
    BY <1>1 DEF retentionVars
<1>4. StageInv' /\ QuietBeforeTelemetry' /\ ResultInv'
    BY <1>1, <1>3, StageNames DEF StageInv, QuietBeforeTelemetry, ResultInv, Early, Late
<1>5. \A p \in Providers : reported'[p] = reported[p] + (IF p \in Pending THEN 1 ELSE 0)
    BY <1>1 DEF Report
<1>6. ThreadInv'
    <2>1. reported' \in [Providers -> Nat]
        BY <1>1, <1>5 DEF Report, ThreadInv
    <2> QED BY <1>1, <2>1 DEF ThreadInv
<1>7. ExitTellsTheTruth'
    <2>1. \A p \in providers : reported'[p] = IF threads[p] = "Done" /\ p \notin unread THEN 0 ELSE 1
        BY <1>1, <1>5 DEF ThreadInv, Pending
    <2>2. result # None => (code' = "Success" <=> (drained = "TimedOut" \/ faults = {}))
        BY <1>1 DEF ResultInv, Late
    <2> QED BY <1>1, <2>1, <2>2 DEF ExitTellsTheTruth
<1> QED BY <1>2, <1>4, <1>6, <1>7

\* The steps of Retention's own world.
LEMMA WorldKeeps ==
    ASSUME RetentionInv, ProcessInv, RetentionRuns \/ WorldGoesOn
    PROVE  RetentionInv' /\ ProcessInv'
<1> USE DEF ProcessInv
<1>1. UNCHANGED <<serviceVars, telemetryVars>>
    BY DEF RetentionRuns, WorldGoesOn
<1>2. RetentionInv'
    BY PassSteps, AroundSteps DEF RetentionRuns, WorldGoesOn
<1>3. UNCHANGED <<stage, providers, requests, refresher, server, drained, faults, result, threads,
                  unread, reported, code>>
    BY <1>1 DEF serviceVars, telemetryVars
<1>4. task' = task \/ (task \in {"Waiting", "Pruning", "Batch", "Finished"} /\ task' # "Unborn")
    <2>1. CASE RetentionRuns
        BY <2>1 DEF RetentionRuns, RetentionStep, StartPass, EndPass, Stop, SkipStore, CancelStore,
                    BeginBatch, BatchFails, EndBatch, Answer
    <2>2. CASE WorldGoesOn
        BY <2>2 DEF WorldGoesOn, Tick, Insert, Refresh
    <2> QED BY <2>1, <2>2
<1>5. StageInv' /\ QuietBeforeTelemetry' /\ ResultInv' /\ ExitTellsTheTruth' /\ ThreadInv'
    BY <1>3, <1>4 DEF StageInv, QuietBeforeTelemetry, ResultInv, ExitTellsTheTruth, ThreadInv,
                      Unstarted
<1> QED BY <1>2, <1>5

LEMMA StepKeeps == RetentionInv /\ ProcessInv /\ [Next]_vars => RetentionInv' /\ ProcessInv'
<1> SUFFICES ASSUME RetentionInv, ProcessInv, [Next]_vars PROVE RetentionInv' /\ ProcessInv'
    OBVIOUS
<1>1. ASSUME UNCHANGED vars PROVE RetentionInv' /\ ProcessInv'
    <2>1. UNCHANGED retentionVars /\ UNCHANGED <<stage, providers, requests, refresher, server,
              drained, faults, result, threads, unread, reported, code>>
        BY <1>1 DEF vars, serviceVars, telemetryVars
    <2>2. task' = task
        BY <2>1 DEF retentionVars
    <2> QED BY <2>1, <2>2, StillSteps DEF ProcessInv, StageInv, QuietBeforeTelemetry, ResultInv,
            ExitTellsTheTruth, ThreadInv, Unstarted
<1> QED BY <1>1, LoadKeeps, TelemetryKeeps, StartupKeeps, SpawnKeeps, RequestsKeep, CancelKeeps,
        RefresherKeeps, JoinedKeeps, DrainsKeeps, TimeOutKeeps, AbortKeeps, CloseKeeps, ThreadsKeep,
        ExitKeeps, WorldKeeps DEF Next, Over

LEMMA InvAlways == Spec => [](RetentionInv /\ ProcessInv)
<1> QED BY InitProcessInv, StepKeeps, PTL DEF Spec

\* However many batches and failures a pass goes through, one that reports success has
\* deleted every row that had expired when it began (run_retention_pass).
THEOREM SuccessIsComplete == Spec => []SuccessMeansEmptied
<1>1. RetentionInv => SuccessMeansEmptied
    BY DEF RetentionInv
<1> QED BY <1>1, InvAlways, PTL

\* The outcome on the span of a pass tells what its stores answered, whichever of them
\* failed and whenever the cancellation came (RetentionPassOutcome::combine).
THEOREM OutcomeTellsAll == Spec => []OutcomeIsTrue
<1>1. RetentionInv => OutcomeIsTrue
    BY DEF RetentionInv
<1> QED BY <1>1, InvAlways, PTL

\* After the shutdown signal no more than one batch is deleted (prune_store).
THEOREM CancelStopsPruning == Spec => []OneBatchAfterCancel
<1>1. RetentionInv => OneBatchAfterCancel
    BY DEF RetentionInv, SpentInv, OneBatchAfterCancel
<1> QED BY <1>1, InvAlways, PTL

\* Unless the drain ran out of time, nothing that reports to telemetry is left when it is
\* shut down (serve_router_with_background_shutdown, main).
THEOREM TelemetryOutlivesWork == Spec => []QuietBeforeTelemetry
<1>1. ProcessInv => QuietBeforeTelemetry
    BY DEF ProcessInv
<1> QED BY <1>1, InvAlways, PTL

\* The exit code is the service's, and each provider's trouble is reported exactly once
\* (main, TelemetryRuntime::shutdown).
THEOREM ExitIsTruthful == Spec => []ExitTellsTheTruth
<1>1. ProcessInv => ExitTellsTheTruth
    BY DEF ProcessInv
<1> QED BY <1>1, InvAlways, PTL

-------------------------------------------------------------------------------
(* The ticker *)

\* A number of full intervals, and what is left.
LEMMA Division ==
    ASSUME NEW a \in Nat, NEW m \in Nat \ {0}
    PROVE  /\ a \div m \in Nat /\ a % m \in 0 .. m - 1
           /\ a = m * (a \div m) + (a % m)
OBVIOUS

LEMMA SlotBelow ==
    ASSUME NEW a \in Nat, NEW m \in Nat \ {0}, NEW k \in Nat, a < m * k
    PROVE  a \div m < k
OBVIOUS

LEMMA SlotAbove ==
    ASSUME NEW a \in Nat, NEW m \in Nat \ {0}, NEW k \in Nat, a >= m * k
    PROVE  a \div m >= k
OBVIOUS

Configured == {"Telemetry", "Database", "GitHub", "Gauge", "Retention"}

\* The ticker is at a whole number of intervals from the start, after the last pass began.
TickerInv ==
    /\ now \in Nat /\ now >= Start
    /\ task = "Unborn" => now = Start /\ started = None
    /\ stage \in Configured => settings.interval \in Nat \ {0}
    /\ stage \in {"Bind", "Serving"} \/ task # "Unborn" => limits.interval \in Nat \ {0}
    /\ task \notin {"Unborn", "Panicked"} =>
           \E k \in Nat \ {0} :
               /\ due = Start + limits.interval * k
               /\ started # None => started \in Nat /\ started >= Start
                                    /\ started - Start < limits.interval * k


LEMMA InitTicker == Init => TickerInv
<1> SUFFICES ASSUME Init PROVE TickerInv
    OBVIOUS
<1>1. now = Start /\ task = "Unborn" /\ started = None
    BY DEF Init, InitRetention
<1>2. Start \in Nat
    BY RetentionAssumption
<1> QED BY <1>1, <1>2 DEF Init, TickerInv, Configured

\* What a step that takes no part in the schedule must leave alone.
LEMMA TickerStill ==
    ASSUME TickerInv, UNCHANGED <<now, limits, due, started, settings>>,
           stage' \in Configured => stage \in Configured,
           stage' \in {"Bind", "Serving"} => stage \in {"Bind", "Serving"} \/ task # "Unborn",
           task' = task \/ (task # "Unborn" /\ task' # "Unborn"),
           task' \notin {"Unborn", "Panicked"} => task \notin {"Unborn", "Panicked"}
    PROVE  TickerInv'
BY DEF TickerInv

LEMMA LoadTicker == ASSUME TickerInv, Load PROVE TickerInv'
<1>1. UNCHANGED <<now, limits, due, started, task>> /\ stage = "Loading"
      /\ stage' \in {"Telemetry", "Exited"}
    BY DEF Load, retentionVars
<1>2. stage' = "Telemetry" => settings'.interval \in Nat \ {0}
    <2> DEFINE v == "GHE_DELIVERY_PRUNE_INTERVAL_SECONDS"
    <2> SUFFICES ASSUME stage' = "Telemetry" PROVE settings'.interval \in Nat \ {0}
        OBVIOUS
    <2>1. Accepted(env) /\ settings' = Settings(env)
        BY DEF Load
    <2>2. v \in Numeric
        BY DEF Numeric
    <2>3. Positive(env, v)
        BY <2>1, <2>2 DEF Accepted
    <2>4. Default[v] \in 1 .. U64 /\ U64 \in Nat /\ Cap(v) = U64
        BY <2>2, ConfigurationAssumption DEF Cap
    <2>5. Number(env, v) \in Nat \ {0}
        BY <2>3, <2>4 DEF Positive, Number
    <2> QED BY <2>1, <2>5 DEF Settings
<1> QED BY <1>1, <1>2 DEF TickerInv, Configured

LEMMA StartupTicker ==
    ASSUME TickerInv, ProcessInv, NEW i \in 2 .. 6, NEW ok \in BOOLEAN, StartupStep(i, ok)
    PROVE  TickerInv'
<1>1. UNCHANGED <<now, due, started, task>> /\ stage = Startup[i]
    BY DEF StartupStep, passVars
<1>2. stage \in {"Database", "GitHub", "Gauge", "Retention", "Bind"} /\ task = "Unborn"
    BY <1>1, StageNames DEF ProcessInv, StageInv, Early, Unstarted
<1>3. stage' = "Closing" \/ (ok /\ stage' = Startup[i + 1])
    BY DEF StartupStep, Answered
<1>4. stage' \in Configured => stage \in Configured \ {"Retention"}
    BY <1>1, <1>3, StageNames DEF Configured
<1>5. stage' \in Configured => settings' = settings
    BY <1>4 DEF StartupStep
<1>6. stage' \in {"Bind", "Serving"} =>
          \/ stage = "Bind" /\ limits' = limits
          \/ stage = "Retention" /\ limits'.interval = settings.interval
    BY <1>1, <1>3, StageNames DEF StartupStep
<1> QED BY <1>1, <1>2, <1>4, <1>5, <1>6 DEF TickerInv, Configured

LEMMA SpawnTicker == ASSUME TickerInv, SpawnBackground PROVE TickerInv'
<1>1. /\ UNCHANGED <<now, limits, started, settings, stage>> /\ stage = "Serving"
      /\ task = "Unborn"
      /\ \/ task' = "Panicked"
         \/ task' = "Waiting" /\ due' = now + limits.interval
    BY DEF SpawnBackground, Spawn, passVars
<1>2. limits.interval \in Nat \ {0} /\ now = Start /\ started = None /\ Start \in Nat
    BY <1>1, RetentionAssumption DEF TickerInv
<1>3. task' = "Waiting" =>
          due' = Start + limits'.interval * 1 /\ started' = None
    BY <1>1, <1>2
<1>4. 1 \in Nat \ {0}
    OBVIOUS
<1>5. task' = "Waiting" =>
          \E k \in Nat \ {0} : /\ due' = Start + limits'.interval * k
                               /\ started' = None
    BY <1>3, <1>4
<1> QED BY <1>1, <1>2, <1>5 DEF TickerInv, Configured

\* A pass begins in a later interval than the one before it, and the ticker is set to the next.
LEMMA PassTicker ==
    ASSUME TickerInv, StartPass, UNCHANGED <<stage, settings>>
    PROVE  /\ TickerInv'
           /\ Slot(now) > (IF started = None THEN 0 ELSE Slot(started))
<1> DEFINE m == limits.interval
<1>1. /\ task = "Waiting" /\ task' = "Pruning" /\ now >= due /\ due' = NextTick(due)
      /\ started' = now /\ UNCHANGED <<now, limits>>
    BY DEF StartPass
<1>2. m \in Nat \ {0} /\ Start \in Nat /\ now \in Nat /\ now >= Start
    BY <1>1, RetentionAssumption DEF TickerInv
<1>3. PICK k \in Nat \ {0} :
          /\ due = Start + m * k
          /\ started # None => started \in Nat /\ started >= Start /\ started - Start < m * k
    BY <1>1 DEF TickerInv
<1>4. m * k \in Nat /\ due \in Nat
    BY <1>2, <1>3
<1>5. now - Start \in Nat /\ now - Start >= m * k /\ now - due \in Nat
    BY <1>1, <1>2, <1>3, <1>4
<1>6. Slot(now) >= k
    BY <1>2, <1>5, SlotAbove DEF Slot
<1>7. started # None => Slot(started) < k
    BY <1>2, <1>3, SlotBelow DEF Slot
<1>8. Slot(now) > (IF started = None THEN 0 ELSE Slot(started))
    <2>1. (now - Start) \div m \in Nat
        BY <1>2, <1>5, Division
    <2>2. started # None => (started - Start) \div m \in Nat
        <3>1. ASSUME started # None PROVE started - Start \in Nat
            BY <1>2, <1>3, <3>1
        <3> QED BY <1>2, <3>1, Division
    <2>3. Slot(now) \in Nat /\ (started # None => Slot(started) \in Nat)
        BY <2>1, <2>2 DEF Slot
    <2> QED BY <1>3, <1>6, <1>7, <2>3
<1> DEFINE q == (now - due) \div m
<1>9. /\ q \in Nat /\ (now - due) % m \in 0 .. m - 1
      /\ now - due = m * q + ((now - due) % m)
    BY <1>2, <1>5, Division
<1>10. due' = now + m - ((now - due) % m)
    BY <1>1 DEF NextTick
<1>11. m * (k + q + 1) = m * k + m * q + m
    BY <1>2, <1>9
<1>12. m * q \in Nat
    BY <1>2, <1>9
<1>13. due' = Start + m * (k + q + 1)
    <2> DEFINE r == (now - due) % m
               mk == m * k
               mq == m * q
               sum == m * (k + q + 1)
    <2>1. /\ m \in Nat /\ Start \in Nat /\ now \in Nat /\ r \in Nat /\ mk \in Nat /\ mq \in Nat
          /\ due = Start + mk /\ now - due = mq + r /\ due' = now + m - r
          /\ sum = mk + mq + m
        BY <1>2, <1>3, <1>4, <1>9, <1>10, <1>11, <1>12
    <2> HIDE DEF r, mk, mq, sum
    <2>2. due' = Start + sum
        BY <2>1
    <2> QED BY <2>2 DEF sum
<1>14. now - Start < m * (k + q + 1)
    BY <1>2, <1>3, <1>4, <1>9, <1>11, <1>12
<1>15. k + q + 1 \in Nat \ {0}
    BY <1>9
<1>16. \E j \in Nat \ {0} : due' = Start + m * j /\ started' \in Nat /\ started' >= Start
                            /\ started' - Start < m * j
    BY <1>1, <1>2, <1>13, <1>14, <1>15
<1>17. TickerInv'
    BY <1>1, <1>2, <1>16 DEF TickerInv, Configured
<1> QED BY <1>8, <1>17

\* Every other step: what it does to the variables of the schedule.
LEMMA StageTicker ==
    ASSUME TickerInv, ProcessInv,
           \/ \E ok \in BOOLEAN : InitTelemetry(ok) \/ ServerStops(ok) \/ ServerDrains(ok)
           \/ Accept \/ Finish \/ ShutdownSignal \/ RefresherTakes \/ RefresherDone
           \/ RefresherStops \/ Join \/ DrainCompletes \/ DrainTimesOut \/ Exit
           \/ \E S \in SUBSET Providers : CloseTelemetry(S)
    PROVE  TickerInv' /\ task' = task
<1>1. UNCHANGED <<now, limits, due, started, task>> /\ settings' = settings
    <2>1. UNCHANGED retentionVars \/ Signal
        BY DEF InitTelemetry, ServerStops, ServerDrains, Accept, Finish, ShutdownSignal, RefresherTakes,
               RefresherDone, RefresherStops, RefresherMoves, Join, DrainCompletes, DrainTimesOut,
               Exit, CloseTelemetry
    <2>2. settings' = settings
        BY DEF InitTelemetry, ServerStops, ServerDrains, Accept, Finish, ShutdownSignal, RefresherTakes,
               RefresherDone, RefresherStops, RefresherMoves, Join, DrainCompletes, DrainTimesOut,
               Exit, CloseTelemetry
    <2> QED BY <2>1, <2>2 DEF retentionVars, Signal, passVars
<1>2. stage' = stage \/ stage' \in Late \cup {"Draining", "Joining"} \/ (stage = "Telemetry" /\ stage' = "Database")
    BY DEF InitTelemetry, ServerStops, ServerDrains, Accept, Finish, ShutdownSignal, RefresherTakes,
           RefresherDone, RefresherStops, RefresherMoves, Join, DrainCompletes, DrainTimesOut,
           Exit, CloseTelemetry, Joined, Answered, Late
<1> QED BY <1>1, <1>2, TickerStill DEF Configured, Late

LEMMA AroundTicker ==
    ASSUME TickerInv, ProcessInv, BackgroundAborts \/ RetentionRuns \/ WorldGoesOn, ~StartPass
    PROVE  TickerInv' /\ ~(task = "Waiting" /\ task' = "Pruning")
<1>1. UNCHANGED <<stage, settings>>
    BY DEF BackgroundAborts, RetentionRuns, WorldGoesOn, serviceVars
<1>2. CASE Tick /\ task # "Unborn"
    <2>1. /\ UNCHANGED <<limits, due, started, stage, settings, task>> /\ task # "Unborn"
          /\ now' = now + 1 /\ Start \in Nat
        BY <1>1, <1>2, RetentionAssumption DEF Tick, passVars
    <2> QED BY <2>1 DEF TickerInv
<1>3. CASE ~Tick
    <2>1. /\ UNCHANGED <<now, limits, due, started>>
          /\ \/ task' = task
             \/ task \notin {"Unborn", "Panicked"} /\ task' # "Unborn"
          /\ ~(task = "Waiting" /\ task' = "Pruning")
        <3>1. CASE RetentionRuns
            BY <3>1 DEF RetentionRuns, RetentionStep, EndPass, Stop, SkipStore, CancelStore,
                        BeginBatch, BatchFails, EndBatch, Answer, passVars
        <3>2. CASE WorldGoesOn
            BY <1>3, <3>2 DEF WorldGoesOn, Insert, Refresh, passVars
        <3>3. CASE BackgroundAborts
            BY <3>3 DEF BackgroundAborts, Abort, retentionVars
        <3> QED BY <3>1, <3>2, <3>3
    <2> QED BY <1>1, <2>1, TickerStill
<1>4. Tick => task # "Unborn"
    BY DEF Tick, BackgroundAborts, Abort, RetentionRuns, RetentionStep, EndPass, Stop, SkipStore,
           CancelStore, BeginBatch, BatchFails, EndBatch, retentionVars, WorldGoesOn
<1>5. Tick => task' = task
    BY DEF Tick
<1> QED BY <1>2, <1>3, <1>4, <1>5

LEMMA TickerStep ==
    ASSUME TickerInv, ProcessInv, [Next]_vars
    PROVE  /\ TickerInv'
           /\ task = "Waiting" /\ task' = "Pruning" =>
                  Slot(now) > (IF started = None THEN 0 ELSE Slot(started))
<1>1. CASE UNCHANGED vars
    <2>1. UNCHANGED <<now, limits, due, started, task, stage, settings>>
        BY <1>1 DEF vars, retentionVars, serviceVars
    <2> QED BY <2>1, TickerStill
<1>2. CASE Load
    <2>1. task' = task
        BY <1>2 DEF Load, retentionVars
    <2> QED BY <1>2, <2>1, LoadTicker
<1>3. ASSUME NEW i \in 2 .. 6, NEW ok \in BOOLEAN, StartupStep(i, ok)
      PROVE  TickerInv' /\ task' = task
    BY <1>3, StartupTicker DEF StartupStep
<1>4. CASE SpawnBackground
    BY <1>4, SpawnTicker DEF SpawnBackground, Spawn
<1>5. ASSUME NEW p \in Providers, Receive(p) \/ \E how \in {"Done", "Failed"} : ThreadEnds(p, how)
      PROVE  TickerInv' /\ task' = task
    <2>1. UNCHANGED <<now, limits, due, started, task, stage, settings>>
        BY <1>5 DEF Receive, ThreadEnds, retentionVars, serviceVars
    <2> QED BY <2>1, TickerStill
<1>6. CASE RetentionRuns /\ StartPass
    <2>1. UNCHANGED <<stage, settings>>
        BY <1>6 DEF RetentionRuns, serviceVars
    <2> QED BY <1>6, <2>1, PassTicker
<1>7. CASE (BackgroundAborts \/ RetentionRuns \/ WorldGoesOn) /\ ~StartPass
    BY <1>7, AroundTicker
<1>8. ~(StartPass /\ (BackgroundAborts \/ WorldGoesOn))
    BY DEF StartPass, BackgroundAborts, Abort, WorldGoesOn, Tick, Insert, Refresh, retentionVars
<1> QED BY <1>1, <1>2, <1>3, <1>4, <1>5, <1>6, <1>7, <1>8, StageTicker DEF Next, Over

\* Whatever a pass takes, a pass begins in a later interval than the one before it
\* (run_retention, MissedTickBehavior::Skip).
THEOREM TicksAreSkipped == Spec => OnePassPerInterval
<1>1. TickerInv /\ ProcessInv /\ [Next]_vars => TickerInv'
    BY TickerStep
<1>2. TickerInv /\ ProcessInv /\ [Next]_vars =>
          [task = "Waiting" /\ task' = "Pruning" =>
               Slot(now) > (IF started = None THEN 0 ELSE Slot(started))]_retentionVars
    BY TickerStep
<1> QED BY InitTicker, InvAlways, <1>1, <1>2, PTL DEF Spec, OnePassPerInterval

-------------------------------------------------------------------------------
(* The configuration *)

\* A number that is accepted is positive and within its variable's cap or default.
LEMMA NumberRange ==
    ASSUME NEW e, NEW v \in Numeric, Positive(e, v)
    PROVE  Number(e, v) \in Nat \ {0} /\ (Number(e, v) \in 1 .. Cap(v) \/ Number(e, v) = Default[v])
<1>1. Default[v] \in Nat \ {0}
    BY ConfigurationAssumption
<1>2. CASE Given(e, v)
    BY <1>2 DEF Number, Positive
<1>3. CASE ~Given(e, v)
    BY <1>1, <1>3 DEF Number
<1> QED BY <1>2, <1>3

LEMMA AcceptedRuns ==
    ASSUME NEW e, Accepted(e)
    PROVE  Runnable(Settings(e), TelemetrySettings(e))
<1> DEFINE batch == Number(e, "GHE_OTEL_BATCH_SIZE")
           capacity == Number(e, "GHE_OTEL_QUEUE_CAPACITY")
           ttl == Number(e, "GHE_REQUIRED_CHECK_TTL_SECONDS")
           interval == Number(e, "GHE_DELIVERY_PRUNE_INTERVAL_SECONDS")
           days == Number(e, "GHE_DELIVERY_RETENTION_DAYS")
           queueDays == Number(e, "GHE_MERGE_QUEUE_RETENTION_DAYS")
<1>1. \A v \in Numeric : Positive(e, v)
    BY DEF Accepted
<1>2. /\ batch \in Nat \ {0} /\ capacity \in Nat \ {0} /\ interval \in Nat \ {0}
      /\ days \in Nat \ {0} /\ queueDays \in Nat \ {0}
    BY <1>1, NumberRange DEF Numeric
<1>3. ttl \in Nat \ {0} /\ ttl <= Day
    <2>1. "GHE_REQUIRED_CHECK_TTL_SECONDS" \in Numeric /\ Cap("GHE_REQUIRED_CHECK_TTL_SECONDS") = Day
        BY DEF Numeric, Cap
    <2> QED BY <1>1, <2>1, NumberRange, ConfigurationAssumption
<1>4. Day \in Nat \ {0}
    BY ConfigurationAssumption
<1>5. days * Day >= Day /\ queueDays * Day >= Day /\ days * Day \in Nat /\ queueDays * Day \in Nat
    BY <1>2, <1>4
<1>6. batch <= capacity /\ (Given(e, "SENTRY_DSN") => Endpoint(e, "OTEL_EXPORTER_OTLP_TRACES_ENDPOINT") # "none")
    BY DEF Accepted, TelemetryAccepted
<1> HIDE DEF batch, capacity, ttl, interval, days, queueDays
<1>7. /\ TelemetrySettings(e).batch = batch /\ TelemetrySettings(e).capacity = capacity
      /\ TelemetrySettings(e).sentry = Given(e, "SENTRY_DSN")
      /\ TelemetrySettings(e).trace.endpoint = Endpoint(e, "OTEL_EXPORTER_OTLP_TRACES_ENDPOINT")
    BY DEF TelemetrySettings, Exporter, batch, capacity
<1>8. /\ Settings(e).ttl = ttl /\ Settings(e).interval = interval
      /\ Settings(e).delivery = days * Day /\ Settings(e).merge_queue = queueDays * Day
    BY DEF Settings, ttl, interval, days, queueDays
<1> QED BY <1>2, <1>3, <1>4, <1>5, <1>6, <1>7, <1>8 DEF Runnable

LEMMA AcceptedHonours ==
    ASSUME NEW e, Accepted(e)
    PROVE  Honoured(e, Settings(e), TelemetrySettings(e))
<1>1. AppParts(e) # {TRUE, FALSE}
    BY DEF Accepted, AppAccepted
<1>2. App(e) <=> \/ Given(e, "GHE_GITHUB_APP_ID") \/ Given(e, "GHE_GITHUB_APP_INSTALLATION_ID")
                 \/ Given(e, "GHE_GITHUB_APP_PRIVATE_KEY_PATH") \/ Given(e, "GHE_GITHUB_APP_PRIVATE_KEY")
    BY <1>1, Zenon DEF App, AppParts, HasKey, Given
<1>3. ASSUME NEW v, Given(e, v) PROVE SignalHeaders(e, v) # "generic"
    BY <1>3 DEF SignalHeaders, Source
<1>4. Settings(e).app = App(e)
    BY DEF Settings
<1>5. /\ TelemetrySettings(e).trace.headers = SignalHeaders(e, "OTEL_EXPORTER_OTLP_TRACES_HEADERS")
      /\ TelemetrySettings(e).log.headers = SignalHeaders(e, "OTEL_EXPORTER_OTLP_LOGS_HEADERS")
    BY DEF TelemetrySettings, Exporter
<1> QED BY <1>2, <1>3, <1>4, <1>5, Zenon DEF Honoured

\* What startup reads of the settings, until RetentionConfig::new has taken them.
SettingsInv ==
    stage \in Configured => /\ settings.interval \in Nat \ {0}
                            /\ settings.delivery \in Nat \ {0}
                            /\ settings.merge_queue \in Nat \ {0}

LEMMA AcceptedSettings ==
    ASSUME NEW e, Accepted(e)
    PROVE  /\ Settings(e).interval \in Nat \ {0}
           /\ Settings(e).delivery \in Nat \ {0}
           /\ Settings(e).merge_queue \in Nat \ {0}
<1> DEFINE interval == Number(e, "GHE_DELIVERY_PRUNE_INTERVAL_SECONDS")
           days == Number(e, "GHE_DELIVERY_RETENTION_DAYS")
           queueDays == Number(e, "GHE_MERGE_QUEUE_RETENTION_DAYS")
<1>1. interval \in Nat \ {0} /\ days \in Nat \ {0} /\ queueDays \in Nat \ {0}
    BY NumberRange DEF Accepted, Numeric
<1>2. /\ Settings(e).interval = interval
      /\ Settings(e).delivery = days * Day /\ Settings(e).merge_queue = queueDays * Day
    BY DEF Settings
<1>3. Day \in Nat \ {0}
    BY ConfigurationAssumption
<1> HIDE DEF interval, days, queueDays
<1> QED BY <1>1, <1>2, <1>3

\* Only startup itself changes what it has read.
LEMMA SettingsFrame ==
    ASSUME ProcessInv, [Next]_vars, ~Load, stage' \in Configured
    PROVE  stage \in Configured /\ settings' = settings
<1>1. ASSUME NEW i \in 2 .. 6, NEW ok \in BOOLEAN, StartupStep(i, ok)
      PROVE  stage \in Configured /\ settings' = settings
    <2>1. stage = Startup[i] /\ (stage' = "Closing" \/ stage' = Startup[i + 1])
        BY <1>1 DEF StartupStep, Answered
    <2>2. stage \in Configured \ {"Retention"}
        BY <2>1, StageNames DEF Configured
    <2> QED BY <1>1, <2>2 DEF StartupStep
<1>2. CASE ~\E i \in 2 .. 6, ok \in BOOLEAN : StartupStep(i, ok)
    BY <1>2 DEF Next, vars, serviceVars, InitTelemetry, SpawnBackground, Accept, Finish, Running,
            ShutdownSignal, ServerStops, RefresherTakes, RefresherDone, RefresherStops, RefresherMoves,
            Join, ServerDrains, DrainCompletes, DrainTimesOut, BackgroundAborts, CloseTelemetry,
            ThreadEnds, Receive, Exit, RetentionRuns, WorldGoesOn, Over, Configured, Joined, Answered
<1> QED BY <1>1, <1>2

LEMMA SettingsStep ==
    ASSUME ProcessInv, SettingsInv, [Next]_vars
    PROVE  SettingsInv'
<1>1. CASE Load
    BY <1>1, AcceptedSettings DEF Load, SettingsInv, Configured
<1>2. CASE ~Load
    BY <1>2, SettingsFrame DEF SettingsInv
<1> QED BY <1>1, <1>2

LEMMA LoadedSettings ==
    ASSUME ProcessInv, [Next]_vars, stage = "Loading", stage' = "Telemetry"
    PROVE  Accepted(env) /\ settings' = Settings(env)
<1>1. Load
    BY SettingsFrame DEF Configured
<1> QED BY <1>1 DEF Load

\* A retention is refused at its stage or not at all.
LEMMA RetentionRefused ==
    ASSUME ProcessInv, SettingsInv, [Next]_vars, stage = "Retention", stage' # stage
    PROVE  stage' = "Closing" <=> Overlong(settings)
<1>1. PICK i \in 2 .. 6, ok \in BOOLEAN : StartupStep(i, ok)
    BY DEF Next, vars, serviceVars, Load, InitTelemetry, SpawnBackground, Accept, Finish, Running,
            ShutdownSignal, ServerStops, RefresherTakes, RefresherDone, RefresherStops, RefresherMoves,
            Join, ServerDrains, DrainCompletes, DrainTimesOut, BackgroundAborts, CloseTelemetry,
            ThreadEnds, Receive, Exit, RetentionRuns, WorldGoesOn, Over
<1>2. /\ ok = RetentionAccepted(settings)
      /\ stage' = IF ok THEN Startup[i + 1] ELSE "Closing"
      /\ Startup[i] = "Retention"
    BY <1>1 DEF StartupStep, Answered
<1>3. Startup[i + 1] = "Bind"
    BY <1>2, StageNames
<1>4. RetentionAccepted(settings) <=> ~Overlong(settings)
    <2>1. /\ settings.interval \in Nat \ {0} /\ settings.delivery \in Nat \ {0}
          /\ settings.merge_queue \in Nat \ {0}
        BY DEF SettingsInv, Configured
    <2>2. I64 \in Nat
        BY ConfigurationAssumption
    <2> QED BY <2>1, <2>2 DEF RetentionAccepted, Overlong
<1> QED BY <1>2, <1>3, <1>4

\* The background task panics when it is spawned or not at all.
LEMMA OnlySpawnPanics ==
    ASSUME ProcessInv, [Next]_vars
    PROVE  /\ task = "Unborn" /\ task' # task => (task' = "Panicked" <=> limits.interval > Horizon)
           /\ task' = "Panicked" => task \in {"Unborn", "Panicked"}
<1>1. CASE SpawnBackground
    BY <1>1 DEF SpawnBackground, Spawn
<1>2. CASE BackgroundAborts \/ RetentionRuns
    BY <1>2 DEF BackgroundAborts, Abort, RetentionRuns, RetentionStep, StartPass, EndPass, Stop, SkipStore,
                CancelStore, BeginBatch, BatchFails, EndBatch, Answer, passVars, retentionVars
<1>3. CASE ~(SpawnBackground \/ BackgroundAborts \/ RetentionRuns)
    <2>1. task' = task
        BY <1>3 DEF Next, vars, retentionVars, Load, InitTelemetry, StartupStep, Accept, Finish,
            ShutdownSignal, ServerStops, RefresherTakes, RefresherDone, RefresherStops, RefresherMoves,
            Join, ServerDrains, DrainCompletes, DrainTimesOut, CloseTelemetry,
            ThreadEnds, Receive, Exit, WorldGoesOn, Tick, Insert, Refresh, Signal, Over
    <2> QED BY <2>1
<1> QED BY <1>1, <1>2, <1>3

\* Whatever the environment, a configuration that is accepted is one the process can run
\* on, and uses all that the operator gave it, but for a retention and an interval out of
\* range, which fail where they are used and are all that fails (RuntimeConfig::from_lookup,
\* RetentionConfig::new, run_retention).
THEOREM AcceptedConfigurationsRun == Spec => AcceptedIsRunnable
<1>1. Init => SettingsInv
    BY DEF Init, SettingsInv, Configured
<1>2. ProcessInv /\ SettingsInv /\ [Next]_vars => SettingsInv'
    BY SettingsStep
<1>3. ProcessInv /\ SettingsInv /\ [Next]_vars =>
          [/\ stage = "Loading" /\ stage' = "Telemetry" =>
                  LET t == TelemetrySettings(env)
                  IN  Runnable(settings', t) /\ Honoured(env, settings', t)
           /\ stage = "Retention" /\ stage' # stage => (stage' = "Closing" <=> Overlong(settings))
           /\ task = "Unborn" /\ task' # task => (task' = "Panicked" <=> limits.interval > Horizon)
           /\ task' = "Panicked" => task \in {"Unborn", "Panicked"}]_vars
    BY LoadedSettings, AcceptedRuns, AcceptedHonours, RetentionRefused, OnlySpawnPanics
<1> QED BY InvAlways, <1>1, <1>2, <1>3, PTL DEF Spec, AcceptedIsRunnable
===============================================================================
