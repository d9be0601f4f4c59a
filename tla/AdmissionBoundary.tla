-------------------------- MODULE AdmissionBoundary --------------------------
(***************************************************************************)
(* The bounded queue in front of one OpenTelemetry signal,                 *)
(* src/src/telemetry/queue.rs: the application threads that end spans, the *)
(* SDK's worker thread and the thread that shuts the telemetry down share  *)
(* one AdmissionBoundary of atomics and a mutex.  One action is one atomic *)
(* access; the mutex makes begin_export and the locked half of             *)
(* drop_pending one step each.  All updates of pending are AcqRel          *)
(* read-modify-writes, so their interleavings are sequentially consistent. *)
(*                                                                         *)
(* The SDK's channel and worker are external: a bounded queue, drained in  *)
(* batches and stopped by the provider's shutdown.                         *)
(***************************************************************************)
EXTENDS Integers, FiniteSets

CONSTANTS
  Records,    \* spans (or log records), each ended once by a thread of its own
  Capacity,   \* capacity of the boundary and of the SDK queue alike
  BatchSize   \* max_export_batch_size

ASSUME BoundaryAssumption ==
  /\ IsFiniteSet(Records)
  /\ Capacity \in Nat \ {0} /\ BatchSize \in Nat \ {0}

VARIABLES
  \* AdmissionBoundary
  pending, dropped, closed, finalized,
  \* the threads inside on_end
  pc,         \* pc[r]: the next access of the thread that ends r
  seen,       \* seen[r]: its local copy of pending
  \* the SDK
  queue,      \* the records in the SDK queue
  batch,      \* the batch in the hands of the worker
  worker,     \* what the worker does
  stopping,   \* is_shutdown of the SDK processor
  \* TelemetryRuntime::shutdown
  shutdown,   \* how far it is
  stranded,   \* its local count of the slots it found pending
  \* history
  exported,   \* the records handed to the exporter
  recorded,   \* the records counted by record_drop
  writtenOff, \* the records whose slots drop_pending counted
  discarded,  \* the admitted records a stopping SDK refused
  overflowed  \* the admitted records a full SDK queue refused

boundary == <<pending, dropped, closed, finalized>>
threads  == <<pc, seen>>
sdk      == <<queue, batch, worker, stopping>>
runtime  == <<shutdown, stranded>>
history  == <<exported, recorded, writtenOff, discarded, overflowed>>
vars == <<boundary, threads, sdk, runtime, history>>

Init ==
  /\ pending = 0 /\ dropped = 0 /\ closed = FALSE /\ finalized = FALSE
  /\ pc = [r \in Records |-> "idle"]
  /\ seen = [r \in Records |-> 0]
  /\ queue = {} /\ batch = {} /\ worker = "idle" /\ stopping = FALSE
  /\ shutdown = "running" /\ stranded = 0
  /\ exported = {} /\ recorded = {} /\ writtenOff = {}
  /\ discarded = {} /\ overflowed = {}

Goto(r, next) == pc' = [pc EXCEPT ![r] = next]

Released(count) == IF count > pending THEN 0 ELSE pending - count  \* saturating_sub

\* The records that occupy a slot: past the exchange that took it, and neither
\* released by their own thread nor claimed by an export.
Holders == {r \in Records : pc[r] \in {"recheck", "release", "send"}}
             \union queue \union discarded \union overflowed
             \union (IF worker = "taken" THEN batch ELSE {})

-----------------------------------------------------------------------------
(* on_end: try_admit, then the SDK's non-blocking send.                    *)

CheckClosed(r) ==
  /\ pc[r] = "idle"
  /\ Goto(r, IF closed THEN "drop" ELSE "load")
  /\ UNCHANGED <<boundary, seen, sdk, runtime, history>>

LoadPending(r) ==
  /\ pc[r] = "load"
  /\ seen' = [seen EXCEPT ![r] = pending]
  /\ Goto(r, IF pending >= Capacity THEN "drop" ELSE "exchange")
  /\ UNCHANGED <<boundary, sdk, runtime, history>>

\* Mutant: a plain store of the value that was loaded plus one.
ExchangeBlindly(r) ==
  /\ pc[r] = "exchange"
  /\ pending' = seen[r] + 1
  /\ Goto(r, "recheck")
  /\ UNCHANGED <<dropped, closed, finalized, seen, sdk, runtime, history>>

\* compare_exchange_weak: a spurious failure observes what was seen already and
\* changes nothing, so only the failures that observe a change are steps.
Exchange(r) ==
  /\ pc[r] = "exchange"
  /\ \/ /\ pending = seen[r]
        /\ pending' = pending + 1
        /\ Goto(r, "recheck")
        /\ UNCHANGED seen
     \/ /\ pending # seen[r]
        /\ seen' = [seen EXCEPT ![r] = pending]
        /\ Goto(r, IF pending >= Capacity THEN "drop" ELSE "exchange")
        /\ UNCHANGED pending
  /\ UNCHANGED <<dropped, closed, finalized, sdk, runtime, history>>

\* Mutant: the second look at closed is forgotten.
RecheckNothing(r) ==
  /\ pc[r] = "recheck"
  /\ Goto(r, "send")
  /\ UNCHANGED <<boundary, seen, sdk, runtime, history>>

\* Mutant: a closed boundary keeps the slot of the record it refuses.
RecheckKeepsSlot(r) ==
  /\ pc[r] = "recheck"
  /\ Goto(r, IF closed THEN "drop" ELSE "send")
  /\ UNCHANGED <<boundary, seen, sdk, runtime, history>>

RecheckClosed(r) ==
  /\ pc[r] = "recheck"
  /\ Goto(r, IF closed THEN "release" ELSE "send")
  /\ UNCHANGED <<boundary, seen, sdk, runtime, history>>

\* The loop of release has its effect at the exchange that succeeds.
ReleaseOwn(r) ==
  /\ pc[r] = "release"
  /\ pending' = Released(1)
  /\ Goto(r, "drop")
  /\ UNCHANGED <<dropped, closed, finalized, seen, sdk, runtime, history>>

RecordDrop(r) ==
  /\ pc[r] = "drop"
  /\ dropped' = dropped + 1
  /\ recorded' = recorded \union {r}
  /\ Goto(r, "done")
  /\ UNCHANGED <<pending, closed, finalized, seen, sdk, runtime, exported, writtenOff,
                 discarded, overflowed>>

\* try_send on a channel of the same capacity.  A processor that is stopping may
\* or may not be noticed; one whose worker has gone takes nothing.
Send(r) ==
  /\ pc[r] = "send"
  /\ \/ /\ worker # "stopped"
        /\ IF Cardinality(queue) < Capacity
             THEN queue' = queue \union {r} /\ UNCHANGED overflowed
             ELSE overflowed' = overflowed \union {r} /\ UNCHANGED queue
        /\ UNCHANGED discarded
     \/ /\ stopping
        /\ discarded' = discarded \union {r}
        /\ UNCHANGED <<queue, overflowed>>
  /\ Goto(r, "done")
  /\ UNCHANGED <<boundary, seen, batch, worker, stopping, runtime, exported, recorded,
                 writtenOff>>

-----------------------------------------------------------------------------
(* The SDK worker.                                                         *)

\* Mutant: the slots are given back for the whole queue, not for the batch.
TakeBatchReleasing ==
  /\ worker = "idle"
  /\ \E taken \in SUBSET queue :
       /\ taken # {} /\ Cardinality(taken) <= BatchSize
       /\ batch' = taken
       /\ queue' = queue \ taken
  /\ worker' = "taken"
  /\ pending' = Released(Cardinality(queue))
  /\ UNCHANGED <<dropped, closed, finalized, threads, stopping, runtime, history>>

\* The worker empties part of the queue before it calls export.
TakeBatch ==
  /\ worker = "idle"
  /\ \E taken \in SUBSET queue :
       /\ taken # {} /\ Cardinality(taken) <= BatchSize
       /\ batch' = taken
       /\ queue' = queue \ taken
  /\ worker' = "taken"
  /\ UNCHANGED <<boundary, threads, stopping, runtime, history>>

\* Mutant: export does not look at export_finalized.
BeginExportAlways ==
  /\ worker = "taken"
  /\ worker' = "exporting"
  /\ pending' = Released(Cardinality(batch))
  /\ exported' = exported \union batch
  /\ UNCHANGED <<dropped, closed, finalized, threads, queue, batch, stopping, runtime,
                 recorded, writtenOff, discarded, overflowed>>

\* begin_export, under the mutex.
BeginExport ==
  /\ worker = "taken"
  /\ IF finalized
       THEN /\ batch' = {}
            /\ worker' = "idle"
            /\ UNCHANGED <<pending, exported>>
       ELSE /\ pending' = Released(Cardinality(batch))
            /\ exported' = exported \union batch
            /\ worker' = "exporting"
            /\ UNCHANGED batch
  /\ UNCHANGED <<dropped, closed, finalized, threads, queue, stopping, runtime,
                 recorded, writtenOff, discarded, overflowed>>

\* The export ends, in success or failure.
ExportReturns ==
  /\ worker = "exporting"
  /\ worker' = "idle"
  /\ batch' = {}
  /\ UNCHANGED <<boundary, threads, queue, stopping, runtime, history>>

\* The worker of a stopping processor drains the queue, then exits.
WorkerStops ==
  /\ stopping
  /\ worker = "idle" /\ queue = {}
  /\ worker' = "stopped"
  /\ UNCHANGED <<boundary, threads, queue, batch, stopping, runtime, history>>

-----------------------------------------------------------------------------
(* TelemetryRuntime::shutdown.                                             *)

Close ==
  /\ shutdown = "running"
  /\ closed' = TRUE
  /\ shutdown' = "closed"
  /\ UNCHANGED <<pending, dropped, finalized, threads, sdk, stranded, history>>

StopProvider ==
  /\ shutdown = "closed"
  /\ stopping' = TRUE
  /\ shutdown' = "waiting"
  /\ UNCHANGED <<boundary, threads, queue, batch, worker, stranded, history>>

\* The provider has drained, has failed, or the shared deadline has passed.
ProviderReturns ==
  /\ shutdown = "waiting"
  /\ shutdown' = "finalizing"
  /\ UNCHANGED <<boundary, threads, sdk, stranded, history>>

\* Mutant: exports are shut out, the slots they would have freed stay pending.
FinalizeOnly ==
  /\ shutdown = "finalizing"
  /\ finalized' = TRUE
  /\ shutdown' = "counting"
  /\ UNCHANGED <<pending, dropped, closed, threads, sdk, stranded, history>>

\* drop_pending, under the mutex: no export can claim what it counts.
DropPending ==
  /\ shutdown = "finalizing"
  /\ finalized' = TRUE
  /\ stranded' = pending
  /\ pending' = 0
  /\ writtenOff' = Holders
  /\ shutdown' = "counting"
  /\ UNCHANGED <<dropped, closed, threads, sdk, exported, recorded, discarded, overflowed>>

CountStranded ==
  /\ shutdown = "counting"
  /\ dropped' = dropped + stranded
  /\ shutdown' = "stopped"
  /\ UNCHANGED <<pending, closed, finalized, threads, sdk, stranded, history>>

\* Everything has ended: idling is no deadlock.
Idle ==
  /\ shutdown = "stopped" /\ worker = "stopped"
  /\ \A r \in Records : pc[r] = "done"
  /\ UNCHANGED vars

OnEnd(r) ==
  \/ CheckClosed(r) \/ LoadPending(r) \/ Exchange(r) \/ RecheckClosed(r)
  \/ ReleaseOwn(r) \/ RecordDrop(r) \/ Send(r)

Worker == TakeBatch \/ BeginExport \/ ExportReturns \/ WorkerStops

Shutdown == StopProvider \/ ProviderReturns \/ DropPending \/ CountStranded

Next ==
  \/ \E r \in Records : OnEnd(r)
  \/ Worker \/ Close \/ Shutdown \/ Idle

Spec == Init /\ [][Next]_vars

\* Threads inside on_end, the worker and a shutdown that has begun are scheduled;
\* nobody is obliged to end a span or to begin the shutdown.
Fairness ==
  /\ \A r \in Records : WF_vars(OnEnd(r) /\ pc[r] # "idle")
  /\ WF_vars(Worker)
  /\ WF_vars(Shutdown)

FairSpec == Spec /\ Fairness

-----------------------------------------------------------------------------
(* Properties.                                                             *)

TypeOK ==
  /\ pending \in Nat /\ dropped \in Nat
  /\ closed \in BOOLEAN /\ finalized \in BOOLEAN /\ stopping \in BOOLEAN
  /\ pc \in [Records -> {"idle", "load", "exchange", "recheck", "release", "drop",
                         "send", "done"}]
  /\ seen \in [Records -> Nat]
  /\ queue \subseteq Records /\ batch \subseteq Records
  /\ worker \in {"idle", "taken", "exporting", "stopped"}
  /\ shutdown \in {"running", "closed", "waiting", "finalizing", "counting", "stopped"}
  /\ stranded \in Nat
  /\ exported \subseteq Records /\ recorded \subseteq Records
  /\ writtenOff \subseteq Records /\ discarded \subseteq Records
  /\ overflowed \subseteq Records

\* "This boundary rejects first and the SDK queue cannot overflow": a slot is taken
\* before the send and given back after the receive, so an admitted record always
\* finds room, also while the shutdown takes the slots away.
QueueNeverOverflows == overflowed = {}

\* pending is the number of slot holders until drop_pending takes them all: no
\* failed admission, export or shutdown race leaks a slot or frees one twice.
PendingCountsHolders == ~finalized => pending = Cardinality(Holders) /\ pending <= Capacity

\* A record counted as dropped is never exported, however a late export races the
\* finalization (the mutex of begin_export and drop_pending).
DroppedIsNotExported == exported \intersect (recorded \union writtenOff) = {}

Quiescent == shutdown = "stopped" /\ \A r \in Records : pc[r] = "done"

\* When everything has ended, no slot is pending and every record was exported or
\* counted: the shutdown loses no record silently.
NothingIsLost ==
  Quiescent => /\ pending = 0
               /\ Records = exported \union recorded \union writtenOff
               /\ dropped >= Cardinality(Records \ exported)

\* Every record that a thread has begun to offer is settled: exported, or counted.
EveryRecordSettles ==
  \A r \in Records : pc[r] # "idle" ~> r \in exported \union recorded \union writtenOff

\* telemetry.rs on dropped_trace_records: "the exact number of trace records
\* dropped", so once all is quiet the count is that of the records not exported.
DroppedIsExact == Quiescent => dropped = Cardinality(Records \ exported)
=============================================================================
