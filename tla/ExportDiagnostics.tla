------------------------- MODULE ExportDiagnostics -------------------------
(***************************************************************************)
(* What the admission boundary and the exporter of one signal tell the     *)
(* operator: the drop counters and the rate-limited lines of               *)
(* src/src/telemetry/diagnostics.rs, and the failed exports counted in     *)
(* telemetry/http_client.rs or telemetry/queue.rs, whichever saw them      *)
(* first.  Each action is one of AdmissionBoundary with what it reports;   *)
(* a thread that has dropped a record then walks through claim_report, one *)
(* atomic access at a time.                                                *)
(***************************************************************************)
EXTENDS AdmissionBoundary, Functions

CONSTANTS
  Interval,   \* REPORT_INTERVAL_MILLIS
  MaxClock,   \* bound on the clock
  Closer      \* the thread that shuts the telemetry down

Reasons == {"queue_full", "pipeline_closed"}
Tellers == Records \union {Closer}

ASSUME DiagnosticsAssumption ==
  /\ Interval \in Nat \ {0} /\ MaxClock \in Nat /\ Closer \notin Records

VARIABLES
  clock,       \* the monotonic clock of DiagnosticsInner
  \* one CategoryLimiter per reason
  nextReport, suppressed,
  \* the threads inside report_drop
  telling,     \* telling[t]: the next access of t
  reason,      \* reason[t]: why t dropped
  at,          \* at[t]: its reading of the clock
  deadline,    \* deadline[t]: its local copy of nextReport
  written,     \* the threads that wrote a line
  omitted,     \* omitted[t]: the suppressed drops its line tells
  \* counters
  drops,       \* drops[reason]: telemetry_dropped_records
  failures,    \* telemetry_export_failures, all reasons
  failedExports,
  classified,  \* whether classified_failures has moved since the export began
  sent,        \* what became of the HTTP request of the export under way
  providerFailed

limiters  == <<nextReport, suppressed>>
tellers   == <<telling, reason, at, deadline, written, omitted>>
exports   == <<failures, failedExports, classified, sent, providerFailed>>
diagnostics == <<clock, limiters, tellers, drops, exports>>
told_vars == <<vars, diagnostics>>

InitTold ==
  /\ Init
  /\ clock = 0
  /\ nextReport = [w \in Reasons |-> 0] /\ suppressed = [w \in Reasons |-> 0]
  /\ telling = [t \in Tellers |-> "quiet"]
  /\ reason = [t \in Tellers |-> "none"]
  /\ at = [t \in Tellers |-> 0] /\ deadline = [t \in Tellers |-> 0]
  /\ written = {} /\ omitted = [t \in Tellers |-> 0]
  /\ drops = [w \in Reasons |-> 0]
  /\ failures = 0 /\ failedExports = 0 /\ classified = FALSE
  /\ sent = "no" /\ providerFailed = FALSE

-----------------------------------------------------------------------------
(* Drops.                                                                  *)

\* drop_records: nothing for an empty batch; else the counter, then report_drop,
\* which reads the clock once.
DropRecords(t, why, count) ==
  /\ drops' = [drops EXCEPT ![why] = @ + count]
  /\ IF count = 0
       THEN UNCHANGED <<telling, at>>
       ELSE /\ telling' = [telling EXCEPT ![t] = "load"]
            /\ at' = [at EXCEPT ![t] = clock]
  /\ UNCHANGED <<clock, limiters, deadline, written, omitted, exports>>

\* try_admit; a full boundary and a closed one are different reasons.
OnEndTold(r) ==
  /\ OnEnd(r)
  /\ IF pc[r] = "drop"
       THEN DropRecords(r, reason[r], 1) /\ UNCHANGED reason
       ELSE /\ reason' = IF pc'[r] # "drop" THEN reason ELSE
              [reason EXCEPT ![r] = IF pc[r] \in {"load", "exchange"} THEN "queue_full"
                                                                      ELSE "pipeline_closed"]
            /\ UNCHANGED <<clock, limiters, telling, at, deadline, written, omitted, drops, exports>>

LoadDeadline(t) ==
  /\ telling[t] = "load"
  /\ deadline' = [deadline EXCEPT ![t] = nextReport[reason[t]]]
  /\ telling' = [telling EXCEPT ![t] = "claim"]
  /\ UNCHANGED <<vars, clock, limiters, reason, at, written, omitted, drops, exports>>

Claim(t, wins) ==
  LET why == reason[t]
  IN  /\ telling[t] = "claim"
      /\ CASE at[t] < deadline[t] ->
                /\ suppressed' = [suppressed EXCEPT ![why] = @ + 1]
                /\ telling' = [telling EXCEPT ![t] = "told"]
                /\ UNCHANGED <<nextReport, deadline>>
           [] at[t] >= deadline[t] /\ wins ->
                /\ nextReport' = [nextReport EXCEPT ![why] = at[t] + Interval]
                /\ telling' = [telling EXCEPT ![t] = "take"]
                /\ UNCHANGED <<suppressed, deadline>>
           [] OTHER ->
                /\ deadline' = [deadline EXCEPT ![t] = nextReport[why]]
                /\ UNCHANGED <<limiters, telling>>
      /\ UNCHANGED <<vars, clock, reason, at, written, omitted, drops, exports>>

\* Mutant: the new deadline is stored, not exchanged.
ClaimReportBlindly(t) == Claim(t, TRUE)

\* The loop of claim_report: too early, claimed by compare_exchange_weak, or overtaken.
ClaimReport(t) == Claim(t, nextReport[reason[t]] = deadline[t])

\* The swap that hands the count over to the line.
TakeSuppressed(t) ==
  /\ telling[t] = "take"
  /\ written' = written \union {t}
  /\ omitted' = [omitted EXCEPT ![t] = suppressed[reason[t]]]
  /\ suppressed' = [suppressed EXCEPT ![reason[t]] = 0]
  /\ telling' = [telling EXCEPT ![t] = "told"]
  /\ UNCHANGED <<vars, clock, nextReport, reason, at, deadline, drops, exports>>

-----------------------------------------------------------------------------
(* Exports.                                                                *)

\* The drops of the tellers are left as they are.
DropsFrame == UNCHANGED <<clock, limiters, tellers, drops>>

\* observe_export notes the sequence number before it polls the export.
BeginExportTold ==
  /\ BeginExport
  /\ classified' = FALSE
  /\ UNCHANGED <<failures, failedExports, sent, providerFailed>>
  /\ DropsFrame

\* ObservingHttpClient::send_bytes: a transport error, a timeout, a status or a body
\* that is no OTLP response is classified and counted here.
SendBytes ==
  /\ worker = "exporting" /\ sent = "no"
  /\ \/ sent' = "accepted" /\ UNCHANGED <<classified, failures>>
     \/ /\ sent' = "failed"
        /\ classified' = TRUE
        /\ failures' = failures + 1
  /\ UNCHANGED <<vars, failedExports, providerFailed>>
  /\ DropsFrame

\* Mutant: the result is counted without a look at what was classified.
ExportReturnsTwice ==
  /\ ExportReturns
  /\ \/ sent = "accepted" /\ UNCHANGED <<failures, failedExports>>
     \/ failedExports' = failedExports + 1 /\ failures' = failures + 1
  /\ sent' = "no"
  /\ UNCHANGED <<classified, providerFailed>>
  /\ DropsFrame

\* observe_export after the await: the export failed with its request, or in the SDK
\* before or after it; only a failure nobody classified is recorded.
ExportReturnsTold ==
  /\ ExportReturns
  /\ \/ sent = "accepted" /\ UNCHANGED <<failures, failedExports>>
     \/ /\ failedExports' = failedExports + 1
        /\ failures' = IF classified THEN failures ELSE failures + 1
  /\ sent' = "no"
  /\ UNCHANGED <<classified, providerFailed>>
  /\ DropsFrame

WorkerTold ==
  \/ BeginExportTold \/ SendBytes \/ ExportReturnsTold
  \/ (TakeBatch \/ WorkerStops) /\ UNCHANGED diagnostics

\* report_shutdown_issue: one failure for a provider that failed or timed out.
ProviderReturnsTold ==
  /\ ProviderReturns
  /\ \E failed \in BOOLEAN :
       /\ providerFailed' = failed
       /\ failures' = IF failed THEN failures + 1 ELSE failures
  /\ UNCHANGED <<failedExports, classified, sent>>
  /\ DropsFrame

\* drop_pending reports its whole batch as one drop.
CountStrandedTold ==
  /\ CountStranded
  /\ DropRecords(Closer, "pipeline_closed", stranded)
  /\ reason' = [reason EXCEPT ![Closer] = "pipeline_closed"]

ShutdownTold ==
  \/ (StopProvider \/ DropPending) /\ UNCHANGED diagnostics
  \/ ProviderReturnsTold \/ CountStrandedTold

Advance ==
  /\ clock < MaxClock
  /\ clock' = clock + 1
  /\ UNCHANGED <<vars, limiters, tellers, drops, exports>>

TellerStep(t) == LoadDeadline(t) \/ ClaimReport(t) \/ TakeSuppressed(t)

NextTold ==
  \/ \E r \in Records : OnEndTold(r)
  \/ \E t \in Tellers : TellerStep(t)
  \/ WorkerTold \/ ShutdownTold \/ Advance
  \/ (Close \/ Idle) /\ UNCHANGED diagnostics

SpecTold == InitTold /\ [][NextTold]_told_vars

FairnessTold ==
  /\ \A r \in Records : WF_told_vars(OnEndTold(r) /\ pc[r] # "idle")
  /\ WF_told_vars(WorkerTold)
  /\ WF_told_vars(ShutdownTold)

FairSpecTold == SpecTold /\ FairnessTold

-----------------------------------------------------------------------------
(* Properties.                                                             *)

Told(why) == {t \in Tellers : telling[t] = "told" /\ reason[t] = why}
Lines(why) == Told(why) \intersect written

\* Every report of a drop is told exactly once: by a line of its own, in the count of a
\* later line, or in the count that waits for one.  The first is never withheld, and two
\* lines of one reason never carry clock readings of one interval, however many
\* threads drop records at once.
DropsAreReported ==
  \A why \in Reasons :
    /\ Cardinality(Told(why)) =
         Cardinality(Lines(why)) + suppressed[why]
           + FoldFunctionOnSet(+, 0, omitted, Lines(why))
    /\ \A t, u \in Lines(why) :
         t # u => at[t] - at[u] >= Interval \/ at[u] - at[t] >= Interval
    /\ Told(why) # {} =>
         \E t \in Tellers : reason[t] = why /\ (telling[t] = "take" \/ t \in written)

\* Every export that failed is counted under one reason, by the HTTP client that saw it or by
\* the boundary, never by both; the rest of the failures is the provider's own.
FailuresAreClassifiedOnce ==
  failures = failedExports + (IF sent = "failed" THEN 1 ELSE 0)
                           + (IF providerFailed THEN 1 ELSE 0)
=============================================================================
