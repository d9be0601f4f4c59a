------------------------ MODULE MCWebhookObservation ------------------------
(***************************************************************************)
(* Deliveries of every kind, for TLC: each one a raw header and payload,   *)
(* from which its kind follows.                                            *)
(***************************************************************************)
EXTENDS WebhookObservation, TLC

CONSTANTS d1, d2, d3, d4, d5, d6, d7, d8, d9, s1, registered, stranger, r1, r2

Raw(event, action, body, reason) ==
  [event |-> event, action |-> action, body |-> body, reason |-> reason]

\* Vocabulary, unknown words and a missing action; a job within and beyond the limit.
MCRaw ==
  (d1 :> Raw("workflow_job", "completed", "usable", "none")) @@
  (d2 :> Raw("workflow_run", "in_progress", "usable", "none")) @@
  (d3 :> Raw("unheard_of", "none", "absent", "none")) @@
  (d4 :> Raw("pull_request", "enqueued", "usable", "none")) @@
  (d5 :> Raw("pull_request", "closed", "merged", "none")) @@
  (d6 :> Raw("workflow_run", "completed", "usable", "none")) @@
  (d7 :> Raw("workflow_job", "completed", "oversized", "none")) @@
  (d8 :> Raw("merge_group", "destroyed", "absent", "unheard_of")) @@
  (d9 :> Raw("pull_request", "dequeued", "usable", "none"))

MCEvents == [d \in Deliveries |-> Kind(MCRaw[d])]
MCSubjects == [d \in Deliveries |-> s1]
=============================================================================
