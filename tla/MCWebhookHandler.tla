-------------------------- MODULE MCWebhookHandler --------------------------
(***************************************************************************)
(* Small deployments of WebhookHandler for TLC: each scenario fixes which  *)
(* events the deliveries carry.                                            *)
(***************************************************************************)
EXTENDS WebhookHandler, TLC

CONSTANTS d1, d2, d3, d4, d5, d6, d7, s1, s2, r1, r2, r3

\* A run attempt and one of its jobs, each redelivered.
DedupEvents == (d1 :> "run_completed") @@ (d2 :> "job_completed")
DedupSubjects == (d1 :> s1) @@ (d2 :> s1)

\* A run attempt with a job that completes, beside a job of another attempt; a
\* pull request that is enqueued twice and reported both as dequeued and as merged.
ContentionEvents ==
  (d1 :> "job_completed") @@ (d2 :> "run_completed") @@ (d3 :> "job_completed") @@
  (d4 :> "pr_enqueued") @@ (d5 :> "pr_enqueued") @@ (d6 :> "pr_dequeued") @@
  (d7 :> "pr_merged")
ContentionSubjects ==
  [d \in {d1, d2, d4, d5, d6, d7} |-> s1] @@ (d3 :> s2)

Symmetry == Permutations(Requests)
=============================================================================
