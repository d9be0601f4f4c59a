---------------------------- MODULE MCMergeQueue ----------------------------
(***************************************************************************)
(* A pull request that is enqueued, dequeued, enqueued again and merged,   *)
(* with a delivery that does nothing and one that carries no timestamp.    *)
(***************************************************************************)
EXTENDS MergeQueue, TLC

CONSTANTS e1, e2, e3, e4, e5, e6

QueueKinds ==
  (e1 :> "enqueued") @@ (e2 :> "dequeued") @@ (e3 :> "enqueued") @@ (e4 :> "merged") @@
  (e5 :> "dequeued") @@ (e6 :> "closed")
QueuePullRequests == [e \in {e1, e2, e3, e4, e5} |-> 1] @@ (e6 :> 2)
QueueUpdatedAt ==
  (e1 :> 1) @@ (e2 :> 2) @@ (e3 :> 3) @@ (e4 :> 5) @@ (e5 :> None) @@ (e6 :> 0)

\* The same pull request, with nothing but its four genuine events.
HistoryKinds == [e \in {e1, e2, e3, e4} |-> QueueKinds[e]]
HistoryPullRequests == [e \in {e1, e2, e3, e4} |-> 1]
HistoryUpdatedAt == [e \in {e1, e2, e3, e4} |-> QueueUpdatedAt[e]]
=============================================================================
