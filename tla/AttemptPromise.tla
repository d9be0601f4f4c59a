---------------------------- MODULE AttemptPromise ----------------------------
(***************************************************************************)
(* What the exporter promises about merge-queue attempts, with no rows, no *)
(* timestamps and no failure in sight: a pull request has at most one      *)
(* attempt open, an attempt is settled once, and it enters the metrics at  *)
(* most once and only after it is settled.                                 *)
(***************************************************************************)
CONSTANTS
  Attempts,       \* the attempts, named by the enqueue event that may open them
  PullRequestOf   \* PullRequestOf[a]: the pull request of a

VARIABLES
  active,   \* the attempts that are open
  settled,  \* the attempts that ended
  counted   \* the attempts whose end entered the metrics

vars == <<active, settled, counted>>

Init == active = {} /\ settled = {} /\ counted = {}

Open(a) ==
  /\ a \notin active \union settled
  /\ \A b \in active : PullRequestOf[b] # PullRequestOf[a]
  /\ active' = active \union {a}
  /\ UNCHANGED <<settled, counted>>

Settle(a) ==
  /\ a \in active
  /\ active' = active \ {a}
  /\ settled' = settled \union {a}
  /\ UNCHANGED counted

Count(a) ==
  /\ a \in settled \ counted
  /\ counted' = counted \union {a}
  /\ UNCHANGED <<active, settled>>

Next == \E a \in Attempts : Open(a) \/ Settle(a) \/ Count(a)

Spec == Init /\ [][Next]_vars
=============================================================================
