--------------------------- MODULE DeliveryPromise ---------------------------
(***************************************************************************)
(* What the exporter promises about GitHub deliveries, with no table, no   *)
(* handler and no failure in sight: a request may be granted the right to  *)
(* act on a delivery only when every earlier grant of that delivery is     *)
(* older than the retention period, and only a granted request ever acts.  *)
(***************************************************************************)
EXTENDS Integers

CONSTANTS
  Requests,    \* the HTTP requests, each one used once
  Deliveries,  \* the X-GitHub-Delivery identifiers
  Retention,   \* ticks for which a delivery claim is kept
  None         \* no value

VARIABLES
  now,     \* the wall clock
  grant,   \* grant[r]: None, or the delivery granted to r and the time it was
  worked   \* the requests that changed a metric, a trace or a table

vars == <<now, grant, worked>>

Init ==
  /\ now = 0
  /\ grant = [r \in Requests |-> None]
  /\ worked = {}

Tick ==
  /\ now' = now + 1
  /\ UNCHANGED <<grant, worked>>

Grant(r, d) ==
  /\ grant[r] = None
  /\ \A q \in Requests :
       grant[q] # None /\ grant[q].delivery = d => now - grant[q].at > Retention
  /\ grant' = [grant EXCEPT ![r] = [delivery |-> d, at |-> now]]
  /\ UNCHANGED <<now, worked>>

Work(r) ==
  /\ grant[r] # None
  /\ worked' = worked \union {r}
  /\ UNCHANGED <<now, grant>>

Next ==
  \/ Tick
  \/ \E r \in Requests, d \in Deliveries : Grant(r, d)
  \/ \E r \in Requests : Work(r)

Spec == Init /\ [][Next]_vars
=============================================================================
