---------------------------- MODULE RequiredChecks ----------------------------
(***************************************************************************)
(* The required-check cache: handlers that read it and never wait for      *)
(* GitHub (resolve_required_checks of src/src/api/webhook.rs), the bounded *)
(* queue and the one refresher behind it (src/src/github/refresh.rs), the  *)
(* App client with its installation token (src/src/github/client.rs) and   *)
(* the rows (src/src/storage/required_check_store.rs).                     *)
(*                                                                         *)
(* One repository.  What GitHub answers is abstracted to when it was true; *)
(* an unprotected branch (404) is an answer like any other.  Time is       *)
(* explicit: an await with a timeout holds the clock back until it ends.   *)
(***************************************************************************)
EXTENDS Integers, Sequences

CONSTANTS
  Jobs,           \* handlers of completed jobs, each one used once
  Branches,       \* target branches
  BranchOf,       \* BranchOf[j]: the target branch of the run of j
  QueueCapacity,  \* REFRESH_QUEUE_CAPACITY
  TimeToLive,     \* RequiredCheckStore.time_to_live
  Retention,      \* delivery retention, which prunes this cache too
  StoreTimeout,   \* longest wait for a connection and for SQLite
  RequestTimeout, \* REQUEST_TIMEOUT of one call to GitHub
  TokenLifetime,  \* for which GitHub issues an installation token
  RenewalSkew,    \* INSTALLATION_TOKEN_RENEWAL_SKEW
  MaxTime,        \* bound on the clock
  MaxCrashes,     \* bound on the number of process crashes
  None            \* no value

ASSUME ChecksAssumption ==
  /\ BranchOf \in [Jobs -> Branches]
  /\ QueueCapacity \in Nat \ {0} /\ TimeToLive \in Nat
  /\ Retention \in Nat /\ TimeToLive <= Retention      \* one day at most, one at least
  /\ StoreTimeout \in Nat /\ RequestTimeout \in Nat
  /\ RenewalSkew \in Nat /\ StoreTimeout + RequestTimeout <= RenewalSkew
  /\ TokenLifetime \in Nat /\ 2 * RequestTimeout < TokenLifetime
  /\ MaxTime \in Nat /\ MaxCrashes \in Nat
  /\ None \notin Nat /\ None \notin Branches
  /\ None \notin [at : Nat, trueAt : Nat]

VARIABLES
  cache,     \* cache[b]: when its row was written and its answer true, or None
  \* the handlers
  pc,        \* pc[j]: where the handler of j is
  asked,     \* asked[j]: the clock it took before its read
  found,     \* found[j]: the entry its read returned, None for a miss
  \* the refresher
  queue,     \* the branches whose refresh is requested
  stage,     \* the await at which the refresher is
  branch,    \* the branch it refreshes
  started,   \* the clock it took when it began
  since,     \* the clock at which its current await began
  token,     \* the expiry of the cached installation token, or None
  trueAt,    \* when the answer it holds was true
  cancelled, \* the cancellation channel
  \* the surroundings
  now, crashes,
  \* history
  used       \* used[j]: the entry j emitted as required checks and when, or None

handlers  == <<pc, asked, found, used>>
refresher == <<stage, branch, started, since, token, trueAt>>
vars == <<cache, handlers, queue, refresher, cancelled, now, crashes>>

Init ==
  /\ cache = [b \in Branches |-> None]
  /\ pc = [j \in Jobs |-> "start"]
  /\ asked = [j \in Jobs |-> 0]
  /\ found = [j \in Jobs |-> None]
  /\ queue = <<>>
  /\ stage = "idle" /\ branch = None /\ started = 0 /\ since = 0
  /\ token = None /\ trueAt = 0
  /\ cancelled = FALSE
  /\ now = 0 /\ crashes = 0
  /\ used = [j \in Jobs |-> None]

\* Mutant: the query does not look at updated_at.
FreshWhenPresent(b, at) == cache[b] # None

\* updated_at >= now - time_to_live, for the instant the caller took.
Fresh(b, at) == cache[b] # None /\ cache[b].at >= at - TimeToLive

-----------------------------------------------------------------------------
(* A handler.                                                              *)

Ask(j) ==
  /\ pc[j] = "start"
  /\ pc' = [pc EXCEPT ![j] = "reading"]
  /\ asked' = [asked EXCEPT ![j] = now]
  /\ UNCHANGED <<cache, found, used, queue, refresher, cancelled, now, crashes>>

\* get_fresh of the handler: a fresh entry, a miss, or a store that fails.
Read(j) ==
  /\ pc[j] = "reading"
  /\ \/ /\ Fresh(BranchOf[j], asked[j])
        /\ found' = [found EXCEPT ![j] = cache[BranchOf[j]]]
        /\ pc' = [pc EXCEPT ![j] = "hit"]
     \/ /\ ~Fresh(BranchOf[j], asked[j])
        /\ pc' = [pc EXCEPT ![j] = "miss"]
        /\ UNCHANGED found
     \/ /\ pc' = [pc EXCEPT ![j] = "failed"]
        /\ UNCHANGED found
  /\ asked' = [asked EXCEPT ![j] = 0]
  /\ UNCHANGED <<cache, used, queue, refresher, cancelled, now, crashes>>

\* RequiredCheckRefreshHandle::request: try_send drops the request if the queue is
\* full or the refresher has gone.
Request(b) ==
  IF Len(queue) < QueueCapacity /\ stage # "stopped" THEN Append(queue, b) ELSE queue

\* Mutant: send().await in place of try_send.
ResolveBlocking(j) ==
  /\ pc[j] \in {"hit", "miss", "failed"}
  /\ pc[j] = "miss" => Len(queue) < QueueCapacity
  /\ pc' = [pc EXCEPT ![j] = "done"]
  /\ found' = [found EXCEPT ![j] = None]
  /\ used' = IF pc[j] = "hit"
               THEN [used EXCEPT ![j] = [entry |-> found[j], at |-> now]] ELSE used
  /\ queue' = IF pc[j] = "miss" THEN Append(queue, BranchOf[j]) ELSE queue
  /\ UNCHANGED <<cache, asked, refresher, cancelled, now, crashes>>

\* The trace carries the answer; or the flag is unknown, and after a miss a
\* refresh is requested.
Resolve(j) ==
  /\ pc[j] \in {"hit", "miss", "failed"}
  /\ pc' = [pc EXCEPT ![j] = "done"]
  /\ found' = [found EXCEPT ![j] = None]
  /\ used' = IF pc[j] = "hit"
               THEN [used EXCEPT ![j] = [entry |-> found[j], at |-> now]] ELSE used
  /\ queue' = IF pc[j] = "miss" THEN Request(BranchOf[j]) ELSE queue
  /\ UNCHANGED <<cache, asked, refresher, cancelled, now, crashes>>

\* The request is dropped at its await.
Drop(j) ==
  /\ pc[j] = "reading"
  /\ pc' = [pc EXCEPT ![j] = "dropped"]
  /\ asked' = [asked EXCEPT ![j] = 0]
  /\ UNCHANGED <<cache, found, used, queue, refresher, cancelled, now, crashes>>

-----------------------------------------------------------------------------
(* The refresher.  A step ends one await and begins the next.              *)

Await(next) == stage' = next /\ since' = now

\* What the refresher knows of a refresh is gone when it returns to its loop.
Forgotten == branch' = None /\ started' = 0 /\ since' = 0 /\ trueAt' = 0

Return == stage' = "idle" /\ Forgotten

\* run: cancellation is looked at first, then the oldest request is taken.
Take ==
  /\ stage = "idle" /\ ~cancelled /\ queue # <<>>
  /\ branch' = Head(queue)
  /\ queue' = Tail(queue)
  /\ started' = now
  /\ Await("read")
  /\ UNCHANGED <<cache, handlers, token, trueAt, cancelled, now, crashes>>

\* Mutant: the renewal margin is forgotten.
TokenUnexpired == token # None /\ started < token

\* is_usable_at, for the instant at which the refresh began.
TokenUsable == token # None /\ started + RenewalSkew < token

\* Mutant: the cache is not looked at again.
ReadNothing ==
  /\ stage = "read"
  /\ Await(IF TokenUsable THEN "get" ELSE "mint")
  /\ UNCHANGED <<cache, handlers, queue, branch, started, token, trueAt, cancelled, now, crashes>>

\* refresh: a fresh entry or a failed read ends it, a miss goes to GitHub.
ReadCache ==
  /\ stage = "read"
  /\ \/ Return
     \/ /\ ~Fresh(branch, started)
        /\ Await(IF TokenUsable THEN "get" ELSE "mint")
        /\ UNCHANGED <<branch, started, trueAt>>
  /\ UNCHANGED <<cache, handlers, queue, token, cancelled, now, crashes>>

\* Whichever GitHubClientError a call ends with, the refresh ends.
CallFails == Return

\* mint_installation_token: GitHub issues a token at some time during the call;
\* a failure leaves the cached one as it was.
Mint ==
  /\ stage = "mint"
  /\ \/ /\ \E issued \in since .. now : token' = issued + TokenLifetime
        /\ Await("get")
        /\ UNCHANGED <<branch, started, trueAt>>
     \/ CallFails /\ UNCHANGED token
  /\ UNCHANGED <<cache, handlers, queue, cancelled, now, crashes>>

\* Mutant: a read that failed is requested again.
GetRequeueing ==
  /\ stage = "get"
  /\ \/ /\ \E answered \in since .. now : trueAt' = answered
        /\ Await("write")
        /\ UNCHANGED <<branch, started, queue>>
     \/ Return /\ queue' = Append(queue, branch)
  /\ UNCHANGED <<cache, handlers, token, cancelled, now, crashes>>

\* required_checks: GitHub's answer was true at some time during the call.
Get ==
  /\ stage = "get"
  /\ \/ /\ \E answered \in since .. now : trueAt' = answered
        /\ Await("write")
        /\ UNCHANGED <<branch, started>>
     \/ CallFails
  /\ UNCHANGED <<cache, handlers, queue, token, cancelled, now, crashes>>

\* upsert, stamped with the time of the statement, or a failure.
Write ==
  /\ stage = "write"
  /\ \/ cache' = [cache EXCEPT ![branch] = [at |-> now, trueAt |-> trueAt]]
     \/ UNCHANGED cache
  /\ Return
  /\ UNCHANGED <<handlers, queue, token, cancelled, now, crashes>>

\* run returns and drops the receiver: by itself, or aborted at any await when
\* the drain deadline passes.
Halt ==
  /\ stage' = "stopped"
  /\ queue' = <<>>
  /\ Forgotten
  /\ UNCHANGED <<cache, handlers, token, cancelled, now, crashes>>

Stop  == cancelled /\ stage = "idle" /\ Halt
Abort == cancelled /\ stage \in {"read", "mint", "get", "write"} /\ Halt

-----------------------------------------------------------------------------
(* The surroundings.                                                       *)

Cancel ==
  /\ ~cancelled
  /\ cancelled' = TRUE
  /\ UNCHANGED <<cache, handlers, queue, refresher, now, crashes>>

\* The process dies and starts again: only the rows stay.
Crash ==
  /\ crashes < MaxCrashes
  /\ crashes' = crashes + 1
  /\ pc' = [j \in Jobs |-> IF pc[j] \in {"start", "done"} THEN pc[j] ELSE "dropped"]
  /\ queue' = <<>>
  /\ stage' = "idle"
  /\ token' = None
  /\ cancelled' = FALSE
  /\ asked' = [j \in Jobs |-> 0]
  /\ found' = [j \in Jobs |-> None]
  /\ Forgotten
  /\ UNCHANGED <<cache, used, now>>

\* Mutant: a row as old as the cutoff is pruned too.
PruneInclusive ==
  \E cutoff \in 0 .. now - Retention :
    \E b \in Branches :
      /\ cache[b] # None /\ cache[b].at <= cutoff
      /\ cache' = [cache EXCEPT ![b] = None]
      /\ UNCHANGED <<handlers, queue, refresher, cancelled, now, crashes>>

\* One batch of prune_batch, the oldest rows first; the cutoff of the pass was fixed
\* at or before now.
Prune ==
  \E cutoff \in 0 .. now - Retention :
    LET eligible == {b \in Branches : cache[b] # None /\ cache[b].at < cutoff}
    IN  \E batch \in SUBSET eligible :
          /\ batch # {}
          /\ \A b \in batch, c \in eligible \ batch : cache[b].at <= cache[c].at
          /\ cache' = [b \in Branches |-> IF b \in batch THEN None ELSE cache[b]]
          /\ UNCHANGED <<handlers, queue, refresher, cancelled, now, crashes>>

\* No await outlives its timeout, and a task whose await is over runs before the
\* clock moves on.
Timely ==
  /\ \A j \in Jobs : /\ pc[j] = "reading" => now < asked[j] + StoreTimeout
                     /\ pc[j] \notin {"hit", "miss", "failed"}
  /\ stage \in {"read", "write"} => now < since + StoreTimeout
  /\ stage \in {"mint", "get"} => now < since + RequestTimeout

Tick ==
  /\ now < MaxTime /\ Timely
  /\ now' = now + 1
  /\ UNCHANGED <<cache, handlers, queue, refresher, cancelled, crashes>>

\* All has ended and the clock is at its bound: idling is no deadlock.
Idle ==
  /\ \A j \in Jobs : pc[j] \in {"done", "dropped"}
  /\ stage \in {"idle", "stopped"} /\ queue = <<>>
  /\ now = MaxTime
  /\ UNCHANGED vars

Handle(j) == Ask(j) \/ Read(j) \/ Resolve(j) \/ Drop(j)

Serve == Take \/ ReadCache \/ Mint \/ Get \/ Write \/ Stop

Next ==
  \/ \E j \in Jobs : Handle(j)
  \/ Serve \/ Abort \/ Cancel \/ Crash \/ Prune \/ Tick \/ Idle

Spec == Init /\ [][Next]_vars

\* The store answers every read, and the runtime polls every woken handler.
HandlerFairness == \A j \in Jobs : WF_vars(Read(j) \/ Resolve(j))

\* The store and GitHub answer the refresher, at the latest with a timeout.
RefresherFairness == WF_vars(Serve)

FairSpec == Spec /\ HandlerFairness

-----------------------------------------------------------------------------
(* Properties.                                                             *)

Entry == [at : Nat, trueAt : Nat]

TypeOK ==
  /\ cache \in [Branches -> Entry \union {None}]
  /\ pc \in [Jobs -> {"start", "reading", "hit", "miss", "failed", "done", "dropped"}]
  /\ asked \in [Jobs -> Nat]
  /\ found \in [Jobs -> Entry \union {None}]
  /\ queue \in Seq(Branches) /\ Len(queue) <= QueueCapacity
  /\ stage \in {"idle", "read", "mint", "get", "write", "stopped"}
  /\ branch \in Branches \union {None}
  /\ started \in Nat /\ since \in Nat /\ trueAt \in Nat
  /\ token \in Nat \union {None}
  /\ cancelled \in BOOLEAN
  /\ now \in Nat /\ crashes \in Nat
  /\ used \in [Jobs -> [entry : Entry, at : Nat] \union {None}]

\* "A stale answer is never emitted as a confident one": an emitted answer was GitHub's
\* within the time to live and the three waits that lie between GitHub and the trace,
\* none of which the freshness check sees.
AnswersAreRecent ==
  \A j \in Jobs :
    used[j] # None =>
      used[j].at - used[j].entry.trueAt <= TimeToLive + RequestTimeout + 2 * StoreTimeout

\* The token is live as long as the read that carries it is under way, although its
\* expiry was judged with a clock taken before the cache was read.
TokenIsLive == stage = "get" => token # None /\ now < token

\* "A burst of webhooks for one branch costs one API read": the answer of a branch is
\* replaced only once it is stale, whatever requests were queued meanwhile, also
\* across a restart.
OneAnswerPerWindow ==
  [][\A b \in Branches :
       cache[b] # None /\ cache'[b] # None /\ cache'[b] # cache[b] =>
         cache'[b].at - cache[b].at > TimeToLive]_vars

\* Pruning only reclaims what reads hide already, at equal periods too.
PruningHidesNothing ==
  [][\A b \in Branches :
       cache[b] # None /\ cache'[b] = None => now - cache[b].at > TimeToLive]_vars

\* A handler ends whatever the refresher does or fails to do.
HandlersEnd == \A j \in Jobs : pc[j] = "reading" ~> pc[j] \in {"done", "dropped"}

\* The refresher works off its queue whatever GitHub answers, or stops.
QueueDrains ==
  RefresherFairness =>
    (queue # <<>> \/ stage \in {"read", "mint", "get", "write"}
       ~> queue = <<>> /\ stage \in {"idle", "stopped"})
=============================================================================
