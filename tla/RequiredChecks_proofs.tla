------------------------ MODULE RequiredChecks_proofs ------------------------
(***************************************************************************)
(* Proofs about RequiredChecks for any jobs, branches, queue capacity and  *)
(* timeouts that satisfy ChecksAssumption.                                 *)
(***************************************************************************)
EXTENDS RequiredChecks, TLAPS

Working == stage \in {"read", "mint", "get", "write"}

\* A row is stamped at most two waits after its answer was true.
Honest(entry) ==
  /\ entry \in Entry
  /\ entry.at <= now
  /\ entry.at - entry.trueAt <= RequestTimeout + StoreTimeout

CacheInv == \A b \in Branches : cache[b] # None => Honest(cache[b])

HandlerInv ==
  \A j \in Jobs :
    /\ pc[j] = "reading" => asked[j] <= now /\ now <= asked[j] + StoreTimeout
    /\ pc[j] = "hit" => Honest(found[j]) /\ now - found[j].at <= TimeToLive + StoreTimeout

\* Where the refresher is tells how old its clock is, and that its token outlasts
\* the read of it.
ClockInv ==
  /\ Working => branch \in Branches /\ started <= since /\ since <= now
  /\ stage \in {"read", "write"} => now <= since + StoreTimeout
  /\ stage \in {"mint", "get"} => now <= since + RequestTimeout
  /\ stage = "read" => since = started
  /\ stage = "get" => token # None /\ since + RequestTimeout < token
  /\ stage = "write" => since - trueAt <= RequestTimeout

\* Past its look at the cache, the refresher is about to replace no fresh row.
StaleInv ==
  stage \in {"mint", "get", "write"} /\ cache[branch] # None =>
    cache[branch].at < started - TimeToLive

TimeInv == CacheInv /\ HandlerInv /\ ClockInv /\ StaleInv

IInv == TypeOK /\ TimeInv /\ AnswersAreRecent

LEMMA EmptyQueue == <<>> \in Seq(Branches) /\ Len(<<>>) <= QueueCapacity
<1>1. QueueCapacity \in Nat
  BY ChecksAssumption
<1>2. <<>> \in Seq(Branches) /\ Len(<<>>) = 0
  OBVIOUS
<1> QED BY <1>1, <1>2

LEMMA InitIInv == Init => IInv
<1> SUFFICES ASSUME Init PROVE IInv
  OBVIOUS
<1>1. TypeOK
  BY EmptyQueue DEF Init, TypeOK
<1>2. TimeInv /\ AnswersAreRecent
  BY DEF Init, TimeInv, CacheInv, HandlerInv, ClockInv, StaleInv, Working, AnswersAreRecent
<1> QED BY <1>1, <1>2 DEF IInv

-----------------------------------------------------------------------------
LEMMA TypeInductive == IInv /\ [Next]_vars => TypeOK'
<1> SUFFICES ASSUME IInv, [Next]_vars PROVE TypeOK'
  OBVIOUS
<1>t. TypeOK
  BY DEF IInv
<1>e. CacheInv /\ HandlerInv /\ ClockInv
  BY DEF IInv, TimeInv
<1> USE DEF TypeOK, handlers, refresher
<1>1. ASSUME NEW j \in Jobs, Ask(j) PROVE TypeOK'
  BY <1>t, <1>1 DEF Ask
<1>2. ASSUME NEW j \in Jobs, Read(j) PROVE TypeOK'
  <2>1. cache[BranchOf[j]] \in Entry \union {None}
    BY <1>t, ChecksAssumption
  <2> QED BY <1>t, <1>2, <2>1 DEF Read
<1>3. ASSUME NEW j \in Jobs, Resolve(j) PROVE TypeOK'
  <2>1. pc[j] = "hit" => [entry |-> found[j], at |-> now] \in [entry : Entry, at : Nat]
    BY <1>t, <1>e DEF HandlerInv, Honest
  <2>2. used' \in [Jobs -> [entry : Entry, at : Nat] \union {None}]
    BY <1>t, <1>3, <2>1 DEF Resolve
  <2>3. BranchOf[j] \in Branches
    BY ChecksAssumption
  <2>4. queue' \in Seq(Branches) /\ Len(queue') <= QueueCapacity
    <3>1. CASE queue' = queue
      BY <1>t, <3>1
    <3>2. CASE queue' = Append(queue, BranchOf[j]) /\ Len(queue) < QueueCapacity
      BY <1>t, <2>3, <3>2, ChecksAssumption
    <3> QED BY <1>3, <3>1, <3>2 DEF Resolve, Request
  <2> QED BY <1>t, <1>3, <2>2, <2>4 DEF Resolve
<1>4. ASSUME NEW j \in Jobs, Drop(j) PROVE TypeOK'
  BY <1>t, <1>4 DEF Drop
<1>5. CASE Take
  <2>1. Head(queue) \in Branches /\ Tail(queue) \in Seq(Branches) /\ Len(Tail(queue)) <= QueueCapacity
    BY <1>t, <1>5, ChecksAssumption DEF Take
  <2> QED BY <1>t, <1>5, <2>1 DEF Take, Await
<1>6. CASE ReadCache
  BY <1>t, <1>6 DEF ReadCache, Return, Forgotten, Await
<1>7. CASE Mint
  <2>1. CASE Return /\ UNCHANGED token
    BY <1>t, <1>7, <2>1 DEF CallFails, Mint, Return, Forgotten
  <2>2. CASE /\ \E issued \in since .. now : token' = issued + TokenLifetime
             /\ Await("get") /\ UNCHANGED <<branch, started, trueAt>>
    <3>1. token' \in Nat
      BY <1>t, <2>2, ChecksAssumption
    <3> QED BY <1>t, <1>7, <2>2, <3>1 DEF CallFails, Mint, Await
  <2> QED BY <1>7, <2>1, <2>2 DEF CallFails, Mint
<1>8. CASE Get
  BY <1>t, <1>8 DEF CallFails, Get, Return, Forgotten, Await
<1>9. CASE Write
  <2>1. CASE UNCHANGED cache
    BY <1>t, <1>9, <2>1 DEF Write, Return, Forgotten
  <2>2. CASE cache' = [cache EXCEPT ![branch] = [at |-> now, trueAt |-> trueAt]]
    <3>1. [at |-> now, trueAt |-> trueAt] \in Entry
      BY <1>t DEF Entry
    <3> QED BY <1>t, <1>9, <2>2, <3>1 DEF Write, Return, Forgotten
  <2> QED BY <1>9, <2>1, <2>2 DEF Write
<1>10. CASE Stop \/ Abort
  <2>1. queue' \in Seq(Branches) /\ Len(queue') <= QueueCapacity
    <3>1. queue' = <<>>
      BY <1>10 DEF Stop, Abort, Halt
    <3> QED BY <3>1, EmptyQueue
  <2> QED BY <1>t, <1>10, <2>1 DEF Stop, Abort, Halt, Forgotten
<1>11. CASE Cancel
  BY <1>t, <1>11 DEF Cancel
<1>12. CASE Crash
  <2>1. queue' \in Seq(Branches) /\ Len(queue') <= QueueCapacity
    <3>1. queue' = <<>>
      BY <1>12 DEF Crash
    <3> QED BY <3>1, EmptyQueue
  <2>2. pc' \in [Jobs -> {"start", "reading", "hit", "miss", "failed", "done", "dropped"}]
    BY <1>t, <1>12 DEF Crash
  <2>3. asked' \in [Jobs -> Nat] /\ found' \in [Jobs -> Entry \union {None}]
    BY <1>12 DEF Crash
  <2>4. /\ cache' \in [Branches -> Entry \union {None}]
        /\ used' \in [Jobs -> [entry : Entry, at : Nat] \union {None}]
        /\ now' \in Nat /\ crashes' \in Nat
        /\ stage' = "idle" /\ token' = None /\ cancelled' = FALSE
        /\ branch' = None /\ started' = 0 /\ since' = 0 /\ trueAt' = 0
    BY <1>t, <1>12 DEF Crash, Forgotten
  <2> QED BY <2>1, <2>2, <2>3, <2>4
<1>13. CASE Prune
  <2>1. cache' \in [Branches -> Entry \union {None}]
    BY <1>t, <1>13 DEF Prune
  <2> QED BY <1>t, <1>13, <2>1 DEF Prune
<1>14. CASE Tick
  BY <1>t, <1>14 DEF Tick
<1>15. CASE UNCHANGED vars
  BY <1>t, <1>15 DEF vars
<1> QED BY <1>1, <1>2, <1>3, <1>4, <1>5, <1>6, <1>7, <1>8, <1>9, <1>10, <1>11, <1>12,
           <1>13, <1>14, <1>15 DEF Next, Handle, Serve, Idle
-----------------------------------------------------------------------------
(* Where the rows and the clock move, seen from the rows.                  *)

Quiet ==
  \/ \E j \in Jobs : Handle(j)
  \/ Take \/ ReadCache \/ Mint \/ Get \/ Stop \/ Abort \/ Cancel \/ Crash \/ Idle

LEMMA QuietKeepsRows == Quiet => UNCHANGED <<cache, now>>
  BY DEF CallFails, Quiet, Handle, Ask, Read, Resolve, Drop, Take, ReadCache, Mint, Get, Stop, Abort,
         Halt, Cancel, Crash, Idle, vars

LEMMA Steps == [Next]_vars => Quiet \/ Write \/ Prune \/ Tick \/ UNCHANGED vars
  BY DEF Next, Serve, Quiet

LEMMA CacheInductive == IInv /\ [Next]_vars => CacheInv'
<1> SUFFICES ASSUME IInv, [Next]_vars PROVE CacheInv'
  OBVIOUS
<1>t. TypeOK /\ CacheInv /\ ClockInv
  BY DEF IInv, TimeInv
<1> USE DEF CacheInv, Honest
<1>1. CASE UNCHANGED <<cache, now>>
  BY <1>t, <1>1
<1>2. CASE Write
  <2>1. Honest([at |-> now, trueAt |-> trueAt])
    <3>1. [at |-> now, trueAt |-> trueAt] \in Entry
      BY <1>t DEF TypeOK, Entry
    <3>2. now - trueAt <= RequestTimeout + StoreTimeout
      BY <1>t, <1>2, ChecksAssumption DEF Write, ClockInv, TypeOK
    <3> QED BY <1>t, <3>1, <3>2 DEF TypeOK
  <2>2. now' = now
    BY <1>2 DEF Write
  <2> SUFFICES ASSUME NEW b \in Branches, cache'[b] # None, cache'[b] # cache[b]
               PROVE  cache'[b] = [at |-> now, trueAt |-> trueAt]
    BY <1>t, <2>1, <2>2
  <2> QED BY <1>t, <1>2 DEF Write, TypeOK
<1>3. CASE Prune
  <2>1. now' = now /\ \A b \in Branches : cache'[b] \in {cache[b], None}
    BY <1>t, <1>3 DEF Prune
  <2> QED BY <1>t, <2>1
<1>4. CASE Tick
  <2>1. cache' = cache /\ now' = now + 1 /\ now \in Nat
    BY <1>t, <1>4 DEF Tick, TypeOK
  <2>2. \A b \in Branches : cache[b] # None => cache[b].at \in Nat
    BY <1>t DEF Entry
  <2> QED BY <1>t, <2>1, <2>2
<1> QED BY <1>1, <1>2, <1>3, <1>4, Steps, QuietKeepsRows DEF vars

LEMMA HandlerInductive == IInv /\ [Next]_vars => HandlerInv'
<1> SUFFICES ASSUME IInv, [Next]_vars, NEW j \in Jobs
             PROVE  /\ pc'[j] = "reading" => asked'[j] <= now' /\ now' <= asked'[j] + StoreTimeout
                    /\ pc'[j] = "hit" => /\ Honest(found[j])'
                                         /\ now' - found'[j].at <= TimeToLive + StoreTimeout
  BY DEF HandlerInv
<1>t. TypeOK /\ CacheInv /\ HandlerInv
  BY DEF IInv, TimeInv
<1>n. now \in Nat /\ StoreTimeout \in Nat /\ TimeToLive \in Nat
  BY <1>t, ChecksAssumption DEF TypeOK
<1>1. CASE now' = now /\ pc'[j] = pc[j] /\ asked'[j] = asked[j] /\ found'[j] = found[j]
  BY <1>t, <1>1 DEF HandlerInv, Honest
<1>2. CASE now' = now /\ pc'[j] \notin {"reading", "hit"}
  BY <1>2
<1>3. ASSUME NEW i \in Jobs, Ask(i)
      PROVE  \/ now' = now /\ pc'[j] = pc[j] /\ asked'[j] = asked[j] /\ found'[j] = found[j]
             \/ now' = now /\ pc'[j] = "reading" /\ asked'[j] = now
  BY <1>t, <1>3 DEF Ask, TypeOK
<1>4. ASSUME NEW i \in Jobs, Read(i)
      PROVE  \/ now' = now /\ pc'[j] = pc[j] /\ asked'[j] = asked[j] /\ found'[j] = found[j]
             \/ now' = now /\ pc'[j] \notin {"reading", "hit"}
             \/ /\ now' = now /\ pc[j] = "reading" /\ Fresh(BranchOf[j], asked[j])
                /\ pc'[j] = "hit" /\ found'[j] = cache[BranchOf[j]]
  BY <1>t, <1>4 DEF Read, TypeOK
<1>5. ASSUME NEW i \in Jobs, Resolve(i) \/ Drop(i)
      PROVE  \/ now' = now /\ pc'[j] = pc[j] /\ asked'[j] = asked[j] /\ found'[j] = found[j]
             \/ now' = now /\ pc'[j] \notin {"reading", "hit"}
  BY <1>t, <1>5 DEF Resolve, Drop, TypeOK
<1>6. CASE now' = now /\ pc'[j] = "reading" /\ asked'[j] = now
  BY <1>n, <1>6
<1>7. CASE /\ now' = now /\ pc[j] = "reading" /\ Fresh(BranchOf[j], asked[j])
           /\ pc'[j] = "hit" /\ found'[j] = cache[BranchOf[j]]
  <2>1. BranchOf[j] \in Branches /\ asked[j] \in Nat
    BY <1>t, ChecksAssumption DEF TypeOK
  <2>2. Honest(cache[BranchOf[j]]) /\ cache[BranchOf[j]].at \in Nat
    BY <1>t, <1>7, <2>1 DEF CacheInv, Fresh, Honest, Entry
  <2>3. cache[BranchOf[j]].at >= asked[j] - TimeToLive /\ now <= asked[j] + StoreTimeout
    BY <1>t, <1>7 DEF Fresh, HandlerInv
  <2>4. now - cache[BranchOf[j]].at <= TimeToLive + StoreTimeout
    BY <1>n, <2>1, <2>2, <2>3
  <2> QED BY <1>7, <2>2, <2>4 DEF Honest
<1>8. CASE Crash
  <2>1. pc'[j] \notin {"reading", "hit"} /\ now' = now
    BY <1>t, <1>8 DEF Crash, TypeOK
  <2> QED BY <2>1
<1>9. CASE Tick
  <2>1. /\ now' = now + 1 /\ pc' = pc /\ asked' = asked
        /\ pc[j] = "reading" => now < asked[j] + StoreTimeout
        /\ pc[j] # "hit"
    BY <1>9 DEF Tick, Timely, handlers
  <2>2. asked[j] \in Nat
    BY <1>t DEF TypeOK
  <2> QED BY <1>t, <1>n, <2>1, <2>2 DEF HandlerInv
<1>10. CASE Serve \/ Abort \/ Cancel \/ Prune \/ Idle \/ UNCHANGED vars
  <2>1. now' = now /\ handlers' = handlers
    BY <1>10 DEF CallFails, Serve, Take, ReadCache, Mint, Get, Write, Stop, Abort, Halt, Cancel, Prune,
                 Idle, vars
  <2> QED BY <1>1, <2>1 DEF handlers
<1> QED BY <1>1, <1>2, <1>3, <1>4, <1>5, <1>6, <1>7, <1>8, <1>9, <1>10 DEF Next, Handle

LEMMA ClockInductive == IInv /\ [Next]_vars => ClockInv'
<1> SUFFICES ASSUME IInv, [Next]_vars PROVE ClockInv'
  OBVIOUS
<1>t. TypeOK /\ ClockInv
  BY DEF IInv, TimeInv
<1>n. /\ now \in Nat /\ since \in Nat /\ started \in Nat /\ trueAt \in Nat
      /\ StoreTimeout \in Nat /\ RequestTimeout \in Nat
  BY <1>t, ChecksAssumption DEF TypeOK
<1> USE DEF ClockInv, Working
<1>1. ASSUME NEW j \in Jobs, Handle(j) PROVE now' = now /\ refresher' = refresher
  BY <1>1 DEF Handle, Ask, Read, Resolve, Drop
<1>2. CASE now' = now /\ refresher' = refresher
  BY <1>t, <1>2 DEF refresher
<1>3. CASE Cancel \/ Prune \/ Idle \/ UNCHANGED vars
  BY <1>2, <1>3 DEF Cancel, Prune, Idle, vars
<1>4. CASE stage' \in {"idle", "stopped"}
  BY <1>4
<1>5. CASE Write \/ Stop \/ Abort \/ Crash
  BY <1>4, <1>5 DEF Write, Return, Stop, Abort, Halt, Crash
<1>6. CASE Take
  <2>1. Head(queue) \in Branches
    BY <1>t, <1>6 DEF Take, TypeOK
  <2> QED BY <1>n, <1>6, <2>1 DEF Take, Await
<1>7. CASE ReadCache
  <2>1. CASE Return
    BY <1>4, <2>1 DEF Return
  <2>2. CASE Await(IF TokenUsable THEN "get" ELSE "mint") /\ UNCHANGED <<branch, started, trueAt>>
    <3>1. /\ now' = now /\ since' = now /\ token' = token
          /\ stage' = IF TokenUsable THEN "get" ELSE "mint"
          /\ since = started /\ branch \in Branches /\ now <= started + StoreTimeout
      BY <1>t, <1>7, <2>2 DEF ReadCache, Await
    <3>2. TokenUsable => token # None /\ now + RequestTimeout < token
      BY <1>t, <1>n, <3>1, ChecksAssumption DEF TokenUsable, TypeOK
    <3> QED BY <1>t, <1>n, <1>7, <2>2, <3>1, <3>2 DEF ReadCache
  <2> QED BY <1>7, <2>1, <2>2 DEF ReadCache
<1>8. CASE Mint
  <2>1. CASE Return
    BY <1>4, <2>1 DEF Return
  <2>2. CASE /\ \E issued \in since .. now : token' = issued + TokenLifetime
             /\ Await("get") /\ UNCHANGED <<branch, started, trueAt>>
    <3>1. PICK issued \in since .. now : token' = issued + TokenLifetime
      BY <2>2
    <3>2. now' = now /\ now <= since + RequestTimeout
      BY <1>t, <1>8 DEF CallFails, Mint
    <3>3. token' # None /\ now + RequestTimeout < token'
      BY <1>n, <3>1, <3>2, ChecksAssumption
    <3> QED BY <1>t, <1>n, <1>8, <2>2, <3>2, <3>3 DEF CallFails, Mint, Await
  <2> QED BY <1>8, <2>1, <2>2 DEF CallFails, Mint
<1>9. CASE Get
  <2>1. CASE Return
    BY <1>4, <2>1 DEF Return
  <2>2. CASE /\ \E answered \in since .. now : trueAt' = answered
             /\ Await("write") /\ UNCHANGED <<branch, started>>
    <3>1. now' = now /\ now <= since + RequestTimeout
      BY <1>t, <1>9 DEF CallFails, Get
    <3>2. now - trueAt' <= RequestTimeout
      BY <1>n, <2>2, <3>1
    <3> QED BY <1>t, <1>n, <1>9, <2>2, <3>1, <3>2 DEF CallFails, Get, Await
  <2> QED BY <1>9, <2>1, <2>2 DEF CallFails, Get
<1>10. CASE Tick
  <2>1. now' = now + 1 /\ refresher' = refresher /\ Timely
    BY <1>10 DEF Tick
  <2> QED BY <1>t, <1>n, <2>1 DEF Timely, refresher
<1> QED BY <1>1, <1>2, <1>3, <1>5, <1>6, <1>7, <1>8, <1>9, <1>10 DEF Next, Serve

LEMMA StaleInductive == IInv /\ [Next]_vars => StaleInv'
<1> SUFFICES ASSUME IInv, [Next]_vars, stage' \in {"mint", "get", "write"}, cache'[branch'] # None
             PROVE  cache'[branch'].at < started' - TimeToLive
  BY DEF StaleInv
<1>t. TypeOK /\ ClockInv /\ StaleInv
  BY DEF IInv, TimeInv
<1>1. CASE ReadCache
  <2>1. ~Fresh(branch, started) /\ branch' = branch /\ started' = started /\ cache' = cache
    BY <1>1 DEF ReadCache, Return
  <2>2. cache[branch] \in Entry /\ started \in Nat
    BY <1>t, <1>1, <2>1 DEF ReadCache, ClockInv, Working, TypeOK
  <2> QED BY <2>1, <2>2, ChecksAssumption DEF Fresh, Entry
<1>2. CASE /\ stage \in {"mint", "get", "write"} /\ branch' = branch /\ started' = started
           /\ \A b \in Branches : cache'[b] \in {cache[b], None}
  BY <1>t, <1>2 DEF StaleInv, ClockInv, Working
<1>3. CASE Mint \/ Get
  <2>1. /\ stage \in {"mint", "get"} /\ branch' = branch /\ started' = started
        /\ cache' = cache
    BY <1>3 DEF CallFails, Mint, Get, Return
  <2> QED BY <1>2, <2>1
<1>4. CASE Take \/ Write \/ Stop \/ Abort \/ Crash
  BY <1>4 DEF Take, Await, Write, Return, Stop, Abort, Halt, Crash
<1>5. CASE Prune
  <2>1. /\ refresher' = refresher
        /\ \A b \in Branches : cache'[b] \in {cache[b], None}
    BY <1>5 DEF Prune
  <2> QED BY <1>2, <2>1 DEF refresher
<1>6. ASSUME NEW j \in Jobs, Handle(j) PROVE refresher' = refresher /\ cache' = cache
  BY <1>6 DEF Handle, Ask, Read, Resolve, Drop
<1>7. CASE refresher' = refresher /\ cache' = cache
  BY <1>2, <1>7 DEF refresher
<1>8. CASE Cancel \/ Tick \/ Idle \/ UNCHANGED vars
  BY <1>7, <1>8 DEF Cancel, Tick, Idle, vars
<1> QED BY <1>1, <1>3, <1>4, <1>5, <1>6, <1>7, <1>8 DEF Next, Serve

LEMMA AnswersInductive == IInv /\ [Next]_vars => AnswersAreRecent'
<1> SUFFICES ASSUME IInv, [Next]_vars PROVE AnswersAreRecent'
  OBVIOUS
<1>t. TypeOK /\ HandlerInv /\ AnswersAreRecent
  BY DEF IInv, TimeInv
<1>1. CASE used' = used
  BY <1>t, <1>1 DEF AnswersAreRecent
<1>2. ASSUME NEW i \in Jobs, Resolve(i) PROVE AnswersAreRecent'
  <2>1. CASE pc[i] # "hit"
    BY <1>1, <1>2, <2>1 DEF Resolve
  <2>2. CASE pc[i] = "hit"
    <3>1. /\ found[i].at \in Nat /\ found[i].trueAt \in Nat /\ now \in Nat
          /\ found[i].at - found[i].trueAt <= RequestTimeout + StoreTimeout
          /\ now - found[i].at <= TimeToLive + StoreTimeout
      BY <1>t, <2>2 DEF HandlerInv, Honest, Entry, TypeOK
    <3>2. now - found[i].trueAt <= TimeToLive + RequestTimeout + 2 * StoreTimeout
      BY <3>1, ChecksAssumption
    <3>3. used' = [used EXCEPT ![i] = [entry |-> found[i], at |-> now]]
      BY <1>2, <2>2 DEF Resolve
    <3> QED BY <1>t, <3>2, <3>3 DEF AnswersAreRecent, TypeOK
  <2> QED BY <2>1, <2>2
<1>3. ASSUME NEW i \in Jobs, Ask(i) \/ Read(i) \/ Drop(i) PROVE used' = used
  BY <1>3 DEF Ask, Read, Drop
<1>4. CASE Serve \/ Abort \/ Cancel \/ Crash \/ Prune \/ Tick \/ Idle \/ UNCHANGED vars
  <2>1. used' = used
    BY <1>4 DEF CallFails, Serve, Take, ReadCache, Mint, Get, Write, Stop, Abort, Halt, Cancel, Crash,
                Prune, Tick, Idle, vars, handlers
  <2> QED BY <1>1, <2>1
<1> QED BY <1>1, <1>2, <1>3, <1>4 DEF Next, Handle

THEOREM Inductive == Spec => []IInv
<1>1. IInv /\ [Next]_vars => IInv'
  BY TypeInductive, CacheInductive, HandlerInductive, ClockInductive, StaleInductive,
     AnswersInductive DEF IInv, TimeInv
<1> QED BY InitIInv, <1>1, PTL DEF Spec

-----------------------------------------------------------------------------
\* Every reachable state is well typed; the queue of refreshes keeps its bound.
THEOREM TypeCorrect == Spec => []TypeOK
<1>1. IInv => TypeOK
  BY DEF IInv
<1> QED BY Inductive, <1>1, PTL

\* An emitted answer was GitHub's within the time to live, two waits for the store
\* and one for GitHub.
THEOREM EmittedAnswersAreRecent == Spec => []AnswersAreRecent
<1>1. IInv => AnswersAreRecent
  BY DEF IInv
<1> QED BY Inductive, <1>1, PTL

\* The installation token outlasts every read that carries it.
THEOREM TokenOutlastsRead == Spec => []TokenIsLive
<1>1. IInv => TokenIsLive
  <2> SUFFICES ASSUME IInv, stage = "get" PROVE token # None /\ now < token
    BY DEF TokenIsLive
  <2>1. /\ token # None /\ since + RequestTimeout < token /\ now <= since + RequestTimeout
        /\ token \in Nat /\ now \in Nat /\ since \in Nat
    BY DEF IInv, TimeInv, ClockInv, TypeOK
  <2> QED BY <2>1, ChecksAssumption
<1> QED BY Inductive, <1>1, PTL

\* The answer of a branch is replaced only when it has outlived its time to live.
THEOREM AnswersReplacedWhenStale == Spec => OneAnswerPerWindow
<1>1. IInv /\ [Next]_vars =>
        [\A b \in Branches :
           cache[b] # None /\ cache'[b] # None /\ cache'[b] # cache[b] =>
             cache'[b].at - cache[b].at > TimeToLive]_vars
  <2> SUFFICES ASSUME IInv, Next, NEW b \in Branches,
                      cache[b] # None, cache'[b] # None, cache'[b] # cache[b]
               PROVE  cache'[b].at - cache[b].at > TimeToLive
    OBVIOUS
  <2>t. TypeOK /\ CacheInv /\ ClockInv /\ StaleInv
    BY DEF IInv, TimeInv
  <2>1. CASE Write
    <3>1. /\ b = branch /\ cache'[b] = [at |-> now, trueAt |-> trueAt]
          /\ stage = "write"
      BY <2>t, <2>1 DEF Write, TypeOK
    <3>2. cache[b].at < started - TimeToLive /\ started <= now
      BY <2>t, <3>1 DEF StaleInv, ClockInv, Working, TypeOK
    <3>3. cache[b].at \in Nat /\ started \in Nat /\ now \in Nat
      BY <2>t DEF CacheInv, Honest, Entry, TypeOK
    <3> QED BY <3>1, <3>2, <3>3, ChecksAssumption
  <2>2. CASE Prune
    BY <2>2 DEF Prune
  <2>3. CASE Tick
    BY <2>3 DEF Tick
  <2> QED BY <2>1, <2>2, <2>3, Steps, QuietKeepsRows DEF vars
<1> QED BY Inductive, <1>1, PTL DEF Spec, OneAnswerPerWindow

\* Pruning removes no row that a read could still return.
THEOREM PrunedRowsAreStale == Spec => PruningHidesNothing
<1>1. IInv /\ [Next]_vars =>
        [\A b \in Branches :
           cache[b] # None /\ cache'[b] = None => now - cache[b].at > TimeToLive]_vars
  <2> SUFFICES ASSUME IInv, Next, NEW b \in Branches, cache[b] # None, cache'[b] = None
               PROVE  now - cache[b].at > TimeToLive
    OBVIOUS
  <2>t. TypeOK /\ CacheInv
    BY DEF IInv, TimeInv
  <2>1. CASE Write
    <3>1. [at |-> now, trueAt |-> trueAt] # None
      BY <2>t, ChecksAssumption DEF TypeOK
    <3> QED BY <2>t, <2>1, <3>1 DEF Write, TypeOK
  <2>2. CASE Prune
    <3>1. PICK cutoff \in 0 .. now - Retention : cache[b].at < cutoff
      BY <2>t, <2>2 DEF Prune
    <3>2. cache[b].at \in Nat /\ now \in Nat
      BY <2>t DEF CacheInv, Honest, Entry, TypeOK
    <3> QED BY <3>1, <3>2, ChecksAssumption
  <2>3. CASE Tick
    BY <2>3 DEF Tick
  <2> QED BY <2>1, <2>2, <2>3, Steps, QuietKeepsRows DEF vars
<1> QED BY Inductive, <1>1, PTL DEF Spec, PruningHidesNothing
=============================================================================
