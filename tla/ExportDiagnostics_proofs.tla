--------------------- MODULE ExportDiagnostics_proofs ---------------------
(***************************************************************************)
(* Proofs about the admission boundary and about what is told of it, for   *)
(* any finite number of records, any capacity, any batch size and any      *)
(* interval between lines.  The first part is about AdmissionBoundary by   *)
(* itself.  The specification with its diagnostics implements the          *)
(* boundary, so all of that holds underneath; and however requests,        *)
(* exports and the provider fail and however many threads drop records at  *)
(* once, every failure and every drop is told once.                        *)
(***************************************************************************)
EXTENDS ExportDiagnostics, FiniteSetTheorems, WellFoundedInduction, TLAPS

LEMMA FiniteCardinality ==
  ASSUME NEW S \in SUBSET Records
  PROVE  IsFiniteSet(S) /\ Cardinality(S) \in Nat
BY BoundaryAssumption, FS_Subset, FS_CardinalityType

LEMMA ReleasedType ==
  ASSUME pending \in Nat, NEW count \in Nat
  PROVE  Released(count) \in Nat /\ Released(count) <= pending
BY DEF Released

LEMMA HoldersType == TypeOK => Holders \subseteq Records
BY DEF TypeOK, Holders

LEMMA TypeInductive == TypeOK /\ [Next]_vars => TypeOK'
<1> SUFFICES ASSUME TypeOK, [Next]_vars PROVE TypeOK'
  OBVIOUS
<1> USE DEF TypeOK, boundary, threads, sdk, runtime, history, Goto
<1>1. ASSUME NEW r \in Records, OnEnd(r) PROVE TypeOK'
  <2>1. CASE CheckClosed(r)
    BY <2>1 DEF CheckClosed
  <2>2. CASE LoadPending(r)
    BY <2>2 DEF LoadPending
  <2>3. CASE Exchange(r)
    BY <2>3 DEF Exchange
  <2>4. CASE RecheckClosed(r)
    BY <2>4 DEF RecheckClosed
  <2>5. CASE ReleaseOwn(r)
    BY <2>5, ReleasedType DEF ReleaseOwn
  <2>6. CASE RecordDrop(r)
    BY <2>6 DEF RecordDrop
  <2>7. CASE Send(r)
    BY <2>7 DEF Send
  <2> QED BY <1>1, <2>1, <2>2, <2>3, <2>4, <2>5, <2>6, <2>7 DEF OnEnd
<1>2. CASE Worker
  <2>1. CASE TakeBatch
    BY <2>1 DEF TakeBatch
  <2>2. CASE BeginExport
    BY <2>2, FiniteCardinality, ReleasedType DEF BeginExport
  <2>3. CASE ExportReturns
    BY <2>3 DEF ExportReturns
  <2>4. CASE WorkerStops
    BY <2>4 DEF WorkerStops
  <2> QED BY <1>2, <2>1, <2>2, <2>3, <2>4 DEF Worker
<1>3. CASE Close \/ Shutdown
  <2>1. CASE Close
    <3>1. closed' \in BOOLEAN
      BY <2>1, Zenon DEF Close
    <3> QED BY <2>1, <3>1 DEF Close
  <2>2. CASE StopProvider
    <3>1. stopping' \in BOOLEAN
      BY <2>2, Zenon DEF StopProvider
    <3> QED BY <2>2, <3>1 DEF StopProvider
  <2>3. CASE DropPending
    <3>1. finalized' \in BOOLEAN
      BY <2>3, Zenon DEF DropPending
    <3> QED BY <2>3, <3>1, HoldersType DEF DropPending
  <2>4. CASE ProviderReturns \/ CountStranded
    BY <2>4 DEF ProviderReturns, CountStranded
  <2> QED BY <1>3, <2>1, <2>2, <2>3, <2>4 DEF Shutdown
<1>4. CASE Idle \/ UNCHANGED vars
  BY <1>4 DEF Idle, vars
<1> QED BY <1>1, <1>2, <1>3, <1>4 DEF Next

\* Every variable keeps its type; pending never goes below zero.
THEOREM TypeCorrect == Spec => []TypeOK
<1>1. Init => TypeOK
  <2>1. Init => closed \in BOOLEAN /\ finalized \in BOOLEAN /\ stopping \in BOOLEAN
    BY Zenon DEF Init
  <2> QED BY <2>1 DEF Init, TypeOK
<1> QED BY <1>1, TypeInductive, PTL DEF Spec

-----------------------------------------------------------------------------
(* The inductive invariant.                                                  *)

\* How far the shutdown is decides every flag it sets.
PhaseInv ==
  /\ finalized <=> shutdown \in {"counting", "stopped"}
  /\ closed <=> shutdown # "running"
  /\ stopping => shutdown \notin {"running", "closed"}
  /\ worker = "stopped" => stopping

\* A record is in one place at a time.
PlaceInv ==
  /\ \A r \in queue \union batch \union discarded \union overflowed \union exported
              \union recorded : pc[r] = "done"
  /\ worker \in {"idle", "stopped"} => batch = {}
  /\ worker = "taken" => batch \intersect exported = {}
  /\ exported \intersect (queue \union discarded \union overflowed \union recorded) = {}
  /\ recorded \intersect (queue \union batch \union discarded \union overflowed) = {}
  /\ queue \intersect (batch \union discarded \union overflowed) = {}
  /\ batch \intersect (discarded \union overflowed) = {}

Leaving == {r \in Records : pc[r] \in {"recheck", "release"}}
Sending == {r \in Records : pc[r] = "send"}

\* pending counts the holders, then at most the threads on their way out, and
\* whoever is about to send has room.
SlotInv ==
  /\ \A r \in Records : pc[r] = "exchange" => seen[r] < Capacity
  /\ PendingCountsHolders
  /\ finalized => pending <= Cardinality(Leaving)
  /\ Cardinality(queue \union Sending) <= Capacity
  /\ overflowed = {}

\* A record that is done is exported, counted, or still holds a slot that
\* drop_pending has counted or will count.
SettledInv ==
  /\ \A r \in Records : pc[r] = "done" => r \in exported \union recorded \union writtenOff
                                                \union Holders
  /\ finalized => \A r \in Holders \ Leaving : r \in writtenOff
  /\ finalized \/ writtenOff = {}
  /\ writtenOff \intersect exported = {}
  /\ dropped = Cardinality(recorded) + (IF shutdown = "stopped" THEN stranded ELSE 0)
  /\ finalized => stranded = Cardinality(writtenOff)

BoundaryInv == TypeOK /\ PhaseInv /\ PlaceInv /\ SlotInv /\ SettledInv

LEMMA PhaseInductive == TypeOK /\ PhaseInv /\ [Next]_vars => PhaseInv'
<1> SUFFICES ASSUME TypeOK, PhaseInv, [Next]_vars PROVE PhaseInv'
  OBVIOUS
<1> USE DEF TypeOK, PhaseInv, boundary, threads, sdk, runtime, history
<1>1. ASSUME NEW r \in Records, OnEnd(r) PROVE PhaseInv'
  BY <1>1 DEF OnEnd, CheckClosed, LoadPending, Exchange, RecheckClosed, ReleaseOwn,
              RecordDrop, Send
<1>2. CASE Worker
  BY <1>2 DEF Worker, TakeBatch, BeginExport, ExportReturns, WorkerStops
<1>3. CASE Close \/ Shutdown
  BY <1>3 DEF Close, Shutdown, StopProvider, ProviderReturns, DropPending, CountStranded
<1>4. CASE Idle \/ UNCHANGED vars
  BY <1>4 DEF Idle, vars
<1> QED BY <1>1, <1>2, <1>3, <1>4 DEF Next

LEMMA PlaceInductive == TypeOK /\ PlaceInv /\ [Next]_vars => PlaceInv'
<1> SUFFICES ASSUME TypeOK, PlaceInv, [Next]_vars PROVE PlaceInv'
  OBVIOUS
<1> USE DEF TypeOK, PlaceInv, boundary, threads, sdk, runtime, history, Goto
<1>1. ASSUME NEW r \in Records, OnEnd(r) PROVE PlaceInv'
  <2>1. CASE CheckClosed(r) \/ LoadPending(r) \/ Exchange(r) \/ RecheckClosed(r) \/ ReleaseOwn(r)
    BY <2>1 DEF CheckClosed, LoadPending, Exchange, RecheckClosed, ReleaseOwn
  <2>2. CASE RecordDrop(r)
    BY <2>2 DEF RecordDrop
  <2>3. CASE Send(r)
    BY <2>3 DEF Send
  <2> QED BY <1>1, <2>1, <2>2, <2>3 DEF OnEnd
<1>2. CASE Worker
  <2>1. CASE TakeBatch
    BY <2>1 DEF TakeBatch
  <2>2. CASE BeginExport
    BY <2>2 DEF BeginExport
  <2>3. CASE ExportReturns \/ WorkerStops
    BY <2>3 DEF ExportReturns, WorkerStops
  <2> QED BY <1>2, <2>1, <2>2, <2>3 DEF Worker
<1>3. CASE Close \/ Shutdown
  BY <1>3 DEF Close, Shutdown, StopProvider, ProviderReturns, DropPending, CountStranded
<1>4. CASE Idle \/ UNCHANGED vars
  BY <1>4 DEF Idle, vars
<1> QED BY <1>1, <1>2, <1>3, <1>4 DEF Next

\* Taking one element of a set of records in or out moves its cardinality by one.
LEMMA OneMore ==
  ASSUME NEW S \in SUBSET Records, NEW r \in Records
  PROVE  /\ Cardinality(S \union {r}) = IF r \in S THEN Cardinality(S) ELSE Cardinality(S) + 1
         /\ Cardinality(S \ {r}) = IF r \in S THEN Cardinality(S) - 1 ELSE Cardinality(S)
BY FiniteCardinality, FS_AddElement, FS_RemoveElement

LEMMA Smaller ==
  ASSUME NEW T \in SUBSET Records, NEW S \in SUBSET T
  PROVE  Cardinality(S) <= Cardinality(T)
BY FiniteCardinality, FS_Subset

\* A batch leaves the holders: its size is what begin_export releases.
LEMMA BatchLeaves ==
  ASSUME NEW H \in SUBSET Records, NEW B \in SUBSET H
  PROVE  Cardinality(H \ B) = Cardinality(H) - Cardinality(B)
<1>1. /\ IsFiniteSet(H \ B) /\ IsFiniteSet(B)
      /\ Cardinality(H) \in Nat /\ Cardinality(B) \in Nat /\ Cardinality(H \ B) \in Nat
  BY FiniteCardinality
<1>2. (H \ B) \union B = H /\ (H \ B) \intersect B = {}
  OBVIOUS
<1>3. Cardinality(H) = Cardinality(H \ B) + Cardinality(B) - Cardinality({})
  BY <1>1, <1>2, FS_Union
<1> QED BY <1>1, <1>3, FS_EmptySet

\* While its thread is on the way out or about to send, a record holds a slot and
\* is nowhere else.
LEMMA ThreadHolds ==
  ASSUME TypeOK, PlaceInv, NEW r \in Records
  PROVE  /\ pc[r] \in {"recheck", "release", "send"} => r \in Holders
         /\ pc[r] \notin {"recheck", "release", "send", "done"} => r \notin Holders
         /\ recorded \intersect Holders = {} /\ exported \intersect Holders = {}
BY DEF Holders, PlaceInv, TypeOK

LEMMA OnEndKeepsSlots ==
  ASSUME TypeOK, PhaseInv, PlaceInv, SlotInv, NEW r \in Records, OnEnd(r)
  PROVE  SlotInv'
<1> USE DEF TypeOK, Goto, boundary, threads, sdk, runtime, history
<1>h. Holders \subseteq Records /\ Cardinality(Holders) \in Nat
  BY HoldersType, FiniteCardinality
<1>l. Leaving \subseteq Records /\ Cardinality(Leaving) \in Nat
  BY FiniteCardinality DEF Leaving
<1>1. CASE CheckClosed(r) \/ LoadPending(r)
  <2>1. Holders' = Holders /\ Leaving' = Leaving /\ Sending' = Sending
    BY <1>1 DEF CheckClosed, LoadPending, Holders, Leaving, Sending
  <2> QED BY <1>1, <2>1, BoundaryAssumption, SMTT(20)
          DEF CheckClosed, LoadPending, SlotInv, PendingCountsHolders
<1>2. CASE Exchange(r)
  <2>1. CASE pending # seen[r]
    <3>1. Holders' = Holders /\ Leaving' = Leaving /\ Sending' = Sending
      BY <1>2, <2>1 DEF Exchange, Holders, Leaving, Sending
    <3> QED BY <1>2, <2>1, <3>1, BoundaryAssumption DEF Exchange, SlotInv, PendingCountsHolders
  <2>2. CASE pending = seen[r]
    <3>1. /\ Holders' = Holders \union {r} /\ Leaving' = Leaving \union {r}
          /\ Sending' = Sending /\ pending' = pending + 1 /\ r \notin Leaving
      BY <1>2, <2>2 DEF Exchange, Holders, Leaving, Sending
    <3>2. r \notin Holders /\ seen[r] < Capacity
      BY <1>2, ThreadHolds DEF Exchange, SlotInv
    <3>3. /\ Cardinality(Holders') = Cardinality(Holders) + 1
          /\ Cardinality(Leaving') = Cardinality(Leaving) + 1
      BY <1>h, <1>l, <3>1, <3>2, OneMore
    <3> QED BY <1>2, <2>2, <1>h, <1>l, <3>1, <3>2, <3>3, BoundaryAssumption
            DEF Exchange, SlotInv, PendingCountsHolders
  <2> QED BY <2>1, <2>2
<1>3. CASE RecheckClosed(r)
  <2>1. Holders' = Holders /\ UNCHANGED <<pending, finalized, closed, queue, overflowed, seen>>
    BY <1>3 DEF RecheckClosed, Holders
  <2>2. CASE closed
    <3>1. Leaving' = Leaving /\ Sending' = Sending
      BY <1>3, <2>2 DEF RecheckClosed, Leaving, Sending
    <3> QED BY <1>3, <2>1, <3>1 DEF RecheckClosed, SlotInv, PendingCountsHolders
  <2>3. CASE ~closed
    <3>1. ~finalized
      BY <2>3 DEF PhaseInv
    <3>2. (queue \union Sending)' \subseteq Holders
      BY <1>3 DEF RecheckClosed, Sending, Holders
    <3>3. Cardinality((queue \union Sending)') <= Capacity
      BY <1>h, <3>1, <3>2, Smaller, FiniteCardinality, BoundaryAssumption
         DEF SlotInv, PendingCountsHolders
    <3> QED BY <1>3, <2>1, <3>1, <3>3 DEF RecheckClosed, SlotInv, PendingCountsHolders
  <2> QED BY <2>2, <2>3
<1>4. CASE ReleaseOwn(r)
  <2>1. /\ Holders' = Holders \ {r} /\ Leaving' = Leaving \ {r} /\ Sending' = Sending
        /\ r \in Holders /\ r \in Leaving
    BY <1>4 DEF ReleaseOwn, Holders, Leaving, Sending, PlaceInv
  <2>2. /\ Cardinality(Holders') = Cardinality(Holders) - 1
        /\ Cardinality(Leaving') = Cardinality(Leaving) - 1
    BY <1>h, <1>l, <2>1, OneMore
  <2>3. Cardinality(Leaving') \in Nat /\ Cardinality(Holders') \in Nat
    BY <1>h, <1>l, <2>1, FiniteCardinality
  <2> QED BY <1>4, <1>h, <1>l, <2>1, <2>2, <2>3, BoundaryAssumption
          DEF ReleaseOwn, Released, SlotInv, PendingCountsHolders
<1>5. CASE RecordDrop(r)
  <2>1. Holders' = Holders /\ Leaving' = Leaving /\ Sending' = Sending
    BY <1>5 DEF RecordDrop, Holders, Leaving, Sending
  <2> QED BY <1>5, <2>1 DEF RecordDrop, SlotInv, PendingCountsHolders
<1>6. CASE Send(r)
  <2>1. Leaving' = Leaving /\ Sending' = Sending \ {r} /\ r \in Sending /\ r \notin queue
    BY <1>6 DEF Send, Leaving, Sending, PlaceInv
  <2>2. Holders' = Holders
    BY <1>6 DEF Send, Holders
  <2>3. queue' \subseteq queue \union {r}
    BY <1>6 DEF Send
  <2>4. Cardinality((queue \union Sending)') <= Capacity
    <3>1. (queue \union Sending)' \subseteq queue \union Sending
      BY <2>1, <2>3
    <3>2. queue \union Sending \in SUBSET Records
      BY DEF Sending
    <3> QED BY <3>1, <3>2, Smaller, FiniteCardinality, BoundaryAssumption DEF SlotInv
  <2>5. overflowed' = {}
    <3>1. queue \union {r} \in SUBSET (queue \union Sending)
      BY <2>1
    <3>2. queue \union Sending \in SUBSET Records
      BY DEF Sending
    <3>3. Cardinality(queue) + 1 <= Cardinality(queue \union Sending)
      <4>1. Cardinality(queue \union {r}) = Cardinality(queue) + 1
        BY <2>1, OneMore
      <4>2. Cardinality(queue \union {r}) <= Cardinality(queue \union Sending)
        BY <3>1, <3>2, Smaller
      <4> QED BY <4>1, <4>2
    <3>4. Cardinality(queue) < Capacity
      BY <3>2, <3>3, FiniteCardinality, BoundaryAssumption DEF SlotInv
    <3> QED BY <1>6, <3>4 DEF Send, SlotInv
  <2> QED BY <1>6, <2>1, <2>2, <2>4, <2>5 DEF Send, SlotInv, PendingCountsHolders
<1> QED BY <1>1, <1>2, <1>3, <1>4, <1>5, <1>6 DEF OnEnd

LEMMA WorkerKeepsSlots ==
  ASSUME TypeOK, PhaseInv, PlaceInv, SlotInv, Worker
  PROVE  SlotInv'
<1> USE DEF TypeOK, boundary, threads, sdk, runtime, history
<1>h. Holders \subseteq Records /\ Cardinality(Holders) \in Nat
  BY HoldersType, FiniteCardinality
<1>1. Leaving' = Leaving /\ Sending' = Sending /\ UNCHANGED <<pc, seen, finalized, overflowed>>
  BY DEF Worker, TakeBatch, BeginExport, ExportReturns, WorkerStops, Leaving, Sending
<1>2. Cardinality((queue \union Sending)') <= Capacity
  <2>1. queue' \in SUBSET queue /\ queue \union Sending \in SUBSET Records
    BY DEF Worker, TakeBatch, BeginExport, ExportReturns, WorkerStops, Sending
  <2>2. (queue \union Sending)' \in SUBSET (queue \union Sending)
    BY <1>1, <2>1
  <2> QED BY <2>1, <2>2, Smaller, FiniteCardinality, BoundaryAssumption DEF SlotInv
<1>3. pending' <= pending /\ pending' \in Nat
  <2>1. Cardinality(batch) \in Nat
    BY FiniteCardinality
  <2> QED BY <2>1, ReleasedType
          DEF Worker, TakeBatch, BeginExport, ExportReturns, WorkerStops
<1>4. PendingCountsHolders'
  <2> SUFFICES ASSUME ~finalized PROVE pending' = Cardinality(Holders') /\ pending' <= Capacity
    BY <1>1 DEF PendingCountsHolders
  <2>1. CASE TakeBatch
    <3>1. Holders' = Holders
      BY <2>1 DEF TakeBatch, Holders, PlaceInv
    <3> QED BY <2>1, <3>1 DEF TakeBatch, SlotInv, PendingCountsHolders
  <2>2. CASE BeginExport
    <3>1. Holders' = Holders \ batch /\ batch \in SUBSET Holders
      BY <2>2 DEF BeginExport, Holders, PlaceInv
    <3>2. Cardinality(Holders') = Cardinality(Holders) - Cardinality(batch)
      BY <1>h, <3>1, BatchLeaves
    <3>3. Cardinality(batch) \in Nat /\ Cardinality(batch) <= Cardinality(Holders)
      BY <1>h, <3>1, Smaller, FiniteCardinality
    <3> QED BY <1>h, <2>2, <3>2, <3>3, BoundaryAssumption
            DEF BeginExport, Released, SlotInv, PendingCountsHolders
  <2>3. CASE ExportReturns \/ WorkerStops
    <3>1. Holders' = Holders
      BY <2>3 DEF ExportReturns, WorkerStops, Holders
    <3> QED BY <2>3, <3>1 DEF ExportReturns, WorkerStops, SlotInv, PendingCountsHolders
  <2> QED BY <2>1, <2>2, <2>3 DEF Worker
<1>5. finalized => pending' <= Cardinality(Leaving')
  <2>1. Cardinality(Leaving) \in Nat
    BY FiniteCardinality DEF Leaving
  <2> QED BY <1>1, <1>3, <2>1 DEF SlotInv
<1> QED BY <1>1, <1>2, <1>4, <1>5 DEF SlotInv

LEMMA SlotInductive ==
  TypeOK /\ PhaseInv /\ PlaceInv /\ SlotInv /\ [Next]_vars => SlotInv'
<1> SUFFICES ASSUME TypeOK, PhaseInv, PlaceInv, SlotInv, [Next]_vars PROVE SlotInv'
  OBVIOUS
<1> USE DEF boundary, threads, sdk, runtime, history
<1>1. ASSUME NEW r \in Records, OnEnd(r) PROVE SlotInv'
  BY <1>1, OnEndKeepsSlots
<1>2. CASE Worker
  BY <1>2, WorkerKeepsSlots
<1>3. CASE Close \/ StopProvider \/ ProviderReturns \/ CountStranded
  <2>1. UNCHANGED <<pending, pc, seen, queue, overflowed, Holders, Leaving, Sending>>
    BY <1>3 DEF Close, StopProvider, ProviderReturns, CountStranded, Holders, Leaving, Sending
  <2>2. finalized' = finalized
    BY <1>3 DEF Close, StopProvider, ProviderReturns, CountStranded
  <2> QED BY <2>1, <2>2 DEF SlotInv, PendingCountsHolders
<1>4. CASE DropPending
  <2>1. finalized' /\ pending' = 0 /\ UNCHANGED <<pc, seen, queue, overflowed, Leaving, Sending>>
    BY <1>4 DEF DropPending, Leaving, Sending
  <2>2. Cardinality(Leaving) \in Nat
    BY FiniteCardinality DEF Leaving
  <2> QED BY <2>1, <2>2 DEF SlotInv, PendingCountsHolders
<1>5. CASE Idle \/ UNCHANGED vars
  <2>1. UNCHANGED <<pending, finalized, pc, seen, queue, overflowed, Holders, Leaving, Sending>>
    BY <1>5 DEF Idle, vars, Holders, Leaving, Sending
  <2> QED BY <2>1 DEF SlotInv, PendingCountsHolders
<1> QED BY <1>1, <1>2, <1>3, <1>4, <1>5 DEF Next, Shutdown

LEMMA SettledInductive ==
  BoundaryInv /\ [Next]_vars => SettledInv'
<1> SUFFICES ASSUME BoundaryInv, [Next]_vars PROVE SettledInv'
  OBVIOUS
<1> USE DEF BoundaryInv, TypeOK, boundary, threads, sdk, runtime, history, Goto
<1>1. ASSUME NEW r \in Records, OnEnd(r) PROVE SettledInv'
  <2>1. CASE CheckClosed(r) \/ LoadPending(r) \/ Exchange(r) \/ RecheckClosed(r) \/ ReleaseOwn(r)
    <3>1. /\ UNCHANGED <<dropped, finalized, shutdown, stranded, exported, recorded, writtenOff>>
          /\ \A q \in Records : pc'[q] = "done" => pc[q] = "done"
      BY <2>1 DEF CheckClosed, LoadPending, Exchange, RecheckClosed, ReleaseOwn
    <3>2. \A q \in Records : pc[q] = "done" /\ q \in Holders => q \in Holders'
      BY <2>1 DEF CheckClosed, LoadPending, Exchange, RecheckClosed, ReleaseOwn, Holders
    <3>3. finalized => (Holders \ Leaving)' \subseteq Holders \ Leaving
      <4>1. finalized => closed
        BY DEF PhaseInv
      <4>2. r \notin queue \union batch \union discarded \union overflowed
        BY <2>1 DEF CheckClosed, LoadPending, Exchange, RecheckClosed, ReleaseOwn, PlaceInv
      <4> QED BY <2>1, <4>1, <4>2
              DEF CheckClosed, LoadPending, Exchange, RecheckClosed, ReleaseOwn, Holders, Leaving
    <3> QED BY <3>1, <3>2, <3>3 DEF SettledInv
  <2>2. CASE RecordDrop(r)
    <3>1. r \notin recorded
      BY <2>2 DEF RecordDrop, PlaceInv
    <3>2. Cardinality(recorded') = Cardinality(recorded) + 1
      BY <2>2, <3>1, OneMore DEF RecordDrop
    <3>3. Holders' = Holders /\ Leaving' = Leaving
      BY <2>2 DEF RecordDrop, Holders, Leaving
    <3>4. Cardinality(recorded) \in Nat
      BY FiniteCardinality
    <3>5. dropped' = Cardinality(recorded') + (IF shutdown' = "stopped" THEN stranded' ELSE 0)
      BY <2>2, <3>2, <3>4 DEF RecordDrop, SettledInv
    <3> QED BY <2>2, <3>3, <3>5 DEF RecordDrop, SettledInv
  <2>3. CASE Send(r)
    <3>1. Holders' = Holders /\ Leaving' = Leaving /\ r \in Holders
      BY <2>3 DEF Send, Holders, Leaving
    <3>2. UNCHANGED <<dropped, finalized, shutdown, stranded, exported, recorded, writtenOff>>
      BY <2>3 DEF Send
    <3> QED BY <2>3, <3>1, <3>2 DEF Send, SettledInv
  <2> QED BY <1>1, <2>1, <2>2, <2>3 DEF OnEnd
<1>2. CASE Worker
  <2>1. UNCHANGED <<dropped, finalized, shutdown, stranded, recorded, writtenOff, pc>>
    BY <1>2 DEF Worker, TakeBatch, BeginExport, ExportReturns, WorkerStops
  <2>2. exported \subseteq exported' /\ Leaving' = Leaving /\ Holders' \subseteq Holders
    BY <1>2 DEF Worker, TakeBatch, BeginExport, ExportReturns, WorkerStops, Leaving, Holders
  <2>3. \A q \in Holders \ Holders' : q \in exported' \union writtenOff
    <3>1. CASE BeginExport
      <4>1. Holders \ Holders' \subseteq batch
        BY <3>1 DEF BeginExport, Holders
      <4>2. finalized => batch \subseteq writtenOff
        BY <3>1 DEF BeginExport, Holders, Leaving, SettledInv, PlaceInv
      <4> QED BY <3>1, <4>1, <4>2 DEF BeginExport
    <3>2. CASE TakeBatch \/ ExportReturns \/ WorkerStops
      BY <3>2 DEF TakeBatch, ExportReturns, WorkerStops, Holders
    <3> QED BY <1>2, <3>1, <3>2 DEF Worker
  <2>4. writtenOff \intersect exported' = {}
    <3>1. finalized => exported' = exported
      BY <1>2 DEF Worker, TakeBatch, BeginExport, ExportReturns, WorkerStops
    <3> QED BY <3>1 DEF SettledInv
  <2> QED BY <2>1, <2>2, <2>3, <2>4 DEF SettledInv
<1>3. CASE Close \/ StopProvider \/ ProviderReturns
  <2>1. UNCHANGED <<dropped, finalized, stranded, exported, recorded, writtenOff, pc>>
    BY <1>3 DEF Close, StopProvider, ProviderReturns
  <2>2. Holders' = Holders /\ Leaving' = Leaving
    BY <1>3 DEF Close, StopProvider, ProviderReturns, Holders, Leaving
  <2>3. shutdown # "stopped" /\ shutdown' # "stopped"
    BY <1>3 DEF Close, StopProvider, ProviderReturns
  <2> QED BY <2>1, <2>2, <2>3 DEF SettledInv
<1>4. CASE DropPending
  <2>1. /\ finalized' /\ writtenOff' = Holders /\ stranded' = pending
        /\ Holders' = Holders /\ Leaving' = Leaving
        /\ UNCHANGED <<dropped, exported, recorded, pc>>
        /\ shutdown # "stopped" /\ shutdown' # "stopped"
    BY <1>4 DEF DropPending, Holders, Leaving
  <2>2. pending = Cardinality(Holders)
    BY <1>4 DEF DropPending, PhaseInv, SlotInv, PendingCountsHolders
  <2>3. exported \intersect Holders = {}
    BY DEF PlaceInv, Holders
  <2>4. \A q \in Records : pc[q] = "done" => q \in exported \union recorded \union Holders
    BY <1>4 DEF SettledInv, DropPending, PhaseInv
  <2> QED BY <2>1, <2>2, <2>3, <2>4 DEF SettledInv
<1>5. CASE CountStranded
  <2>1. /\ dropped' = dropped + stranded /\ shutdown # "stopped" /\ shutdown' = "stopped"
        /\ UNCHANGED <<finalized, stranded, exported, recorded, writtenOff, pc>>
    BY <1>5 DEF CountStranded
  <2>2. Holders' = Holders /\ Leaving' = Leaving
    BY <1>5 DEF CountStranded, Holders, Leaving
  <2>3. dropped' = Cardinality(recorded') + stranded'
    <3>1. dropped = Cardinality(recorded) /\ Cardinality(recorded) \in Nat
      BY <2>1, FiniteCardinality DEF SettledInv
    <3> QED BY <2>1, <3>1
  <2> QED BY <2>1, <2>2, <2>3 DEF SettledInv
<1>6. CASE Idle \/ UNCHANGED vars
  <2>1. UNCHANGED <<dropped, finalized, shutdown, stranded, exported, recorded, writtenOff, pc,
                    Holders, Leaving>>
    BY <1>6 DEF Idle, vars, Holders, Leaving
  <2> QED BY <2>1 DEF SettledInv
<1> QED BY <1>1, <1>2, <1>3, <1>4, <1>5, <1>6 DEF Next, Shutdown

LEMMA BoundaryCorrect == Spec => []BoundaryInv
<1>1. Init => BoundaryInv
  <2> SUFFICES ASSUME Init PROVE BoundaryInv
    OBVIOUS
  <2>1. closed = FALSE /\ finalized = FALSE /\ stopping = FALSE
    BY Zenon DEF Init
  <2>2. TypeOK
    <3>1. closed \in BOOLEAN /\ finalized \in BOOLEAN /\ stopping \in BOOLEAN
      BY <2>1, Zenon
    <3> QED BY <3>1 DEF Init, TypeOK
  <2>3. PhaseInv /\ PlaceInv
    BY <2>1 DEF Init, PhaseInv, PlaceInv
  <2>4. Holders = {} /\ queue \union Sending = {}
    BY DEF Init, Holders, Sending
  <2>5. SlotInv
    BY <2>1, <2>4, FS_EmptySet, BoundaryAssumption DEF Init, SlotInv, PendingCountsHolders
  <2>6. SettledInv
    BY <2>1, <2>4, FS_EmptySet DEF Init, SettledInv
  <2> QED BY <2>2, <2>3, <2>5, <2>6 DEF BoundaryInv
<1>2. BoundaryInv /\ [Next]_vars => BoundaryInv'
  BY TypeInductive, PhaseInductive, PlaceInductive, SlotInductive, SettledInductive
     DEF BoundaryInv
<1> QED BY <1>1, <1>2, PTL DEF Spec

\* An admitted record never meets a full SDK queue, at any capacity and batch size,
\* while threads, worker and shutdown interleave as they please.
THEOREM SdkQueueNeverOverflows == Spec => []QueueNeverOverflows
<1>1. BoundaryInv => QueueNeverOverflows
  BY DEF BoundaryInv, SlotInv, QueueNeverOverflows
<1> QED BY <1>1, BoundaryCorrect, PTL

\* Until drop_pending takes the slots, pending is exactly the number of records
\* that hold one, and never exceeds the capacity.
THEOREM PendingIsExact == Spec => []PendingCountsHolders
<1>1. BoundaryInv => PendingCountsHolders
  BY DEF BoundaryInv, SlotInv
<1> QED BY <1>1, BoundaryCorrect, PTL

\* No record is both counted as dropped and exported.
THEOREM CountedIsNotExported == Spec => []DroppedIsNotExported
<1>1. BoundaryInv => DroppedIsNotExported
  BY DEF BoundaryInv, PlaceInv, SettledInv, DroppedIsNotExported
<1> QED BY <1>1, BoundaryCorrect, PTL

\* Once threads and shutdown have ended no slot is left pending and every record
\* was exported or counted.
THEOREM ShutdownLosesNothing == Spec => []NothingIsLost
<1>1. BoundaryInv => NothingIsLost
  <2> SUFFICES ASSUME BoundaryInv, Quiescent
               PROVE  /\ pending = 0
                      /\ Records = exported \union recorded \union writtenOff
                      /\ dropped >= Cardinality(Records \ exported)
    BY DEF NothingIsLost
  <2> USE DEF BoundaryInv
  <2>1. finalized /\ Leaving = {}
    BY DEF Quiescent, PhaseInv, Leaving
  <2>2. pending = 0
    BY <2>1, FS_EmptySet DEF SlotInv, TypeOK
  <2>3. Records = exported \union recorded \union writtenOff
    BY <2>1 DEF Quiescent, SettledInv, TypeOK
  <2>4. Cardinality(Records \ exported) <= Cardinality(recorded) + Cardinality(writtenOff)
    <3>1. Records \ exported \in SUBSET (recorded \union writtenOff)
      BY <2>3
    <3>2. recorded \union writtenOff \in SUBSET Records
      BY DEF TypeOK
    <3>3. Cardinality(Records \ exported) <= Cardinality(recorded \union writtenOff)
      BY <3>1, <3>2, Smaller
    <3>4. Cardinality(recorded \union writtenOff) =
            Cardinality(recorded) + Cardinality(writtenOff)
              - Cardinality(recorded \intersect writtenOff)
      BY FiniteCardinality, FS_Union DEF TypeOK
    <3>5. /\ Cardinality(Records \ exported) \in Nat
          /\ Cardinality(recorded \union writtenOff) \in Nat
          /\ Cardinality(recorded) \in Nat /\ Cardinality(writtenOff) \in Nat
          /\ Cardinality(recorded \intersect writtenOff) \in Nat
      BY <3>2, FiniteCardinality DEF TypeOK
    <3> QED BY <3>3, <3>4, <3>5
  <2>5. dropped = Cardinality(recorded) + Cardinality(writtenOff)
    BY <2>1 DEF Quiescent, SettledInv
  <2> QED BY <2>2, <2>3, <2>4, <2>5
<1> QED BY <1>1, BoundaryCorrect, PTL

-----------------------------------------------------------------------------
(* What is told changes nothing of the boundary.                           *)

\* A step that is told of is a step of the boundary, or none.
LEMMA ToldStepIsBoundaryStep == [NextTold]_told_vars => [Next]_vars
<1> SUFFICES ASSUME [NextTold]_told_vars PROVE [Next]_vars
  OBVIOUS
<1>1. ASSUME NEW r \in Records, OnEndTold(r) PROVE OnEnd(r)
  BY <1>1, Zenon DEF OnEndTold
<1>2. ASSUME NEW t \in Tellers, TellerStep(t) PROVE UNCHANGED vars
  BY <1>2 DEF TellerStep, LoadDeadline, ClaimReport, Claim, TakeSuppressed
<1>3. CASE WorkerTold
  <2>1. Worker \/ UNCHANGED vars
    BY <1>3, Zenon DEF WorkerTold, BeginExportTold, SendBytes, ExportReturnsTold, Worker
  <2> QED BY <2>1 DEF Next
<1>4. CASE ShutdownTold
  <2>1. Shutdown
    BY <1>4, Zenon DEF ShutdownTold, ProviderReturnsTold, CountStrandedTold, Shutdown
  <2> QED BY <2>1 DEF Next
<1>5. CASE Advance \/ UNCHANGED told_vars
  BY <1>5, Zenon DEF Advance, told_vars
<1>6. CASE Close \/ Idle
  BY <1>6 DEF Next
<1> QED BY <1>1, <1>2, <1>3, <1>4, <1>5, <1>6 DEF NextTold, Next

\* The specification with the drop counters, the rate-limited lines and the
\* classified failures implements the bare boundary: no diagnostic delays, repeats or
\* forbids an access of try_admit, begin_export or drop_pending.
THEOREM DiagnosticsAreTransparent == SpecTold => Spec
<1>1. InitTold => Init
  BY Zenon DEF InitTold
<1> QED BY <1>1, ToldStepIsBoundaryStep, PTL DEF SpecTold, Spec

\* So under it too every record is exported or counted when all has ended.
COROLLARY NothingIsLostUntold == SpecTold => []NothingIsLost
BY DiagnosticsAreTransparent, ShutdownLosesNothing, PTL

-----------------------------------------------------------------------------
(* Failed exports.                                                         *)

\* classified_failures has moved since the export began exactly when its request
\* failed; no request outlives its export, and the provider fails once at most.
FailureInv ==
  /\ failures \in Nat /\ failedExports \in Nat
  /\ sent \in {"no", "accepted", "failed"} /\ providerFailed \in BOOLEAN
  /\ worker # "exporting" => sent = "no"
  /\ worker = "exporting" => (classified <=> sent = "failed")
  /\ shutdown \in {"running", "closed", "waiting"} => ~providerFailed
  /\ FailuresAreClassifiedOnce

LEMMA FailureInductive == FailureInv /\ [NextTold]_told_vars => FailureInv'
<1> SUFFICES ASSUME FailureInv, [NextTold]_told_vars PROVE FailureInv'
  OBVIOUS
<1> USE DEF FailureInv, FailuresAreClassifiedOnce
<1> DEFINE Untouched == UNCHANGED <<exports, worker, shutdown>>
<1>0. Untouched => FailureInv'
  BY DEF exports
<1>1. ASSUME NEW r \in Records, OnEndTold(r) PROVE Untouched
  <2>1. UNCHANGED <<worker, shutdown>>
    BY <1>1 DEF OnEndTold, OnEnd, CheckClosed, LoadPending, Exchange, RecheckClosed, ReleaseOwn,
                RecordDrop, Send, sdk, runtime
  <2>2. UNCHANGED exports
    BY <1>1, Zenon DEF OnEndTold, DropRecords
  <2> QED BY <2>1, <2>2
<1>2. ASSUME NEW t \in Tellers, TellerStep(t) PROVE Untouched
  BY <1>2 DEF TellerStep, LoadDeadline, ClaimReport, Claim, TakeSuppressed, vars, sdk, runtime
<1>3. CASE BeginExportTold
  <2>1. ~classified' /\ UNCHANGED <<failures, failedExports, sent, providerFailed>>
    BY <1>3, Zenon DEF BeginExportTold
  <2>2. worker # "exporting" /\ shutdown' = shutdown
    BY <1>3 DEF BeginExportTold, BeginExport, runtime
  <2>3. worker' = "exporting" => ~classified' /\ sent' = "no"
    BY <2>1, <2>2
  <2>4. shutdown' \in {"running", "closed", "waiting"} => ~providerFailed'
    BY <2>1, <2>2, Zenon
  <2> QED BY <2>1, <2>2, <2>3, <2>4
<1>4. CASE SendBytes
  <2>1. worker' = worker /\ shutdown' = shutdown
    BY <1>4 DEF SendBytes, vars, sdk, runtime
  <2>2. CASE sent' = "accepted" /\ UNCHANGED <<classified, failures>>
    BY <1>4, <2>1, <2>2 DEF SendBytes
  <2>3. CASE sent' = "failed" /\ classified' = TRUE /\ failures' = failures + 1
    <3>1. classified' <=> sent' = "failed"
      BY <2>3, Zenon
    <3>2. providerFailed' = providerFailed /\ failedExports' = failedExports
      BY <1>4, Zenon DEF SendBytes
    <3>3. /\ shutdown' \in {"running", "closed", "waiting"} => ~providerFailed'
          /\ providerFailed' \in BOOLEAN
      BY <2>1, <3>2, Zenon
    <3>4. failures = failedExports + (IF providerFailed THEN 1 ELSE 0)
      BY <1>4 DEF SendBytes
    <3>5. FailuresAreClassifiedOnce'
      BY <2>3, <3>2, <3>4
    <3> QED BY <1>4, <2>1, <2>3, <3>1, <3>2, <3>3, <3>5 DEF SendBytes
  <2>4. \/ sent' = "accepted" /\ UNCHANGED <<classified, failures>>
        \/ sent' = "failed" /\ classified' = TRUE /\ failures' = failures + 1
    BY <1>4 DEF SendBytes
  <2> QED BY <2>2, <2>3, <2>4
<1>5. CASE ExportReturnsTold
  BY <1>5 DEF ExportReturnsTold, ExportReturns, runtime
<1>6. CASE (TakeBatch \/ WorkerStops) /\ UNCHANGED diagnostics
  BY <1>6 DEF TakeBatch, WorkerStops, diagnostics, exports, runtime
<1>7. CASE ProviderReturnsTold
  BY <1>7 DEF ProviderReturnsTold, ProviderReturns, sdk
<1>8. CASE CountStrandedTold
  BY <1>8 DEF CountStrandedTold, CountStranded, DropRecords, exports, sdk
<1>9. CASE (StopProvider \/ DropPending \/ Close \/ Idle) /\ UNCHANGED diagnostics
  BY <1>9 DEF StopProvider, DropPending, Close, Idle, diagnostics, exports, vars, sdk, runtime
<1>10. CASE Advance \/ UNCHANGED told_vars
  <2>1. Untouched
    BY <1>10 DEF Advance, told_vars, diagnostics, vars, sdk, runtime
  <2> QED BY <2>1, <1>0
<1> QED BY <1>0, <1>1, <1>2, <1>3, <1>4, <1>5, <1>6, <1>7, <1>8, <1>9, <1>10
        DEF NextTold, WorkerTold, ShutdownTold

\* A failed export is counted by the HTTP client or by the boundary, never by both
\* and never by neither, and a failed provider adds one of its own, whatever the order in
\* which requests, exports and the shutdown end.
THEOREM FailuresAreCountedOnce == SpecTold => []FailuresAreClassifiedOnce
<1>1. InitTold => FailureInv
  <2> SUFFICES ASSUME InitTold PROVE FailureInv
    OBVIOUS
  <2>1. ~providerFailed /\ providerFailed \in BOOLEAN
    BY Zenon DEF InitTold
  <2>2. failures = 0 /\ failedExports = 0 /\ sent = "no" /\ worker = "idle"
    BY DEF InitTold, Init
  <2> QED BY <2>1, <2>2 DEF FailureInv, FailuresAreClassifiedOnce
<1>2. FailureInv => FailuresAreClassifiedOnce
  BY DEF FailureInv
<1> QED BY <1>1, <1>2, FailureInductive, PTL DEF SpecTold

-----------------------------------------------------------------------------
(* Sums over finite sets.  The library's theorems of induction and         *)
(* recursion take operators, so the recursion of the fold and the facts    *)
(* about it rest on a least counterexample among the subsets.              *)

Sum(f, S) == FoldFunctionOnSet(+, 0, f, S)

Pick(s) == CHOOSE x \in s : TRUE
Sums(f, S) == CHOOSE g : g = [s \in SUBSET S |-> IF s = {} THEN 0 ELSE f[Pick(s)] + g[s \ {Pick(s)}]]
\* The fold of the community modules is the sum over the whole set.
LEMMA SumIs == ASSUME NEW f, NEW S PROVE Sum(f, S) = Sums(f, S)[S]
BY Zenon DEF Sum, FoldFunctionOnSet, MapThenFoldSet, Sums, Pick

\* g tells the sum of f over every subset of S.
IsSums(g, f, S) == g = [s \in SUBSET S |-> IF s = {} THEN 0 ELSE f[Pick(s)] + g[s \ {Pick(s)}]]

\* Among sets of subsets of a finite set one is least.
LEMMA Least ==
  ASSUME NEW S, IsFiniteSet(S), NEW Bad \in SUBSET (SUBSET S), Bad # {}
  PROVE  \E m \in Bad : \A x \in m : m \ {x} \notin Bad
<1>1. IsWellFoundedOn(StrictSubsetOrdering(S), SUBSET S)
  BY FS_StrictSubsetOrderingWellFounded, FS_FiniteSubsetsOfFinite
<1>2. PICK m \in Bad : \A y \in Bad : ~ (<<y, m>> \in StrictSubsetOrdering(S))
  BY <1>1, WFMin
<1>3. ASSUME NEW x \in m PROVE m \ {x} \notin Bad
  <2> DEFINE n == m \ {x}
  <2>0. SUFFICES ASSUME n \in Bad PROVE FALSE
    OBVIOUS
  <2>1. n \in SUBSET S /\ m \in SUBSET S /\ n \subseteq m /\ n # m
    BY <1>3
  <2>2. <<n, m>> \in StrictSubsetOrdering(S)
    BY <2>1 DEF StrictSubsetOrdering
  <2> QED BY <2>2, <2>0, <1>2
<1> QED BY <1>3


LEMMA IsSumsAt ==
  ASSUME NEW f, NEW S, NEW g, IsSums(g, f, S), NEW s \in SUBSET S
  PROVE  g[s] = IF s = {} THEN 0 ELSE f[Pick(s)] + g[s \ {Pick(s)}]
BY DEF IsSums

LEMMA PickIsMember == ASSUME NEW s, s # {} PROVE Pick(s) \in s
BY DEF Pick

\* Two such functions agree where both are defined.
LEMMA SumsAgree ==
  ASSUME NEW f, NEW S, NEW g, IsSums(g, f, S), NEW T, NEW h, IsSums(h, f, T),
         NEW U \in SUBSET S, U \in SUBSET T, IsFiniteSet(U)
  PROVE  g[U] = h[U]
<1> DEFINE Bad == {s \in SUBSET U : g[s] # h[s]}
<1>0. SUFFICES ASSUME Bad # {} PROVE FALSE
  OBVIOUS
<1>2. Bad \in SUBSET (SUBSET U)
  OBVIOUS
<1>3. PICK m \in Bad : \A x \in m : m \ {x} \notin Bad
  <2> HIDE DEF Bad
  <2> QED BY <1>0, <1>2, Least
<1>4. m \in SUBSET U /\ m \in SUBSET S /\ m \in SUBSET T /\ g[m] # h[m]
  BY <1>3
<1>5. CASE m = {}
  BY <1>4, <1>5, IsSumsAt
<1>6. CASE m # {}
  <2> DEFINE p == Pick(m)
  <2>1. p \in m
    BY <1>6, PickIsMember
  <2>2. m \ {p} \in SUBSET U /\ g[m \ {p}] = h[m \ {p}]
    BY <1>3, <1>4, <2>1
  <2>3. g[m] = f[p] + g[m \ {p}] /\ h[m] = f[p] + h[m \ {p}]
    BY <1>4, <1>6, IsSumsAt
  <2> QED BY <2>2, <2>3, <1>4
<1> QED BY <1>5, <1>6

\* There is such a function: glued together from those of the smaller sets.
LEMMA SumsExist ==
  ASSUME NEW f, NEW S, IsFiniteSet(S)
  PROVE  IsSums(Sums(f, S), f, S)
<1> DEFINE Has(T) == \E g : IsSums(g, f, T)
<1> DEFINE Bad == {T \in SUBSET S : ~ Has(T)}
<1>0. SUFFICES Bad = {}
  <2>1. Has(S)
    BY <1>0
  <2> QED BY <2>1 DEF Sums, IsSums
<1>1. SUFFICES ASSUME Bad # {} PROVE FALSE
  OBVIOUS
<1>2. Bad \in SUBSET (SUBSET S)
  OBVIOUS
<1>3. PICK m \in Bad : \A x \in m : m \ {x} \notin Bad
  <2> HIDE DEF Bad
  <2> QED BY <1>1, <1>2, Least
<1>4. m \in SUBSET S /\ ~ Has(m)
  BY <1>3
<1>5. \A x \in m : Has(m \ {x})
  BY <1>3, <1>4
<1>. DEFINE G(T) == CHOOSE g : IsSums(g, f, T)
          v == [s \in SUBSET m |-> IF s = m THEN (IF m = {} THEN 0 ELSE f[Pick(m)] + G(m \ {Pick(m)})[m \ {Pick(m)}])
                                  ELSE G(m \ {CHOOSE x \in m : x \notin s})[s]]
<1>6. \A x \in m : IsSums(G(m \ {x}), f, m \ {x})
  BY <1>5
<1> HIDE DEF G
<1>7. ASSUME NEW s \in SUBSET m, s # m, NEW x \in m, x \notin s
      PROVE  v[s] = G(m \ {x})[s]
  <2> DEFINE y == CHOOSE z \in m : z \notin s
  <2>1. y \in m /\ y \notin s
    BY <1>7
  <2>2. v[s] = G(m \ {y})[s]
    BY <1>7
  <2>3. IsSums(G(m \ {y}), f, m \ {y}) /\ IsSums(G(m \ {x}), f, m \ {x})
    BY <1>6, <2>1
  <2>4. s \in SUBSET (m \ {y}) /\ s \in SUBSET (m \ {x}) /\ IsFiniteSet(s)
    BY <1>4, <1>7, <2>1, FS_Subset
  <2> HIDE DEF y, v
  <2> QED BY <2>2, <2>3, <2>4, SumsAgree
<1>8. ASSUME NEW s \in SUBSET m
      PROVE  v[s] = IF s = {} THEN 0 ELSE f[Pick(s)] + v[s \ {Pick(s)}]
  <2>1. CASE s = m
    <3>1. CASE m = {}
      BY <2>1, <3>1
    <3>2. CASE m # {}
      <4> DEFINE p == Pick(m)
      <4>1. p \in m
        BY <3>2, PickIsMember
      <4>2. v[m] = f[p] + G(m \ {p})[m \ {p}]
        BY <3>2
      <4>3. v[m \ {p}] = G(m \ {p})[m \ {p}]
        BY <4>1, <1>7
      <4> QED BY <2>1, <3>2, <4>2, <4>3
    <3> QED BY <3>1, <3>2
  <2>2. CASE s # m
    <3>1. PICK x \in m : x \notin s
      BY <2>2
    <3>2. v[s] = G(m \ {x})[s] /\ s \in SUBSET (m \ {x}) /\ IsSums(G(m \ {x}), f, m \ {x})
      BY <3>1, <2>2, <1>6, <1>7
    <3>3. G(m \ {x})[s] = IF s = {} THEN 0 ELSE f[Pick(s)] + G(m \ {x})[s \ {Pick(s)}]
      BY <3>2, IsSumsAt
    <3>4. ASSUME s # {} PROVE v[s \ {Pick(s)}] = G(m \ {x})[s \ {Pick(s)}]
      <4>1. Pick(s) \in s
        BY <3>4, PickIsMember
      <4>2. s \ {Pick(s)} \in SUBSET m /\ s \ {Pick(s)} # m /\ x \notin s \ {Pick(s)}
        BY <3>1, <4>1
      <4> HIDE DEF v
      <4> QED BY <4>2, <3>1, <1>7
    <3> HIDE DEF v
    <3> QED BY <3>2, <3>3, <3>4
  <2> QED BY <2>1, <2>2
<1>9. IsSums([s \in SUBSET m |-> v[s]], f, m)
  <2> DEFINE w == [s \in SUBSET m |-> v[s]]
  <2>1. \A s \in SUBSET m : w[s] = IF s = {} THEN 0 ELSE f[Pick(s)] + w[s \ {Pick(s)}]
    <3> SUFFICES ASSUME NEW s \in SUBSET m
                 PROVE  w[s] = IF s = {} THEN 0 ELSE f[Pick(s)] + w[s \ {Pick(s)}]
      OBVIOUS
    <3>1. w[s] = v[s] /\ w[s \ {Pick(s)}] = v[s \ {Pick(s)}]
      <4> HIDE DEF v
      <4> QED OBVIOUS
    <3> HIDE DEF w, v
    <3> QED BY <3>1, <1>8
  <2>2. w = [s \in SUBSET m |-> w[s]]
    OBVIOUS
  <2> HIDE DEF w, v
  <2>3. w = [s \in SUBSET m |-> IF s = {} THEN 0 ELSE f[Pick(s)] + w[s \ {Pick(s)}]]
    BY <2>1, <2>2
  <2>4. IsSums(w, f, m)
    BY <2>3 DEF IsSums
  <2> QED BY <2>4 DEF w
<1> QED BY <1>4, <1>9

LEMMA SumUnfolds ==
  ASSUME NEW f, NEW S, IsFiniteSet(S)
  PROVE  Sum(f, S) = IF S = {} THEN 0 ELSE f[Pick(S)] + Sum(f, S \ {Pick(S)})
<1>1. IsSums(Sums(f, S), f, S)
  BY SumsExist
<1>2. Sums(f, S)[S] = IF S = {} THEN 0 ELSE f[Pick(S)] + Sums(f, S)[S \ {Pick(S)}]
  BY <1>1, IsSumsAt
<1> DEFINE T == S \ {Pick(S)}
<1>3. IsFiniteSet(T) /\ T \in SUBSET S /\ T \in SUBSET T
  BY FS_Subset
<1>4. IsSums(Sums(f, T), f, T)
  BY <1>3, SumsExist
<1>5. Sums(f, S)[T] = Sums(f, T)[T]
  <2> HIDE DEF T
  <2> QED BY <1>1, <1>3, <1>4, SumsAgree
<1> QED BY <1>2, <1>5, SumIs

LEMMA SumOfNothing == ASSUME NEW f PROVE Sum(f, {}) = 0
BY FS_EmptySet, SumUnfolds

LEMMA SumType ==
  ASSUME NEW S, IsFiniteSet(S), NEW f, \A x \in S : f[x] \in Nat
  PROVE  Sum(f, S) \in Nat
<1> DEFINE Bad == {s \in SUBSET S : Sum(f, s) \notin Nat}
<1>0. SUFFICES ASSUME Bad # {} PROVE FALSE
  OBVIOUS
<1>1. Bad \in SUBSET (SUBSET S)
  OBVIOUS
<1>2. PICK m \in Bad : \A x \in m : m \ {x} \notin Bad
  <2> HIDE DEF Bad
  <2> QED BY <1>0, <1>1, Least
<1>3. m \in SUBSET S /\ Sum(f, m) \notin Nat /\ IsFiniteSet(m)
  BY <1>2, FS_Subset
<1>4. m # {}
  BY <1>3, SumOfNothing
<1>5. Pick(m) \in m
  BY <1>4, PickIsMember
<1>6. Sum(f, m \ {Pick(m)}) \in Nat
  BY <1>2, <1>3, <1>5
<1> QED BY <1>3, <1>4, <1>5, <1>6, SumUnfolds

\* In whatever order they are added.
LEMMA SumRemove ==
  ASSUME NEW S, IsFiniteSet(S), NEW f, \A x \in S : f[x] \in Nat, NEW y \in S
  PROVE  Sum(f, S) = f[y] + Sum(f, S \ {y})
<1> DEFINE Fine(s) == \A x \in s : Sum(f, s) = f[x] + Sum(f, s \ {x})
           Bad == {s \in SUBSET S : ~ Fine(s)}
<1>0. SUFFICES ASSUME Bad # {} PROVE FALSE
  <2>1. S \notin Bad
    BY <1>0
  <2> QED BY <2>1
<1>1. Bad \in SUBSET (SUBSET S)
  OBVIOUS
<1>2. PICK m \in Bad : \A x \in m : m \ {x} \notin Bad
  <2> HIDE DEF Bad
  <2> QED BY <1>0, <1>1, Least
<1>3. m \in SUBSET S /\ IsFiniteSet(m)
  BY <1>2, FS_Subset
<1>4. PICK x \in m : Sum(f, m) # f[x] + Sum(f, m \ {x})
  BY <1>2
<1> DEFINE p == Pick(m)
<1>5. p \in m
  BY <1>4, PickIsMember
<1>6. Sum(f, m) = f[p] + Sum(f, m \ {p})
  BY <1>3, <1>4, SumUnfolds
<1>7. p # x
  BY <1>4, <1>6
<1>8. Fine(m \ {p}) /\ Fine(m \ {x})
  BY <1>2, <1>3, <1>4, <1>5
<1> DEFINE n == (m \ {p}) \ {x}
<1>9. n = (m \ {x}) \ {p} /\ x \in m \ {p} /\ p \in m \ {x}
  BY <1>4, <1>5, <1>7
<1>10. Sum(f, m \ {p}) = f[x] + Sum(f, n) /\ Sum(f, m \ {x}) = f[p] + Sum(f, n)
  BY <1>8, <1>9
<1>11. f[x] \in Nat /\ f[p] \in Nat /\ IsFiniteSet(n) /\ \A z \in n : f[z] \in Nat
  BY <1>3, <1>4, <1>5, FS_Subset
<1>12. Sum(f, n) \in Nat
  <2> HIDE DEF n
  <2> QED BY <1>11, SumType
<1> HIDE DEF n, p
<1> QED BY <1>4, <1>6, <1>10, <1>11, <1>12

LEMMA SumOfEquals ==
  ASSUME NEW S, IsFiniteSet(S), NEW f, NEW g, \A x \in S : f[x] = g[x]
  PROVE  Sum(f, S) = Sum(g, S)
<1> DEFINE Bad == {s \in SUBSET S : Sum(f, s) # Sum(g, s)}
<1>0. SUFFICES ASSUME Bad # {} PROVE FALSE
  OBVIOUS
<1>1. Bad \in SUBSET (SUBSET S)
  OBVIOUS
<1>2. PICK m \in Bad : \A x \in m : m \ {x} \notin Bad
  <2> HIDE DEF Bad
  <2> QED BY <1>0, <1>1, Least
<1>3. m \in SUBSET S /\ IsFiniteSet(m) /\ Sum(f, m) # Sum(g, m)
  BY <1>2, FS_Subset
<1>4. m # {}
  BY <1>3, SumUnfolds
<1>5. Pick(m) \in m
  BY <1>4, PickIsMember
<1>6. Sum(f, m \ {Pick(m)}) = Sum(g, m \ {Pick(m)}) /\ f[Pick(m)] = g[Pick(m)]
  BY <1>2, <1>3, <1>5
<1> QED BY <1>3, <1>4, <1>6, SumUnfolds
-----------------------------------------------------------------------------
(* Lines about drops.                                                      *)

Accesses == {"quiet", "load", "claim", "take", "told"}

ToldTypes ==
  /\ clock \in Nat
  /\ nextReport \in [Reasons -> Nat] /\ suppressed \in [Reasons -> Nat]
  /\ telling \in [Tellers -> Accesses] /\ reason \in [Tellers -> Reasons \union {"none"}]
  /\ at \in [Tellers -> Nat] /\ deadline \in [Tellers -> Nat] /\ omitted \in [Tellers -> Nat]
  /\ written \subseteq Tellers

\* A thread reports when it has dropped its record, the closer when it has stopped:
\* nobody reports twice, and the reason of a report is settled before it begins.
TellersDropped ==
  /\ \A r \in Records : /\ telling[r] # "quiet" => pc[r] = "done"
                        /\ pc[r] = "drop" => reason[r] \in Reasons
  /\ telling[Closer] # "quiet" => shutdown = "stopped"

\* A copy of the deadline is never ahead of the deadline.
TellersClaim ==
  \A t \in Tellers : /\ telling[t] # "quiet" => reason[t] \in Reasons
                     /\ t \in written => telling[t] = "told"
                     /\ telling[t] = "claim" => deadline[t] <= nextReport[reason[t]]

\* The threads whose exchange claimed an interval.
Winners(why) == {t \in Tellers : reason[t] = why /\ (telling[t] = "take" \/ t \in written)}

\* The deadline is an interval past every claim, so the claims of one reason are an
\* interval apart, and a deadline at all is somebody's claim.
Spaced(why) ==
  /\ \A t \in Winners(why) : at[t] + Interval <= nextReport[why]
  /\ \A t, u \in Winners(why) : t # u => at[t] - at[u] >= Interval \/ at[u] - at[t] >= Interval
  /\ nextReport[why] > 0 => Winners(why) # {}
  /\ Told(why) # {} => nextReport[why] > 0

Accounted(why) ==
  Cardinality(Told(why)) = Cardinality(Lines(why)) + suppressed[why] + Sum(omitted, Lines(why))

ReportInv ==
  /\ ToldTypes /\ TellersDropped /\ TellersClaim
  /\ \A why \in Reasons : Spaced(why) /\ Accounted(why)

LEMMA TellersAreFinite ==
  ASSUME NEW S, S \subseteq Tellers
  PROVE  IsFiniteSet(S) /\ Cardinality(S) \in Nat
<1>1. IsFiniteSet(Tellers)
  BY BoundaryAssumption, FS_AddElement DEF Tellers
<1> QED BY <1>1, FS_Subset, FS_CardinalityType

\* Only the threads of on_end move pc, each its own and none when it is done.
LEMMA OnEndMoves ==
  ASSUME TypeOK, NEW r \in Records, OnEnd(r)
  PROVE  /\ pc[r] # "done" /\ shutdown' = shutdown
         /\ \A q \in Records : q # r => pc'[q] = pc[q]
         /\ pc[r] = "drop" => pc'[r] = "done"
BY DEF OnEnd, CheckClosed, LoadPending, Exchange, RecheckClosed, ReleaseOwn, RecordDrop, Send, Goto,
       TypeOK, sdk, runtime

\* A thread begins its report: of what is told, nothing changes.
LEMMA BeginsQuietly ==
  ASSUME ToldTypes, TellersClaim, NEW t \in Tellers, telling[t] = "quiet",
         telling' = [telling EXCEPT ![t] = telling'[t]], telling'[t] \in {"quiet", "load"},
         reason' = [reason EXCEPT ![t] = reason'[t]], reason'[t] \in Reasons \union {"none"},
         telling'[t] # "quiet" => reason'[t] \in Reasons,
         at' = [at EXCEPT ![t] = at'[t]], at'[t] \in Nat,
         UNCHANGED <<clock, limiters, deadline, written, omitted>>,
         \A why \in Reasons : Spaced(why) /\ Accounted(why)
  PROVE  ToldTypes' /\ TellersClaim' /\ \A why \in Reasons : (Spaced(why) /\ Accounted(why))'
<1>0. nextReport' = nextReport /\ suppressed' = suppressed
  BY DEF limiters
<1>1. ToldTypes'
  BY <1>0 DEF ToldTypes, Accesses
<1>2. \A u \in Tellers : u # t => telling'[u] = telling[u] /\ reason'[u] = reason[u] /\ at'[u] = at[u]
  BY DEF ToldTypes
<1>3. TellersClaim'
  BY <1>0, <1>2 DEF TellersClaim
<1>4. ASSUME NEW why \in Reasons PROVE (Spaced(why) /\ Accounted(why))'
  <2>1. t \notin written
    BY DEF TellersClaim
  <2>2. Winners(why)' = Winners(why) /\ Told(why)' = Told(why) /\ t \notin Winners(why)
    BY <1>2, <2>1 DEF Winners, Told
  <2>3. Lines(why)' = Lines(why)
    BY <2>2 DEF Lines
  <2>4. Accounted(why)'
    BY <1>0, <2>2, <2>3 DEF Accounted
  <2>5. \A u \in Winners(why) : at'[u] = at[u]
    BY <1>2, <2>2 DEF Winners
  <2>6. Spaced(why)'
    BY <1>0, <2>2, <2>5 DEF Spaced
  <2> QED BY <2>4, <2>6
<1> QED BY <1>1, <1>3, <1>4

LEMMA LoadKeepsReports ==
  ASSUME ToldTypes, TellersClaim, NEW t \in Tellers, LoadDeadline(t),
         \A why \in Reasons : Spaced(why) /\ Accounted(why)
  PROVE  ToldTypes' /\ TellersClaim' /\ \A why \in Reasons : (Spaced(why) /\ Accounted(why))'
<1>0. /\ telling[t] = "load" /\ reason[t] \in Reasons
      /\ telling' = [telling EXCEPT ![t] = "claim"]
      /\ deadline' = [deadline EXCEPT ![t] = nextReport[reason[t]]]
      /\ clock' = clock /\ nextReport' = nextReport /\ suppressed' = suppressed
      /\ reason' = reason /\ at' = at /\ written' = written /\ omitted' = omitted
  BY DEF LoadDeadline, limiters, TellersClaim
<1>1. ToldTypes'
  BY <1>0 DEF ToldTypes, Accesses
<1>2. TellersClaim'
  BY <1>0 DEF TellersClaim, ToldTypes
<1>3. ASSUME NEW why \in Reasons PROVE (Spaced(why) /\ Accounted(why))'
  <2>1. t \notin written
    BY <1>0 DEF TellersClaim
  <2>2. Winners(why)' = Winners(why) /\ Told(why)' = Told(why)
    BY <1>0, <2>1 DEF Winners, Told, ToldTypes
  <2>3. Lines(why)' = Lines(why)
    BY <1>0, <2>2 DEF Lines
  <2> QED BY <1>0, <2>2, <2>3 DEF Spaced, Accounted
<1> QED BY <1>1, <1>2, <1>3

LEMMA SuppressionIsCounted ==
  ASSUME ToldTypes, TellersClaim, NEW t \in Tellers, telling[t] = "claim", at[t] < deadline[t],
         suppressed' = [suppressed EXCEPT ![reason[t]] = @ + 1],
         telling' = [telling EXCEPT ![t] = "told"],
         UNCHANGED <<clock, nextReport, deadline, reason, at, written, omitted>>,
         \A why \in Reasons : Spaced(why) /\ Accounted(why)
  PROVE  ToldTypes' /\ TellersClaim' /\ \A why \in Reasons : (Spaced(why) /\ Accounted(why))'
<1>0. /\ reason[t] \in Reasons /\ t \notin written
      /\ nextReport' = nextReport /\ reason' = reason /\ at' = at /\ written' = written
      /\ omitted' = omitted /\ deadline' = deadline /\ clock' = clock
  BY DEF TellersClaim
<1>1. ToldTypes'
  BY <1>0 DEF ToldTypes, Accesses
<1>2. TellersClaim'
  BY <1>0 DEF TellersClaim, ToldTypes
<1>3. nextReport[reason[t]] > 0
  <2>1. deadline[t] <= nextReport[reason[t]]
    BY DEF TellersClaim
  <2>2. at[t] \in Nat /\ deadline[t] \in Nat /\ nextReport[reason[t]] \in Nat
    BY <1>0 DEF ToldTypes
  <2> QED BY <2>1, <2>2
<1>4. ASSUME NEW why \in Reasons PROVE (Spaced(why) /\ Accounted(why))'
  <2>1. Winners(why)' = Winners(why)
    BY <1>0 DEF Winners, ToldTypes
  <2>2. CASE why # reason[t]
    <3>1. Told(why)' = Told(why)
      BY <1>0, <2>2 DEF Told, ToldTypes
    <3>2. Lines(why)' = Lines(why) /\ suppressed'[why] = suppressed[why]
      BY <1>0, <2>2, <3>1 DEF Lines, ToldTypes
    <3> QED BY <1>0, <2>1, <3>1, <3>2 DEF Spaced, Accounted
  <2>3. CASE why = reason[t]
    <3>1. Told(why)' = Told(why) \union {t} /\ t \notin Told(why)
      BY <1>0, <2>3 DEF Told, ToldTypes
    <3>2. Lines(why)' = Lines(why)
      BY <1>0, <3>1 DEF Lines
    <3>3. suppressed'[why] = suppressed[why] + 1
      BY <1>0, <2>3 DEF ToldTypes
    <3>4. /\ Cardinality(Told(why)') = Cardinality(Told(why)) + 1
          /\ IsFiniteSet(Lines(why)) /\ Cardinality(Lines(why)) \in Nat
      <4>1. Told(why) \subseteq Tellers /\ Lines(why) \subseteq Tellers
        BY DEF Told, Lines
      <4>2. IsFiniteSet(Told(why)) /\ IsFiniteSet(Lines(why)) /\ Cardinality(Lines(why)) \in Nat
        BY <4>1, TellersAreFinite
      <4> QED BY <3>1, <4>2, FS_AddElement
    <3>5. Sum(omitted, Lines(why)) \in Nat
      BY <3>4, SumType DEF Lines, Told, ToldTypes
    <3>6. Accounted(why)'
      <4>1. suppressed[why] \in Nat
        BY DEF ToldTypes
      <4>2. Cardinality(Told(why)) = Cardinality(Lines(why)) + suppressed[why] + Sum(omitted, Lines(why))
        BY DEF Accounted
      <4>3. Cardinality(Told(why)') = Cardinality(Lines(why)) + suppressed'[why] + Sum(omitted, Lines(why))
        BY <3>3, <3>4, <3>5, <4>1, <4>2
      <4> QED BY <1>0, <3>2, <4>3 DEF Accounted
    <3>7. Spaced(why)'
      BY <1>0, <1>3, <2>1, <2>3 DEF Spaced
    <3> QED BY <3>6, <3>7
  <2> QED BY <2>2, <2>3
<1> QED BY <1>1, <1>2, <1>4

LEMMA ClaimSpaces ==
  ASSUME ToldTypes, TellersClaim, NEW t \in Tellers, telling[t] = "claim", at[t] >= deadline[t],
         nextReport[reason[t]] = deadline[t],
         nextReport' = [nextReport EXCEPT ![reason[t]] = at[t] + Interval],
         telling' = [telling EXCEPT ![t] = "take"],
         UNCHANGED <<clock, suppressed, deadline, reason, at, written, omitted>>,
         \A why \in Reasons : Spaced(why) /\ Accounted(why)
  PROVE  ToldTypes' /\ TellersClaim' /\ \A why \in Reasons : (Spaced(why) /\ Accounted(why))'
<1>0. /\ reason[t] \in Reasons /\ t \notin written
      /\ suppressed' = suppressed /\ reason' = reason /\ at' = at /\ written' = written
      /\ omitted' = omitted /\ deadline' = deadline /\ clock' = clock
  BY DEF TellersClaim
<1>1. Interval \in Nat /\ Interval > 0 /\ at[t] \in Nat
  BY DiagnosticsAssumption DEF ToldTypes
<1>2. ToldTypes'
  BY <1>0, <1>1 DEF ToldTypes, Accesses
<1>3. \A why \in Reasons : nextReport[why] <= nextReport'[why]
  BY <1>0, <1>1 DEF ToldTypes
<1>4. TellersClaim'
  <2> SUFFICES ASSUME NEW u \in Tellers
               PROVE  /\ telling'[u] # "quiet" => reason[u] \in Reasons
                      /\ u \in written => telling'[u] = "told"
                      /\ telling'[u] = "claim" => deadline[u] <= nextReport'[reason[u]]
    BY <1>0 DEF TellersClaim
  <2>1. telling'[u] # "quiet" => reason[u] \in Reasons
    BY <1>0 DEF TellersClaim, ToldTypes
  <2>2. u \in written => telling'[u] = "told"
    BY <1>0 DEF TellersClaim, ToldTypes
  <2>3. ASSUME telling'[u] = "claim" PROVE deadline[u] <= nextReport'[reason[u]]
    <3>1. telling[u] = "claim"
      BY <2>3 DEF ToldTypes
    <3>2. deadline[u] <= nextReport[reason[u]] /\ reason[u] \in Reasons
      BY <3>1 DEF TellersClaim
    <3>3. deadline[u] \in Nat /\ nextReport[reason[u]] \in Nat /\ nextReport'[reason[u]] \in Nat
      BY <1>0, <1>2, <3>2 DEF ToldTypes
    <3> QED BY <1>3, <3>2, <3>3
  <2> QED BY <2>1, <2>2, <2>3
<1>5. ASSUME NEW why \in Reasons PROVE (Spaced(why) /\ Accounted(why))'
  <2>1. Told(why)' = Told(why)
    BY <1>0 DEF Told, ToldTypes
  <2>2. Lines(why)' = Lines(why)
    BY <1>0, <2>1 DEF Lines
  <2>3. Accounted(why)'
    BY <1>0, <2>1, <2>2 DEF Accounted
  <2>4. CASE why # reason[t]
    <3>1. Winners(why)' = Winners(why) /\ nextReport'[why] = nextReport[why]
      BY <1>0, <2>4 DEF Winners, ToldTypes
    <3> QED BY <1>0, <2>1, <2>3, <3>1 DEF Spaced
  <2>5. CASE why = reason[t]
    <3>1. Winners(why)' = Winners(why) \union {t}
      BY <1>0, <2>5 DEF Winners, ToldTypes
    <3>2. nextReport'[why] = at[t] + Interval /\ nextReport[why] <= at[t] /\ nextReport[why] \in Nat
      BY <1>0, <2>5 DEF ToldTypes
    <3>3. \A u \in Winners(why) : at[u] \in Nat /\ at[u] + Interval <= at[t]
      <4> SUFFICES ASSUME NEW u \in Winners(why) PROVE at[u] \in Nat /\ at[u] + Interval <= at[t]
        OBVIOUS
      <4>1. at[u] \in Nat
        BY DEF Winners, ToldTypes
      <4>2. at[u] + Interval <= nextReport[why]
        BY DEF Spaced
      <4> QED BY <1>1, <3>2, <4>1, <4>2
    <3>4. \A u \in Winners(why)' : at[u] + Interval <= nextReport'[why]
      BY <1>1, <3>1, <3>2, <3>3
    <3>5. \A u, v \in Winners(why)' : u # v => at[u] - at[v] >= Interval \/ at[v] - at[u] >= Interval
      <4> SUFFICES ASSUME NEW u \in Winners(why)', NEW v \in Winners(why)', u # v
                   PROVE  at[u] - at[v] >= Interval \/ at[v] - at[u] >= Interval
        OBVIOUS
      <4>1. CASE u \in Winners(why) /\ v \in Winners(why)
        BY <4>1 DEF Spaced
      <4>2. CASE u = t /\ v \in Winners(why)
        BY <1>1, <3>3, <4>2
      <4>3. CASE v = t /\ u \in Winners(why)
        BY <1>1, <3>3, <4>3
      <4> QED BY <3>1, <4>1, <4>2, <4>3
    <3>6. nextReport'[why] > 0 /\ Winners(why)' # {}
      BY <1>1, <3>1, <3>2
    <3> QED BY <1>0, <2>3, <3>4, <3>5, <3>6 DEF Spaced
  <2> QED BY <2>4, <2>5
<1> QED BY <1>2, <1>4, <1>5

LEMMA LineTellsOmitted ==
  ASSUME ToldTypes, TellersClaim, NEW t \in Tellers, TakeSuppressed(t),
         \A why \in Reasons : Spaced(why) /\ Accounted(why)
  PROVE  ToldTypes' /\ TellersClaim' /\ \A why \in Reasons : (Spaced(why) /\ Accounted(why))'
<1>0. /\ telling[t] = "take" /\ reason[t] \in Reasons /\ t \notin written
      /\ written' = written \union {t}
      /\ omitted' = [omitted EXCEPT ![t] = suppressed[reason[t]]]
      /\ suppressed' = [suppressed EXCEPT ![reason[t]] = 0]
      /\ telling' = [telling EXCEPT ![t] = "told"]
      /\ clock' = clock /\ nextReport' = nextReport /\ reason' = reason /\ at' = at
      /\ deadline' = deadline
  BY DEF TakeSuppressed, TellersClaim
<1>1. ToldTypes'
  BY <1>0 DEF ToldTypes, Accesses
<1>2. TellersClaim'
  BY <1>0 DEF TellersClaim, ToldTypes
<1>3. ASSUME NEW why \in Reasons PROVE (Spaced(why) /\ Accounted(why))'
  <2>1. Winners(why)' = Winners(why)
    BY <1>0 DEF Winners, ToldTypes
  <2>2. /\ IsFiniteSet(Told(why)) /\ IsFiniteSet(Lines(why)) /\ Cardinality(Lines(why)) \in Nat
        /\ t \notin Lines(why) /\ t \notin Told(why)
    <3>1. Told(why) \subseteq Tellers /\ Lines(why) \subseteq Tellers
      BY DEF Told, Lines
    <3> QED BY <1>0, <3>1, TellersAreFinite DEF Told, Lines
  <2>3. Sum(omitted', Lines(why)) = Sum(omitted, Lines(why)) /\ Sum(omitted, Lines(why)) \in Nat
    <3>1. \A u \in Lines(why) : omitted'[u] = omitted[u] /\ omitted[u] \in Nat
      BY <1>0, <2>2 DEF Lines, Told, ToldTypes
    <3>2. Sum(omitted, Lines(why)) \in Nat
      BY <2>2, <3>1, SumType
    <3>3. ASSUME NEW f, f = omitted' PROVE Sum(f, Lines(why)) = Sum(omitted, Lines(why))
      BY <2>2, <3>1, <3>3, SumOfEquals
    <3> QED BY <3>2, <3>3
  <2>4. CASE why # reason[t]
    <3>1. Told(why)' = Told(why)
      BY <1>0, <2>4 DEF Told, ToldTypes
    <3>2. Lines(why)' = Lines(why)
      BY <1>0, <2>4, <3>1 DEF Lines, Told
    <3>3. suppressed'[why] = suppressed[why]
      BY <1>0, <2>4 DEF ToldTypes
    <3> QED BY <1>0, <2>1, <2>3, <3>1, <3>2, <3>3 DEF Spaced, Accounted
  <2>5. CASE why = reason[t]
    <3>1. Told(why)' = Told(why) \union {t} /\ Lines(why)' = Lines(why) \union {t}
      BY <1>0, <2>5 DEF Told, Lines, ToldTypes
    <3>2. suppressed'[why] = 0 /\ omitted'[t] = suppressed[why] /\ suppressed[why] \in Nat
      BY <1>0, <2>5 DEF ToldTypes
    <3>3. Sum(omitted', Lines(why)') = suppressed[why] + Sum(omitted, Lines(why))
      <4> DEFINE S == Lines(why) \union {t}
      <4>1. IsFiniteSet(S) /\ t \in S /\ S \ {t} = Lines(why)
        BY <2>2, FS_AddElement
      <4>2. \A u \in S : omitted'[u] \in Nat
        BY <1>1 DEF ToldTypes, Lines, Told
      <4>3. ASSUME NEW f, f = omitted' PROVE Sum(f, S) = f[t] + Sum(f, S \ {t})
        <5>1. \A u \in S : f[u] \in Nat
          BY <4>2, <4>3
        <5> HIDE DEF S
        <5> QED BY <4>1, <5>1, SumRemove
      <4>4. Sum(omitted', S) = omitted'[t] + Sum(omitted', S \ {t})
        BY <4>3
      <4> QED BY <2>3, <3>1, <3>2, <4>1, <4>4
    <3>4. /\ Cardinality(Told(why)') = Cardinality(Told(why)) + 1
          /\ Cardinality(Lines(why)') = Cardinality(Lines(why)) + 1
      BY <2>2, <3>1, FS_AddElement
    <3>5. Accounted(why)'
      <4>1. Cardinality(Told(why)) = Cardinality(Lines(why)) + suppressed[why] + Sum(omitted, Lines(why))
        BY DEF Accounted
      <4>2. Cardinality(Told(why)') = Cardinality(Lines(why)') + suppressed'[why] + Sum(omitted', Lines(why)')
        BY <2>2, <2>3, <3>2, <3>3, <3>4, <4>1
      <4> QED BY <4>2 DEF Accounted
    <3>6. nextReport[why] > 0
      <4>1. t \in Winners(why)
        BY <1>0, <2>5 DEF Winners
      <4>2. at[t] + Interval <= nextReport[why]
        BY <4>1 DEF Spaced
      <4> QED BY <4>2, DiagnosticsAssumption DEF ToldTypes
    <3>7. Spaced(why)'
      BY <1>0, <2>1, <3>6 DEF Spaced
    <3> QED BY <3>5, <3>7
  <2> QED BY <2>4, <2>5
<1> QED BY <1>1, <1>2, <1>3

LEMMA TellersKeepReports ==
  ASSUME ReportInv, NEW t \in Tellers, TellerStep(t)
  PROVE  ReportInv'
<1> USE DEF ReportInv
<1>0. pc' = pc /\ shutdown' = shutdown /\ reason' = reason
  BY DEF TellerStep, LoadDeadline, ClaimReport, Claim, TakeSuppressed, vars, threads, runtime
<1>1. ToldTypes' /\ TellersClaim' /\ \A why \in Reasons : (Spaced(why) /\ Accounted(why))'
  <2>1. CASE LoadDeadline(t)
    BY <2>1, LoadKeepsReports
  <2>2. CASE ClaimReport(t)
    <3> DEFINE wins == nextReport[reason[t]] = deadline[t]
    <3>1. CASE at[t] < deadline[t]
      <4>1. /\ telling[t] = "claim"
            /\ suppressed' = [suppressed EXCEPT ![reason[t]] = @ + 1]
            /\ telling' = [telling EXCEPT ![t] = "told"]
            /\ UNCHANGED <<clock, nextReport, deadline, reason, at, written, omitted>>
        <5>1. ~ (at[t] >= deadline[t])
          BY <3>1 DEF ToldTypes
        <5> QED BY <2>2, <3>1, <5>1 DEF ClaimReport, Claim
      <4> QED BY <3>1, <4>1, SuppressionIsCounted
    <3>2. CASE at[t] >= deadline[t] /\ wins
      <4>1. /\ telling[t] = "claim"
            /\ nextReport' = [nextReport EXCEPT ![reason[t]] = at[t] + Interval]
            /\ telling' = [telling EXCEPT ![t] = "take"]
            /\ UNCHANGED <<clock, suppressed, deadline, reason, at, written, omitted>>
        <5>1. ~ (at[t] < deadline[t])
          BY <3>2 DEF ToldTypes
        <5> QED BY <2>2, <3>2, <5>1 DEF ClaimReport, Claim
      <4> QED BY <3>2, <4>1, ClaimSpaces
    <3>3. CASE at[t] >= deadline[t] /\ ~ wins
      <4>1. /\ telling[t] = "claim"
            /\ deadline' = [deadline EXCEPT ![t] = nextReport[reason[t]]]
            /\ nextReport' = nextReport /\ suppressed' = suppressed /\ telling' = telling
            /\ clock' = clock /\ at' = at /\ written' = written /\ omitted' = omitted
        <5>1. ~ (at[t] < deadline[t])
          BY <3>3 DEF ToldTypes
        <5> QED BY <2>2, <3>3, <5>1 DEF ClaimReport, Claim, limiters
      <4>2. reason[t] \in Reasons
        BY <4>1 DEF TellersClaim
      <4>3. ToldTypes'
        BY <1>0, <4>1, <4>2 DEF ToldTypes
      <4>4. TellersClaim'
        BY <1>0, <4>1, <4>2 DEF TellersClaim, ToldTypes
      <4>5. ASSUME NEW why \in Reasons PROVE (Spaced(why) /\ Accounted(why))'
        <5>1. Winners(why)' = Winners(why) /\ Told(why)' = Told(why)
          BY <1>0, <4>1 DEF Winners, Told
        <5>2. Lines(why)' = Lines(why)
          BY <4>1, <5>1 DEF Lines
        <5> QED BY <4>1, <5>1, <5>2 DEF Spaced, Accounted
      <4> QED BY <4>3, <4>4, <4>5
    <3>4. at[t] < deadline[t] \/ at[t] >= deadline[t]
      BY DEF ToldTypes
    <3> QED BY <3>1, <3>2, <3>3, <3>4
  <2>3. CASE TakeSuppressed(t)
    BY <2>3, LineTellsOmitted
  <2> QED BY <2>1, <2>2, <2>3 DEF TellerStep
<1>2. ASSUME NEW u \in Tellers PROVE telling'[u] # "quiet" => telling[u] # "quiet"
  BY <1>2 DEF TellerStep, LoadDeadline, ClaimReport, Claim, TakeSuppressed, ToldTypes
<1>3. TellersDropped'
  BY <1>0, <1>2 DEF TellersDropped, Tellers
<1> QED BY <1>1, <1>3

\* A thread that ends its record.
LEMMA OnEndKeepsReports ==
  ASSUME TypeOK, ReportInv, NEW r \in Records, OnEndTold(r)
  PROVE  ReportInv'
<1> USE DEF ReportInv
<1>1. /\ pc[r] # "done" /\ shutdown' = shutdown /\ \A q \in Records : q # r => pc'[q] = pc[q]
      /\ pc[r] = "drop" => pc'[r] = "done"
  BY OnEndMoves DEF OnEndTold
<1>2. r \in Tellers /\ telling[r] = "quiet" /\ Closer \in Tellers /\ r # Closer
  BY <1>1, DiagnosticsAssumption DEF Tellers, TellersDropped
<1>3. CASE pc[r] = "drop"
  <2>1. /\ telling' = [telling EXCEPT ![r] = "load"] /\ at' = [at EXCEPT ![r] = clock]
        /\ reason' = reason
        /\ UNCHANGED <<clock, limiters, deadline, written, omitted>>
    BY <1>3 DEF OnEndTold, DropRecords
  <2>2. reason[r] \in Reasons
    BY <1>3 DEF TellersDropped
  <2>3. /\ telling' = [telling EXCEPT ![r] = telling'[r]] /\ telling'[r] = "load"
        /\ reason' = [reason EXCEPT ![r] = reason'[r]] /\ reason'[r] = reason[r]
        /\ at' = [at EXCEPT ![r] = at'[r]] /\ at'[r] \in Nat
    BY <1>2, <2>1 DEF ToldTypes
  <2>4. ToldTypes' /\ TellersClaim' /\ \A why \in Reasons : (Spaced(why) /\ Accounted(why))'
    BY <1>2, <2>1, <2>2, <2>3, BeginsQuietly
  <2>5. TellersDropped'
    BY <1>1, <1>2, <1>3, <2>1, <2>2, <2>3 DEF TellersDropped, ToldTypes
  <2> QED BY <2>4, <2>5
<1>4. CASE pc[r] # "drop"
  <2>1. /\ reason' = IF pc'[r] # "drop" THEN reason ELSE
              [reason EXCEPT ![r] = IF pc[r] \in {"load", "exchange"} THEN "queue_full"
                                                                      ELSE "pipeline_closed"]
        /\ telling' = telling /\ at' = at
        /\ UNCHANGED <<clock, limiters, deadline, written, omitted>>
    BY <1>4 DEF OnEndTold
  <2>2. /\ telling' = [telling EXCEPT ![r] = telling'[r]] /\ telling'[r] = "quiet"
        /\ at' = [at EXCEPT ![r] = at'[r]] /\ at'[r] \in Nat
    BY <1>2, <2>1 DEF ToldTypes
  <2>3. /\ reason' = [reason EXCEPT ![r] = reason'[r]] /\ reason'[r] \in Reasons \union {"none"}
        /\ pc'[r] = "drop" => reason'[r] \in Reasons
    BY <1>2, <2>1 DEF ToldTypes, Reasons
  <2>4. ToldTypes' /\ TellersClaim' /\ \A why \in Reasons : (Spaced(why) /\ Accounted(why))'
    BY <1>2, <2>1, <2>2, <2>3, BeginsQuietly
  <2>5. TellersDropped'
    BY <1>1, <1>2, <2>1, <2>2, <2>3 DEF TellersDropped, ToldTypes
  <2> QED BY <2>4, <2>5
<1> QED BY <1>3, <1>4

\* drop_pending: the closer begins its report, if it has found anything.
LEMMA StrandedKeepReports ==
  ASSUME TypeOK, ReportInv, CountStrandedTold
  PROVE  ReportInv'
<1> USE DEF ReportInv
<1>1. shutdown = "counting" /\ shutdown' = "stopped" /\ pc' = pc
  BY DEF CountStrandedTold, CountStranded, threads
<1>2. Closer \in Tellers /\ telling[Closer] = "quiet" /\ Closer \notin Records
  BY <1>1, DiagnosticsAssumption DEF Tellers, TellersDropped
<1>3. /\ telling' = [telling EXCEPT ![Closer] = telling'[Closer]] /\ telling'[Closer] \in {"quiet", "load"}
      /\ at' = [at EXCEPT ![Closer] = at'[Closer]] /\ at'[Closer] \in Nat
      /\ UNCHANGED <<clock, limiters, deadline, written, omitted>>
  <2>1. CASE stranded = 0
    BY <1>2, <2>1 DEF CountStrandedTold, DropRecords, ToldTypes
  <2>2. CASE stranded # 0
    BY <1>2, <2>2 DEF CountStrandedTold, DropRecords, ToldTypes
  <2> QED BY <2>1, <2>2
<1>4. /\ reason' = [reason EXCEPT ![Closer] = reason'[Closer]] /\ reason'[Closer] \in Reasons
  BY <1>2 DEF CountStrandedTold, ToldTypes, Reasons
<1>5. ToldTypes' /\ TellersClaim' /\ \A why \in Reasons : (Spaced(why) /\ Accounted(why))'
  BY <1>2, <1>3, <1>4, BeginsQuietly
<1>6. \A r \in Records : telling'[r] = telling[r] /\ reason'[r] = reason[r]
  BY <1>2, <1>3, <1>4 DEF ToldTypes, Tellers
<1>7. TellersDropped'
  BY <1>1, <1>6 DEF TellersDropped
<1> QED BY <1>5, <1>7

LEMMA ReportInductive == TypeOK /\ ReportInv /\ [NextTold]_told_vars => ReportInv'
<1> SUFFICES ASSUME TypeOK, ReportInv, [NextTold]_told_vars PROVE ReportInv'
  OBVIOUS
<1> DEFINE Quiet == /\ UNCHANGED <<limiters, tellers, pc>> /\ clock' \in Nat
                    /\ shutdown = "stopped" => shutdown' = "stopped"
<1>0. ASSUME Quiet PROVE ReportInv'
  <2>1. /\ nextReport' = nextReport /\ suppressed' = suppressed /\ telling' = telling /\ reason' = reason
        /\ at' = at /\ deadline' = deadline /\ written' = written /\ omitted' = omitted /\ pc' = pc
        /\ clock' \in Nat
    BY <1>0 DEF limiters, tellers
  <2>2. ToldTypes' /\ TellersClaim'
    BY <2>1 DEF ReportInv, ToldTypes, TellersClaim
  <2>3. TellersDropped'
    BY <1>0, <2>1 DEF ReportInv, TellersDropped
  <2>4. ASSUME NEW why \in Reasons PROVE (Spaced(why) /\ Accounted(why))'
    <3>1. Winners(why)' = Winners(why) /\ Told(why)' = Told(why)
      BY <2>1 DEF Winners, Told
    <3>2. Lines(why)' = Lines(why)
      BY <2>1, <3>1 DEF Lines
    <3> QED BY <2>1, <3>1, <3>2 DEF ReportInv, Spaced, Accounted
  <2> QED BY <2>2, <2>3, <2>4 DEF ReportInv
<1>1. ASSUME NEW r \in Records, OnEndTold(r) PROVE ReportInv'
  BY <1>1, OnEndKeepsReports
<1>2. ASSUME NEW t \in Tellers, TellerStep(t) PROVE ReportInv'
  BY <1>2, TellersKeepReports
<1>3. CASE CountStrandedTold
  BY <1>3, StrandedKeepReports
<1>4. CASE BeginExportTold \/ SendBytes \/ ExportReturnsTold \/ ProviderReturnsTold
  <2>1. UNCHANGED <<clock, limiters, tellers, drops>>
    BY <1>4, Zenon DEF BeginExportTold, SendBytes, ExportReturnsTold, ProviderReturnsTold, DropsFrame
  <2>2. UNCHANGED pc /\ (shutdown = "stopped" => shutdown' = "stopped")
    BY <1>4 DEF BeginExportTold, SendBytes, ExportReturnsTold, ProviderReturnsTold, BeginExport,
                ExportReturns, ProviderReturns, vars, threads, runtime
  <2>3. clock' \in Nat
    BY <2>1 DEF ReportInv, ToldTypes
  <2> QED BY <1>0, <2>1, <2>2, <2>3
<1>5. CASE (TakeBatch \/ WorkerStops \/ StopProvider \/ DropPending \/ Close \/ Idle) /\ UNCHANGED diagnostics
  <2>1. UNCHANGED <<clock, limiters, tellers>>
    BY <1>5, Zenon DEF diagnostics
  <2>2. UNCHANGED pc /\ (shutdown = "stopped" => shutdown' = "stopped")
    BY <1>5 DEF TakeBatch, WorkerStops, StopProvider, DropPending, Close, Idle, vars, threads, runtime
  <2>3. clock' \in Nat
    BY <2>1 DEF ReportInv, ToldTypes
  <2> QED BY <1>0, <2>1, <2>2, <2>3
<1>6. CASE Advance \/ UNCHANGED told_vars
  <2>1. UNCHANGED <<limiters, tellers, vars>> /\ (clock' = clock \/ clock' = clock + 1)
    BY <1>6, Zenon DEF Advance, told_vars, diagnostics
  <2>2. UNCHANGED pc /\ shutdown' = shutdown
    BY <2>1 DEF vars, threads, runtime
  <2>3. clock' \in Nat
    BY <2>1 DEF ReportInv, ToldTypes
  <2> QED BY <1>0, <2>1, <2>2, <2>3
<1> QED BY <1>1, <1>2, <1>3, <1>4, <1>5, <1>6 DEF NextTold, WorkerTold, ShutdownTold

LEMMA InitReports == InitTold => ReportInv
<1> SUFFICES ASSUME InitTold PROVE ReportInv
  OBVIOUS
<1>0. /\ clock = 0 /\ nextReport = [w \in Reasons |-> 0] /\ suppressed = [w \in Reasons |-> 0]
      /\ telling = [t \in Tellers |-> "quiet"] /\ reason = [t \in Tellers |-> "none"]
      /\ at = [t \in Tellers |-> 0] /\ deadline = [t \in Tellers |-> 0]
      /\ written = {} /\ omitted = [t \in Tellers |-> 0] /\ pc = [r \in Records |-> "idle"]
  BY DEF InitTold, Init
<1>1. ToldTypes /\ TellersClaim
  BY <1>0 DEF ToldTypes, TellersClaim, Accesses
<1>2. TellersDropped
  BY <1>0 DEF TellersDropped, Tellers
<1>3. ASSUME NEW why \in Reasons PROVE Spaced(why) /\ Accounted(why)
  <2>1. Told(why) = {} /\ Lines(why) = {} /\ Winners(why) = {}
    BY <1>0 DEF Told, Lines, Winners
  <2>2. Cardinality({}) = 0 /\ Sum(omitted, {}) = 0 /\ suppressed[why] = 0 /\ nextReport[why] = 0
    BY <1>0, FS_EmptySet, SumOfNothing
  <2> QED BY <2>1, <2>2 DEF Spaced, Accounted
<1> QED BY <1>1, <1>2, <1>3 DEF ReportInv

\* However many threads drop records at once, and whoever else reads or moves the
\* clock between the accesses of claim_report: no report is forgotten and none is told twice,
\* the first is never withheld, and two lines of one reason are an interval apart.
THEOREM ReportsAreToldOnce == SpecTold => []DropsAreReported
<1>1. ReportInv => DropsAreReported
  <2> SUFFICES ASSUME ReportInv, NEW why \in Reasons
               PROVE  /\ Cardinality(Told(why)) =
                           Cardinality(Lines(why)) + suppressed[why]
                             + FoldFunctionOnSet(+, 0, omitted, Lines(why))
                      /\ \A t, u \in Lines(why) :
                           t # u => at[t] - at[u] >= Interval \/ at[u] - at[t] >= Interval
                      /\ Told(why) # {} =>
                           \E t \in Tellers : reason[t] = why /\ (telling[t] = "take" \/ t \in written)
    BY DEF DropsAreReported
  <2>1. Spaced(why) /\ Accounted(why)
    BY DEF ReportInv
  <2>2. Lines(why) \subseteq Winners(why)
    BY DEF Lines, Told, Winners
  <2>3. \A t, u \in Lines(why) : t # u => at[t] - at[u] >= Interval \/ at[u] - at[t] >= Interval
    BY <2>1, <2>2 DEF Spaced
  <2>4. Told(why) # {} => Winners(why) # {}
    BY <2>1 DEF Spaced
  <2>5. Cardinality(Told(why)) = Cardinality(Lines(why)) + suppressed[why]
                             + FoldFunctionOnSet(+, 0, omitted, Lines(why))
    BY <2>1, Zenon DEF Accounted, Sum
  <2> QED BY <2>3, <2>4, <2>5 DEF Winners
<1>2. SpecTold => []TypeOK
  BY DiagnosticsAreTransparent, TypeCorrect, PTL
<1> QED BY <1>1, <1>2, InitReports, ReportInductive, PTL DEF SpecTold
=============================================================================
