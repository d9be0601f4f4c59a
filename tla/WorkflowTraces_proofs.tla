------------------------ MODULE WorkflowTraces_proofs ------------------------
(***************************************************************************)
(* The proofs about WorkflowTraces, for any payloads, texts and limits.    *)
(* The invariant says that every emitted trace is the one that a           *)
(* well-formed job makes, that the links are one row for each job, of a    *)
(* trace that was emitted for it, and that each task of a run was read     *)
(* back from such a row.  It rests on three groups of lemmas:              *)
(*                                                                         *)
(*   - what is put in order (the reports of a trace, the jobs of a run,    *)
(*     the names of checks) is counted once and left out nowhere, because  *)
(*     the rank of an element, the number of those before it, is a         *)
(*     bijection between a finite ordered set and its places;              *)
(*   - the checks known to protect a branch are the first usable names,    *)
(*     times nest, and what is clean stays as it is when it is read back;  *)
(*   - a failure is shown alike by its span and by its report.             *)
(***************************************************************************)
EXTENDS WorkflowTraces, FiniteSetTheorems, TLAPS

-------------------------------------------------------------------------------
(* Orders *)

\* R orders S strictly and totally.
Orders(R, S) ==
    /\ \A x \in S : <<x, x>> \notin R
    /\ \A x, y, z \in S : <<x, y>> \in R /\ <<y, z>> \in R => <<x, z>> \in R
    /\ \A x, y \in S : x # y => <<x, y>> \in R \/ <<y, x>> \in R

Rank(R, S, x) == Cardinality({y \in S : <<y, x>> \in R})

LEMMA RankGrows ==
    ASSUME NEW S, IsFiniteSet(S), NEW R, Orders(R, S), NEW x \in S, NEW y \in S, <<x, y>> \in R
    PROVE  Rank(R, S, x) < Rank(R, S, y)
<1> DEFINE below(z) == {w \in S : <<w, z>> \in R}
<1>1. IsFiniteSet(below(x)) /\ IsFiniteSet(below(y))
    BY FS_Subset
<1>2. below(x) \in SUBSET below(y)
    BY DEF Orders
<1>3. x \in below(y) /\ x \notin below(x)
    BY DEF Orders
<1>4. Cardinality(below(x)) <= Cardinality(below(y)) /\ Cardinality(below(x)) # Cardinality(below(y))
    <2> HIDE DEF below
    <2> QED BY <1>1, <1>2, <1>3, FS_Subset
<1>5. Cardinality(below(x)) \in Nat /\ Cardinality(below(y)) \in Nat
    <2> HIDE DEF below
    <2> QED BY <1>1, FS_CardinalityType
<1>6. Rank(R, S, x) = Cardinality(below(x)) /\ Rank(R, S, y) = Cardinality(below(y))
    BY DEF Rank
<1> HIDE DEF below
<1> QED BY <1>4, <1>5, <1>6

LEMMA RankIsInjective ==
    ASSUME NEW S, IsFiniteSet(S), NEW R, Orders(R, S), NEW x \in S, NEW y \in S,
           Rank(R, S, x) = Rank(R, S, y)
    PROVE  x = y
<1>1. SUFFICES ASSUME x # y PROVE FALSE
    OBVIOUS
<1>2. Rank(R, S, x) \in Nat /\ Rank(R, S, y) \in Nat
    BY FS_Subset, FS_CardinalityType DEF Rank
<1>3. CASE <<x, y>> \in R
    BY <1>2, <1>3, RankGrows
<1>4. CASE <<y, x>> \in R
    BY <1>2, <1>4, RankGrows
<1> QED BY <1>1, <1>3, <1>4 DEF Orders

LEMMA RankType ==
    ASSUME NEW S, IsFiniteSet(S), NEW R, Orders(R, S), NEW x \in S
    PROVE  Cardinality(S) \in Nat /\ Rank(R, S, x) \in 0 .. Cardinality(S) - 1
<1> DEFINE below == {y \in S : <<y, x>> \in R}
<1>1. below \in SUBSET (S \ {x})
    BY DEF Orders
<1>2. IsFiniteSet(S \ {x}) /\ Cardinality(S \ {x}) = Cardinality(S) - 1
    BY FS_RemoveElement
<1>3. IsFiniteSet(below) /\ Cardinality(below) <= Cardinality(S \ {x})
    <2> HIDE DEF below
    <2> QED BY <1>1, <1>2, FS_Subset
<1>4. Cardinality(below) \in Nat /\ Cardinality(S) \in Nat
    BY <1>3, FS_CardinalityType
<1> QED BY <1>2, <1>3, <1>4 DEF Rank

\* Every place below the size of the set is taken.
LEMMA RankIsTaken ==
    ASSUME NEW S, IsFiniteSet(S), NEW R, Orders(R, S), NEW k \in 0 .. Cardinality(S) - 1
    PROVE  \E x \in S : Rank(R, S, x) = k
<1> DEFINE places == 0 .. Cardinality(S) - 1
           f == [x \in S |-> Rank(R, S, x)]
<1>1. Cardinality(S) \in Nat
    BY FS_CardinalityType
<1>2. IsFiniteSet(places) /\ Cardinality(places) = Cardinality(S)
    BY <1>1, FS_Interval
<1>3. SUFFICES ASSUME \A x \in S : f[x] # k PROVE FALSE
    OBVIOUS
<1>4. IsFiniteSet(places \ {k}) /\ Cardinality(places \ {k}) = Cardinality(S) - 1
    BY <1>2, FS_RemoveElement
<1>5. f \in [S -> places \ {k}]
    BY <1>3, RankType
<1>6. \A x, y \in S : f[x] = f[y] => x = y
    BY RankIsInjective
<1>7. Cardinality(places \ {k}) < Cardinality(S)
    BY <1>1, <1>4
<1> HIDE DEF f, places
<1>8. \E x, y \in S : x # y /\ f[x] = f[y]
    BY <1>4, <1>5, <1>7, FS_PigeonHole
<1> QED BY <1>6, <1>8

\* What InOrder makes of an order: each element once, at its place.
Enumerates(seq, R, S) ==
    /\ DOMAIN seq = 1 .. Cardinality(S)
    /\ \A k \in DOMAIN seq : seq[k] \in S /\ Rank(R, S, seq[k]) = k - 1
    /\ \A k, l \in DOMAIN seq : seq[k] = seq[l] => k = l
    /\ \A x \in S : \E k \in DOMAIN seq : seq[k] = x

LEMMA Enumeration ==
    ASSUME NEW S, IsFiniteSet(S), NEW R, Orders(R, S), NEW seq,
           seq = [k \in 1 .. Cardinality(S) |-> CHOOSE x \in S : Rank(R, S, x) = k - 1]
    PROVE  Enumerates(seq, R, S)
<1>1. Cardinality(S) \in Nat
    BY FS_CardinalityType
<1>2. \A k \in 1 .. Cardinality(S) : seq[k] \in S /\ Rank(R, S, seq[k]) = k - 1
    <2> SUFFICES ASSUME NEW k \in 1 .. Cardinality(S) PROVE seq[k] \in S /\ Rank(R, S, seq[k]) = k - 1
        OBVIOUS
    <2>1. k - 1 \in 0 .. Cardinality(S) - 1
        BY <1>1
    <2>2. \E x \in S : Rank(R, S, x) = k - 1
        BY <2>1, RankIsTaken
    <2> QED BY <2>2
<1>3. \A k, l \in 1 .. Cardinality(S) : seq[k] = seq[l] => k = l
    BY <1>1, <1>2
<1>4. ASSUME NEW x \in S PROVE \E k \in 1 .. Cardinality(S) : seq[k] = x
    <2> DEFINE k == Rank(R, S, x) + 1
    <2>1. k \in 1 .. Cardinality(S) /\ k - 1 = Rank(R, S, x)
        BY RankType
    <2>2. seq[k] \in S /\ Rank(R, S, seq[k]) = Rank(R, S, x)
        BY <1>2, <2>1
    <2>3. seq[k] = x
        BY <2>2, RankIsInjective
    <2> QED BY <2>1, <2>3
<1> QED BY <1>2, <1>3, <1>4 DEF Enumerates

\* A set that is not empty has a first element.
LEMMA FirstExists ==
    ASSUME NEW S, IsFiniteSet(S), S # {}, NEW R, Orders(R, S)
    PROVE  \E x \in S : \A y \in S : y = x \/ <<x, y>> \in R
<1>1. Cardinality(S) \in Nat /\ Cardinality(S) # 0
    BY FS_CardinalityType, FS_EmptySet
<1>2. 0 \in 0 .. Cardinality(S) - 1
    BY <1>1
<1>3. PICK x \in S : Rank(R, S, x) = 0
    BY <1>2, RankIsTaken
<1>4. {y \in S : <<y, x>> \in R} = {}
    <2>1. IsFiniteSet({y \in S : <<y, x>> \in R})
        BY FS_Subset
    <2> QED BY <1>3, <2>1, FS_EmptySet DEF Rank
<1> QED BY <1>4 DEF Orders

-------------------------------------------------------------------------------
(* Numbers in their order *)

Less(S) == {pair \in S \X S : pair[1] < pair[2]}
Greater(S) == {pair \in S \X S : pair[1] > pair[2]}

LEMMA NumbersAreOrdered ==
    ASSUME NEW S \in SUBSET Int
    PROVE  Orders(Less(S), S) /\ Orders(Greater(S), S)
<1>1. \A x, y \in S : (<<x, y>> \in Less(S) <=> x < y) /\ (<<x, y>> \in Greater(S) <=> x > y)
    BY DEF Less, Greater
<1>2. \A x \in S : x \in Int
    OBVIOUS
<1> QED BY <1>1, <1>2 DEF Orders

LEMMA NumbersInOrder ==
    ASSUME NEW K \in SUBSET Int, IsFiniteSet(K)
    PROVE  Enumerates(InOrder(K, <), Less(K), K)
<1> DEFINE R == Less(K)
           places == InOrder(K, <)
<1>3. \A x, y \in K : <<x, y>> \in R <=> x < y
    BY DEF Less
<1>4. Orders(R, K)
    BY NumbersAreOrdered
<1>5. places = [k \in 1 .. Cardinality(K) |-> CHOOSE x \in K : Rank(R, K, x) = k - 1]
    <2>1. \A x \in K : {y \in K : y < x} = {y \in K : <<y, x>> \in R}
        BY <1>3
    <2>2. \A x \in K : Rank(R, K, x) = Cardinality({y \in K : y < x})
        BY <2>1 DEF Rank
    <2>3. ASSUME NEW k
          PROVE  (CHOOSE x \in K : Rank(R, K, x) = k - 1)
                 = (CHOOSE x \in K : Cardinality({y \in K : y < x}) = k - 1)
        <3> HIDE DEF R
        <3>1. \A x : (x \in K /\ Rank(R, K, x) = k - 1) <=> (x \in K /\ Cardinality({y \in K : y < x}) = k - 1)
            BY <2>2
        <3> QED BY <3>1, Zenon
    <2>4. [k \in 1 .. Cardinality(K) |-> CHOOSE x \in K : Rank(R, K, x) = k - 1]
          = [k \in 1 .. Cardinality(K) |-> CHOOSE x \in K : Cardinality({y \in K : y < x}) = k - 1]
        <3> DEFINE f(k) == CHOOSE x \in K : Rank(R, K, x) = k - 1
                   g(k) == CHOOSE x \in K : Cardinality({y \in K : y < x}) = k - 1
        <3>1. \A k : f(k) = g(k)
            BY <2>3, Zenon
        <3> HIDE DEF f, g
        <3>2. [k \in 1 .. Cardinality(K) |-> f(k)] = [k \in 1 .. Cardinality(K) |-> g(k)]
            BY <3>1
        <3> QED BY <3>2, Zenon DEF f, g
    <2> HIDE DEF R
    <2> QED BY <2>4, Zenon DEF InOrder
<1> HIDE DEF R, places
<1>6. Enumerates(places, R, K)
    BY <1>4, <1>5, Enumeration
<1> QED BY <1>6 DEF R, places

\* The bounds that AggregateTiming and AggregateConclusion choose exist.
LEMMA BoundsExist ==
    ASSUME NEW S \in SUBSET Int, IsFiniteSet(S), S # {}
    PROVE  (\E m \in S : \A n \in S : m <= n) /\ (\E m \in S : \A n \in S : m >= n)
<1>1. Orders(Less(S), S) /\ Orders(Greater(S), S)
    BY NumbersAreOrdered
<1>2. \A x \in S : x \in Int
    OBVIOUS
<1>3. \A x, y \in S : (<<x, y>> \in Less(S) => x <= y) /\ (<<x, y>> \in Greater(S) => x >= y)
    BY <1>2 DEF Less, Greater
<1>4. PICK least \in S : \A y \in S : y = least \/ <<least, y>> \in Less(S)
    BY <1>1, FirstExists
<1>5. PICK greatest \in S : \A y \in S : y = greatest \/ <<greatest, y>> \in Greater(S)
    BY <1>1, FirstExists
<1>6. \A x \in S : x <= x /\ x >= x
    BY <1>2
<1>7. \A n \in S : least <= n
    BY <1>3, <1>4, <1>6, Zenon
<1>8. \A n \in S : greatest >= n
    BY <1>3, <1>5, <1>6, Zenon
<1> QED BY <1>7, <1>8

-------------------------------------------------------------------------------
(* What is known of a sequence *)

KnownPlaces(seq) == {i \in 1 .. Len(seq) : seq[i] # None}

LEMMA PlacesAreFinite ==
    ASSUME NEW n \in Nat, NEW K \in SUBSET (1 .. n)
    PROVE  /\ IsFiniteSet(K) /\ Cardinality(K) \in 0 .. n /\ K \in SUBSET Int
<1>1. IsFiniteSet(1 .. n) /\ Cardinality(1 .. n) = n
    BY FS_Interval
<1> DEFINE all == 1 .. n
<1>2. K \in SUBSET Int
    OBVIOUS
<1>3. IsFiniteSet(K) /\ Cardinality(K) <= n
    <2>1. IsFiniteSet(all) /\ Cardinality(all) = n /\ K \in SUBSET all
        BY <1>1
    <2> HIDE DEF all
    <2> QED BY <2>1, FS_Subset
<1>4. Cardinality(K) \in Nat
    BY <1>3, FS_CardinalityType
<1> QED BY <1>2, <1>3, <1>4

\* Everything known is kept, once and in its order.
LEMMA KnownKeeps ==
    ASSUME NEW T, NEW seq \in Seq(T)
    PROVE  /\ Known(seq) \in Seq(T) /\ Len(Known(seq)) = Cardinality(KnownPlaces(seq))
           /\ DOMAIN Known(seq) = 1 .. Len(Known(seq))
           /\ Len(Known(seq)) \in 0 .. Len(seq)
           /\ \E places : /\ Enumerates(places, Less(KnownPlaces(seq)), KnownPlaces(seq))
                          /\ \A k \in 1 .. Len(Known(seq)) : Known(seq)[k] = seq[places[k]]
<1> DEFINE K == KnownPlaces(seq)
           places == InOrder(K, <)
<1>1. IsFiniteSet(K) /\ Cardinality(K) \in 0 .. Len(seq) /\ K \in SUBSET Int
    <2>1. Len(seq) \in Nat /\ K \in SUBSET (1 .. Len(seq))
        BY DEF KnownPlaces
    <2> HIDE DEF K
    <2> QED BY <2>1, PlacesAreFinite
<1>6. Enumerates(places, Less(K), K)
    <2> HIDE DEF K
    <2> QED BY <1>1, NumbersInOrder
<1>7. Known(seq) = [k \in DOMAIN places |-> seq[places[k]]]
    BY Zenon DEF Known, KnownPlaces
<1>8. DOMAIN places = 1 .. Cardinality(K) /\ \A k \in DOMAIN places : places[k] \in K
    <2> HIDE DEF K, places
    <2> QED BY <1>6 DEF Enumerates
<1>9. \A i \in K : seq[i] \in T
    BY DEF KnownPlaces
<1>10. Known(seq) \in [1 .. Cardinality(K) -> T]
    <2> HIDE DEF K, places
    <2> QED BY <1>7, <1>8, <1>9
<1>11. Known(seq) \in Seq(T) /\ Len(Known(seq)) = Cardinality(K)
    <2> HIDE DEF K
    <2> QED BY <1>1, <1>10
<1>12. \A k \in 1 .. Len(Known(seq)) : Known(seq)[k] = seq[places[k]]
    BY <1>7, <1>8, <1>11
<1>13. DOMAIN Known(seq) = 1 .. Len(Known(seq))
    BY <1>10, <1>11
<1> HIDE DEF places
<1> QED BY <1>1, <1>6, <1>11, <1>12, <1>13

\* The reports are those of the tasks at the places, each once.
Ordered(reports, K, errors) ==
    \E order : /\ Enumerates(order, Less(K), K)
               /\ \A k \in 1 .. Cardinality(K) : reports[k] = Report(errors[order[k]])

LEMMA ReportsTell ==
    ASSUME NEW K, K \in SUBSET Int, IsFiniteSet(K), NEW errors
    PROVE  /\ Reports(K, errors) \in Seq({Report(errors[i]) : i \in K})
           /\ Len(Reports(K, errors)) = Cardinality(K)
           /\ Ordered(Reports(K, errors), K, errors)
<1>1. Cardinality(K) \in Nat
    BY FS_CardinalityType
<1> DEFINE order == InOrder(K, <)
           reports == [k \in 1 .. Cardinality(K) |-> Report(errors[order[k]])]
<1>2. Enumerates(order, Less(K), K)
    <2> HIDE DEF order
    <2> QED BY <1>1, NumbersInOrder DEF order
<1>3. Reports(K, errors) = [k \in DOMAIN order |-> Report(errors[order[k]])]
    BY Zenon DEF Reports
<1> HIDE DEF order
<1>4. DOMAIN order = 1 .. Cardinality(K) /\ \A k \in 1 .. Cardinality(K) : order[k] \in K
    BY <1>2 DEF Enumerates
<1>5. Reports(K, errors) = reports
    BY <1>3, <1>4
<1>6. reports \in Seq({Report(errors[i]) : i \in K}) /\ Len(reports) = Cardinality(K)
    BY <1>1, <1>4
<1>7. \A k \in 1 .. Cardinality(K) : reports[k] = Report(errors[order[k]])
    OBVIOUS
<1> HIDE DEF reports
<1>8. Ordered(reports, K, errors)
    BY <1>2, <1>7 DEF Ordered
<1> QED BY <1>5, <1>6, <1>8

-------------------------------------------------------------------------------
(* Times, names and checks *)

Moments == Int \cup {None}
Intervals == {t \in [start : Int, end : Int, source : {"reported", "fallback"}] : t.start <= t.end}

LEMMA SystemTimeType ==
    ASSUME NEW at \in Timestamps
    PROVE  SystemTime(at) \in Moments
<1>1. CASE at = None
    BY <1>1 DEF SystemTime, Moments
<1>2. CASE at # None
    <2>1. at \in Int \X Nat
        BY <1>2 DEF Timestamps
    <2>2. at[1] \in Int /\ at[2] \in Nat /\ Second \in Nat
        BY <2>1, TracesAssumption
    <2>3. at[1] * Second \in Int /\ (-at[1]) * Second \in Int /\ (-at[1] - 1) * Second \in Int
        BY <2>2
    <2>4. at[1] >= 0 \/ at[1] < 0
        BY <2>2
    <2>5. CASE at[1] >= 0
        <3>1. SystemTime(at) = at[1] * Second + at[2]
            BY <1>2, <2>2, <2>5 DEF SystemTime
        <3> QED BY <2>2, <2>3, <3>1 DEF Moments
    <2>6. CASE at[1] < 0
        <3>1. SystemTime(at) = IF at[2] = 0 THEN -((-at[1]) * Second)
                               ELSE -((-at[1] - 1) * Second + (Second - at[2]))
            BY <1>2, <2>2, <2>6 DEF SystemTime
        <3> QED BY <2>2, <2>3, <3>1 DEF Moments
    <2> QED BY <2>4, <2>5, <2>6
<1> QED BY <1>1, <1>2

LEMMA JobTimingType ==
    ASSUME NEW start \in Moments, NEW end \in Moments
    PROVE  JobTiming(start, end) \in Intervals
<1>1. ReceivedAt \in Int
    BY TracesAssumption
<1>2. ASSUME NEW at \in Int PROVE Fallback(at) \in Intervals
    BY DEF Fallback, Interval, Intervals
<1>3. ASSUME NEW from \in Int, NEW to \in Int, from <= to PROVE Interval(from, to, "reported") \in Intervals
    BY <1>3 DEF Interval, Intervals
<1>4. CASE end = None
    BY <1>1, <1>2, <1>4 DEF JobTiming
<1>5. CASE end # None /\ start = None
    BY <1>2, <1>5 DEF JobTiming, Moments
<1>6. CASE end # None /\ start # None
    <2>1. start \in Int /\ end \in Int
        BY <1>6 DEF Moments
    <2>2. JobTiming(start, end) = OrElse(Reported(start, end), Fallback(end))
        BY <1>6 DEF JobTiming
    <2> QED BY <1>2, <1>3, <2>1, <2>2 DEF OrElse, Reported
<1> QED BY <1>4, <1>5, <1>6

\* A step lies inside its job.
LEMMA StepTimingNests ==
    ASSUME NEW start \in Moments, NEW end \in Moments, NEW parent \in Intervals
    PROVE  /\ StepTiming(start, end, parent) \in Intervals
           /\ parent.start <= StepTiming(start, end, parent).start
           /\ StepTiming(start, end, parent).end <= parent.end
<1>1. parent.start \in Int /\ parent.end \in Int /\ parent.start <= parent.end
    BY DEF Intervals
<1>2. /\ Fallback(parent.end) \in Intervals
      /\ Fallback(parent.end).start = parent.end /\ Fallback(parent.end).end = parent.end
    BY <1>1 DEF Fallback, Interval, Intervals
<1>3. CASE start = None \/ end = None
    BY <1>1, <1>2, <1>3 DEF StepTiming
<1>4. CASE ~(start = None \/ end = None)
    <2>1. start \in Int /\ end \in Int
        BY <1>4 DEF Moments
    <2>2. StepTiming(start, end, parent) = OrElse(ReportedWithinParent(start, end, parent), Fallback(parent.end))
        BY <1>4 DEF StepTiming
    <2>3. CASE start <= end /\ start >= parent.start /\ end <= parent.end
        <3>1. Interval(start, end, "reported") \in Intervals
            BY <2>1, <2>3 DEF Interval, Intervals
        <3>2. Interval(start, end, "reported").start = start /\ Interval(start, end, "reported").end = end
            BY DEF Interval
        <3>3. StepTiming(start, end, parent) \in {Interval(start, end, "reported"), Fallback(parent.end)}
            BY <2>2, <2>3 DEF OrElse, ReportedWithinParent
        <3> QED BY <1>1, <1>2, <2>1, <2>3, <3>1, <3>2, <3>3
    <2>4. CASE ~(start <= end /\ start >= parent.start /\ end <= parent.end)
        BY <1>1, <1>2, <2>2, <2>4 DEF OrElse, ReportedWithinParent
    <2> QED BY <2>3, <2>4
<1> QED BY <1>3, <1>4

\* Cleaning a second time, when a row is read back, changes nothing.
Cleaned == {t \in Texts : Clean[t] = t}

LEMMA DisplayNameCleans ==
    ASSUME NEW text \in Optional(Texts)
    PROVE  /\ DisplayName(text) \in Optional(Cleaned)
           /\ DisplayName(DisplayName(text)) = DisplayName(text)
BY TracesAssumption DEF DisplayName, Optional, Cleaned

LEMMA NormalizeType ==
    ASSUME NEW text
    PROVE  Normalize(text) \in Conclusions
BY DEF Normalize, Conclusions

\* Whether the i-th name that protection gives is usable and within the limit.
Counts(answer, i) == Cardinality({j \in 1 .. i - 1 : Clean[Given(answer)[j]] # None}) < MaxChecks

LEMMA ChecksAreFirstNames ==
    ASSUME NEW answer \in Answers, NEW name, name # None
    PROVE  name \in Cached(FromProtection(answer)) <=>
               \E i \in 1 .. Len(Given(answer)) : Clean[Given(answer)[i]] = name /\ Counts(answer, i)
<1> DEFINE given == Given(answer)
           names == [i \in 1 .. Len(given) |-> Clean[given[i]]]
           K == KnownPlaces(names)
           m == IF Len(Known(names)) < MaxChecks THEN Len(Known(names)) ELSE MaxChecks
<1>1. given \in Seq(Texts) /\ Len(given) \in Nat
    BY DEF Given, Answers
<1>2. \A t \in Texts : Clean[t] # None => Clean[t] \in Texts /\ Clean[Clean[t]] = Clean[t]
    BY TracesAssumption
<1>3. names \in Seq(Optional(Texts)) /\ Len(names) = Len(given)
    <2>1. \A i \in 1 .. Len(given) : Clean[given[i]] \in Optional(Texts)
        BY <1>1, <1>2 DEF Optional
    <2> QED BY <1>1, <2>1
<1>4. \A i \in 1 .. Len(given) : names[i] = Clean[given[i]]
    OBVIOUS
<1> HIDE DEF names
<1>5. PICK places : /\ Enumerates(places, Less(K), K)
                    /\ \A k \in 1 .. Len(Known(names)) : Known(names)[k] = names[places[k]]
    BY <1>3, KnownKeeps
<1>6. Known(names) \in Seq(Optional(Texts)) /\ Len(Known(names)) = Cardinality(K) /\ Len(Known(names)) \in Nat
    BY <1>3, KnownKeeps
<1>7. MaxChecks \in Nat
    BY TracesAssumption
<1>8. Elements(Bounded(Known(names), MaxChecks)) = {Known(names)[k] : k \in 1 .. m}
    <2>1. m \in 0 .. Len(Known(names))
        BY <1>6, <1>7
    <2>2. Bounded(Known(names), MaxChecks) = SubSeq(Known(names), 1, m)
        BY DEF Bounded
    <2> HIDE DEF m
    <2>3. Len(SubSeq(Known(names), 1, m)) = m /\ \A k \in 1 .. m : SubSeq(Known(names), 1, m)[k] = Known(names)[k]
        BY <1>6, <2>1
    <2> QED BY <2>2, <2>3 DEF Elements
<1>9. ASSUME NEW i \in K, NEW k \in 1 .. Cardinality(K), places[k] = i
      PROVE  k <= m <=> Counts(answer, i)
    <2>1. i \in 1 .. Len(given)
        BY <1>3 DEF KnownPlaces
    <2>2. {j \in K : <<j, i>> \in Less(K)} = {j \in 1 .. i - 1 : Clean[given[j]] # None}
        <3>1. \A j : j \in K <=> j \in 1 .. Len(given) /\ Clean[given[j]] # None
            BY <1>3, <1>4 DEF KnownPlaces
        <3>2. \A j \in K : <<j, i>> \in Less(K) <=> j < i
            BY DEF Less
        <3>3. \A j : (j \in 1 .. Len(given) /\ j < i) <=> j \in 1 .. i - 1
            BY <1>1, <2>1
        <3> HIDE DEF K, given
        <3> QED BY <3>1, <3>2, <3>3, Zenon
    <2>3. Rank(Less(K), K, i) = k - 1
        BY <1>5, <1>9 DEF Enumerates
    <2>4. Counts(answer, i) <=> k - 1 < MaxChecks
        BY <2>2, <2>3 DEF Counts, Rank
    <2> QED BY <1>6, <1>7, <2>4
<1>10. \A x \in Elements(Bounded(Known(names), MaxChecks)) : x # None /\ Clean[x] = x
    <2> SUFFICES ASSUME NEW k \in 1 .. m PROVE Known(names)[k] # None /\ Clean[Known(names)[k]] = Known(names)[k]
        BY <1>8
    <2>1. k \in 1 .. Len(Known(names)) /\ k \in DOMAIN places
        BY <1>5, <1>6, <1>7 DEF Enumerates
    <2>2. places[k] \in K /\ Known(names)[k] = names[places[k]]
        BY <1>5, <2>1 DEF Enumerates
    <2>3. places[k] \in 1 .. Len(given) /\ names[places[k]] # None
        BY <1>3, <2>2 DEF KnownPlaces
    <2>4. names[places[k]] = Clean[given[places[k]]] /\ given[places[k]] \in Texts
        BY <1>1, <1>4, <2>3
    <2> QED BY <1>2, <2>2, <2>3, <2>4
<1>11. Cached(FromProtection(answer)) = Elements(Bounded(Known(names), MaxChecks))
    <2>1. FromProtection(answer) = Elements(Bounded(Known(names), MaxChecks))
        BY DEF FromProtection, names
    <2> QED BY <1>10, <2>1 DEF Cached
<1>12. ASSUME name \in Cached(FromProtection(answer))
       PROVE  \E i \in 1 .. Len(given) : Clean[given[i]] = name /\ Counts(answer, i)
    <2>1. PICK k \in 1 .. m : name = Known(names)[k]
        BY <1>8, <1>11, <1>12
    <2>2. k \in 1 .. Len(Known(names)) /\ k \in DOMAIN places /\ k <= m
        BY <1>5, <1>6, <1>7, <2>1 DEF Enumerates
    <2>3. places[k] \in K /\ name = names[places[k]]
        BY <1>5, <2>1, <2>2 DEF Enumerates
    <2>4. places[k] \in 1 .. Len(given)
        BY <1>3, <2>3 DEF KnownPlaces
    <2>5. Counts(answer, places[k])
        BY <1>6, <1>9, <2>2, <2>3
    <2> QED BY <1>4, <2>3, <2>4, <2>5
<1>13. ASSUME NEW i \in 1 .. Len(given), Clean[given[i]] = name, Counts(answer, i)
       PROVE  name \in Cached(FromProtection(answer))
    <2>1. i \in K
        BY <1>3, <1>4, <1>13 DEF KnownPlaces
    <2>2. PICK k \in DOMAIN places : places[k] = i
        BY <1>5, <2>1 DEF Enumerates
    <2>3. k \in 1 .. Cardinality(K)
        BY <1>5, <2>2 DEF Enumerates
    <2>4. k <= m
        BY <1>9, <1>13, <2>1, <2>2, <2>3
    <2>5. k \in 1 .. m /\ Known(names)[k] = name
        BY <1>4, <1>5, <1>6, <1>7, <1>13, <2>2, <2>3, <2>4
    <2> QED BY <1>8, <1>11, <2>5
<1> QED BY <1>12, <1>13

-------------------------------------------------------------------------------
(* Jobs *)

Events == {"pull_request", "merge_group", "push", "other"}
Contexts == [attempt : Attempts, event : Events, source : Optional(Texts), target : Optional(Texts)]

StepShape(step, timing) ==
    /\ step.number \in Int /\ step.name \in Optional(Cleaned) /\ step.conclusion \in Conclusions
    /\ step.timing \in Intervals
    /\ timing.start <= step.timing.start /\ step.timing.end <= timing.end

\* What is true of every job that is emitted.
JobShape(job) ==
    /\ job.attempt \in Attempts /\ job.job \in Int /\ job.name \in Optional(Cleaned)
    /\ job.conclusion \in Conclusions /\ job.timing \in Intervals
    /\ Len(job.steps) \in Nat
    /\ \A i \in 1 .. Len(job.steps) : StepShape(job.steps[i], job.timing)
    /\ Suppressed(job) <=> Unprotected(job) \/ CrowdedOut(job)

LEMMA ContextIsTyped ==
    ASSUME NEW run \in RunDeliveries, RunContext(run) # None
    PROVE  RunContext(run) \in Contexts /\ Attempt(run) \in Attempts /\ RunContext(run).attempt = Attempt(run)
<1>1. run \in RunPayloads /\ Identifies(run.run) /\ Identifies(run.attempt)
    BY PayloadsAssumption DEF RunContext
<1>2. Attempt(run) \in Attempts
    BY <1>1, PayloadsAssumption DEF Attempt, Identifies
<1>3. RunContext(run) =
        [attempt |-> Attempt(run), event |-> WorkflowEvent(run.event),
         source |-> OrElse(WorkflowBranch(run.head), UniqueBranch(run.heads)),
         target |-> UniqueBranch(run.bases)]
    BY <1>1 DEF RunContext
<1>4. WorkflowEvent(run.event) \in Events
    BY DEF WorkflowEvent, Events
<1>5. ASSUME NEW text \in Optional(Texts) PROVE WorkflowBranch(text) \in Optional(Texts)
    BY TracesAssumption DEF WorkflowBranch, Optional
<1>6. ASSUME NEW texts \in SUBSET Texts PROVE UniqueBranch(texts) \in Optional(Texts)
    <2> DEFINE branches == {WorkflowBranch(text) : text \in texts} \ {None}
    <2>1. branches \in SUBSET Texts
        BY <1>5 DEF Optional
    <2>2. UniqueBranch(texts) = IF Cardinality(branches) = 1 THEN CHOOSE b \in branches : TRUE ELSE None
        BY DEF UniqueBranch
    <2> HIDE DEF branches
    <2>3. CASE Cardinality(branches) = 1
        <3>1. branches # {}
            BY <2>3, FS_EmptySet
        <3>2. (CHOOSE b \in branches : TRUE) \in branches
            BY <3>1
        <3> QED BY <2>1, <2>2, <2>3, <3>2 DEF Optional
    <2>4. CASE Cardinality(branches) # 1
        BY <2>2, <2>4 DEF Optional
    <2> QED BY <2>3, <2>4
<1>7. run.head \in Optional(Texts) /\ run.heads \in SUBSET Texts /\ run.bases \in SUBSET Texts
    BY <1>1 DEF RunPayloads
<1>8. OrElse(WorkflowBranch(run.head), UniqueBranch(run.heads)) \in Optional(Texts)
    BY <1>5, <1>6, <1>7 DEF OrElse
<1>9. UniqueBranch(run.bases) \in Optional(Texts)
    BY <1>6, <1>7
<1>10. RunContext(run) \in Contexts
    BY <1>2, <1>3, <1>4, <1>8, <1>9 DEF Contexts
<1> QED BY <1>2, <1>3, <1>10

\* Every place that lists the job comes after as many usable places as are counted.
TooLate(job) ==
    /\ Answered(job)
    /\ \A i \in DOMAIN Listing(job) : Listing(job)[i] = job.name =>
           Cardinality({j \in 1 .. i - 1 : Listing(job)[j] # None}) >= MaxChecks

\* There are no more different names than places: a job that is not among the checks
\* is too late for them, and one that is too late is that or crowded out.
LEMMA TooLateIsUnprotected ==
    ASSUME NEW job
    PROVE  TooLate(job) <=> Unprotected(job) \/ CrowdedOut(job)
<1> DEFINE listed == Listing(job)
           names(i) == {listed[j] : j \in 1 .. i - 1} \ {None}
           places(i) == {j \in 1 .. i - 1 : listed[j] # None}
<1>1. ASSUME Answered(job), NEW i \in DOMAIN listed
      PROVE  i \in Int /\ Cardinality(places(i)) \in Nat /\ Cardinality(names(i)) \in Nat
             /\ Cardinality(names(i)) <= Cardinality(places(i))
    <2>1. i \in Int
        BY DEF Listing
    <2> DEFINE T == names(i)
               S == places(i)
               f == [j \in S |-> listed[j]]
    <2>2. IsFiniteSet(S) /\ Cardinality(S) \in Nat
        <3>1. IsFiniteSet(1 .. i - 1) /\ S \in SUBSET (1 .. i - 1)
            BY <2>1, FS_Interval
        <3> HIDE DEF S
        <3> QED BY <3>1, FS_Subset, FS_CardinalityType
    <2>3. f \in [S -> T] /\ \A t \in T : \E j \in S : f[j] = t
        OBVIOUS
    <2> HIDE DEF f, S, T
    <2>4. f \in Surjection(S, T)
        BY <2>3 DEF Surjection
    <2>5. IsFiniteSet(T) /\ Cardinality(T) <= Cardinality(S) /\ Cardinality(T) \in Nat
        BY <2>2, <2>4, FS_Surjection, FS_CardinalityType
    <2> QED BY <2>1, <2>2, <2>5 DEF S, T
<1>2. Unprotected(job) <=> Answered(job) /\ \A i \in DOMAIN listed : listed[i] = job.name =>
                               Cardinality(names(i)) >= MaxChecks
    BY DEF Unprotected
<1>3. TooLate(job) <=> Answered(job) /\ \A i \in DOMAIN listed : listed[i] = job.name =>
                           Cardinality(places(i)) >= MaxChecks
    BY DEF TooLate
<1>4. CrowdedOut(job) <=> TooLate(job) /\ ~Unprotected(job)
    BY <1>3 DEF CrowdedOut
<1>5. MaxChecks \in Nat
    BY TracesAssumption
<1> HIDE DEF listed, names, places
<1>6. Unprotected(job) => TooLate(job)
    BY <1>1, <1>2, <1>3, <1>5
<1> QED BY <1>4, <1>6, Zenon

\* Only the first places that are usable, up to the limit, let a job be known not to be required.
LEMMA SuppressedIsTooLate ==
    ASSUME NEW job, NEW context \in Optional(Contexts), NEW name \in Optional(Cleaned),
           job.context = context, job.name = name,
           job.required = IF RequiredChecks(context) = None \/ name = None THEN None
                          ELSE name \in RequiredChecks(context)
    PROVE  Suppressed(job) <=> TooLate(job)
<1>1. None # FALSE /\ \A names \in SUBSET Texts : None # names
    BY TracesAssumption
<1>2. CASE context = None \/ (context # None /\ context.target = None)
    <2>1. RequiredChecks(context) = None
        BY <1>2 DEF RequiredChecks
    <2>2. job.required = None
        BY <2>1
    <2> QED BY <1>1, <1>2, <2>2 DEF Suppressed, TooLate, Answered
<1>3. CASE context # None /\ context.target # None
    <2> DEFINE answer == Protection[context.target]
    <2>1. context.target \in Texts
        BY <1>3 DEF Contexts, Optional
    <2>2. answer \in Optional(Answers)
        BY <2>1, PayloadsAssumption
    <2>3. RequiredChecks(context) = IF answer = None THEN None ELSE Cached(FromProtection(answer))
        BY <1>3 DEF RequiredChecks
    <2>4. TooLate(job) <=>
            /\ name # None /\ answer # None
            /\ \A i \in 1 .. Len(Given(answer)) :
                  Clean[Given(answer)[i]] = name =>
                      Cardinality({j \in 1 .. i - 1 : Clean[Given(answer)[j]] # None}) >= MaxChecks
        <3> DEFINE n == Len(Given(answer))
                   listed == Listing(job)
                   given(i) == Clean[Given(answer)[i]]
        <3>1. listed = [i \in 1 .. n |-> given(i)]
            BY DEF Listing
        <3>2. Answered(job) <=> name # None /\ answer # None
            BY <1>3 DEF Answered
        <3>3. TooLate(job) <=> Answered(job) /\ \A i \in DOMAIN listed : listed[i] = name =>
                                   Cardinality({j \in 1 .. i - 1 : listed[j] # None}) >= MaxChecks
            BY DEF TooLate
        <3> HIDE DEF n, listed, given
        <3>4. DOMAIN listed = 1 .. n /\ \A i \in 1 .. n : listed[i] = given(i)
            BY <3>1
        <3>5. answer # None => n \in Nat
            BY <2>2 DEF Optional, Answers, Given, n
        <3>6. ASSUME answer # None, NEW i \in 1 .. n
              PROVE  {j \in 1 .. i - 1 : listed[j] # None} = {j \in 1 .. i - 1 : given(j) # None}
            <4>1. \A j \in 1 .. i - 1 : j \in 1 .. n
                BY <3>6, <3>5
            <4> QED BY <3>4, <4>1
        <3> QED BY <3>2, <3>3, <3>4, <3>6 DEF n, given
    <2> HIDE DEF answer
    <2>5. CASE answer = None \/ name = None
        <3>1. job.required = None
            BY <2>3, <2>5
        <3> QED BY <1>1, <2>4, <2>5, <3>1 DEF Suppressed
    <2>6. CASE answer # None /\ name # None
        <3>1. answer \in Answers
            BY <2>2, <2>6 DEF Optional
        <3>2. Cached(FromProtection(answer)) \in SUBSET Texts
            <4>1. \A t \in Texts : Clean[t] # None => Clean[t] \in Texts
                BY TracesAssumption
            <4>2. ASSUME NEW x \in Cached(FromProtection(answer)) PROVE x \in Texts
                <5>1. x # None
                    BY DEF Cached
                <5>2. PICK i \in 1 .. Len(Given(answer)) : Clean[Given(answer)[i]] = x
                    BY <3>1, <5>1, ChecksAreFirstNames
                <5>3. Given(answer)[i] \in Texts
                    BY <3>1 DEF Given, Answers
                <5> QED BY <4>1, <5>1, <5>2, <5>3
            <4> QED BY <4>2
        <3>3. RequiredChecks(context) = Cached(FromProtection(answer)) /\ RequiredChecks(context) # None
            BY <1>1, <2>3, <2>6, <3>2
        <3>4. job.required = (name \in Cached(FromProtection(answer)))
            BY <2>6, <3>3
        <3>5. Suppressed(job) <=> name \notin Cached(FromProtection(answer))
            <4>1. CASE name \in Cached(FromProtection(answer))
                <5>1. (name \in Cached(FromProtection(answer))) = TRUE
                    BY <4>1
                <5>2. job.required = TRUE
                    BY <3>4, <5>1, Zenon
                <5> QED BY <4>1, <5>2 DEF Suppressed
            <4>2. CASE name \notin Cached(FromProtection(answer))
                <5>1. (name \in Cached(FromProtection(answer))) = FALSE
                    BY <4>2
                <5>2. job.required = FALSE
                    BY <3>4, <5>1, Zenon
                <5> QED BY <4>2, <5>2 DEF Suppressed
            <4> QED BY <4>1, <4>2
        <3>6. name \in Cached(FromProtection(answer)) <=>
                \E i \in 1 .. Len(Given(answer)) : Clean[Given(answer)[i]] = name /\ Counts(answer, i)
            BY <2>6, <3>1, ChecksAreFirstNames
        <3>7. ASSUME NEW i \in 1 .. Len(Given(answer))
              PROVE  ~Counts(answer, i) <=> Cardinality({j \in 1 .. i - 1 : Clean[Given(answer)[j]] # None}) >= MaxChecks
            <4> DEFINE before == {j \in 1 .. i - 1 : Clean[Given(answer)[j]] # None}
            <4>1. i - 1 \in Nat
                OBVIOUS
            <4>2. before \in SUBSET (1 .. i - 1)
                OBVIOUS
            <4> HIDE DEF before
            <4>3. Cardinality(before) \in Nat /\ MaxChecks \in Nat
                BY <4>1, <4>2, PlacesAreFinite, TracesAssumption
            <4>4. Counts(answer, i) <=> Cardinality(before) < MaxChecks
                BY DEF Counts, before
            <4>5. ~Counts(answer, i) <=> Cardinality(before) >= MaxChecks
                BY <4>3, <4>4
            <4> QED BY <4>5 DEF before
        <3> QED BY <2>4, <2>6, <3>5, <3>6, <3>7, Zenon
    <2> QED BY <2>5, <2>6
<1> QED BY <1>2, <1>3

LEMMA Projected ==
    ASSUME NEW payload \in JobDeliveries, NEW context \in Optional(Contexts), Admitted(payload),
           Project(payload, context) # None
    PROVE  JobShape(Project(payload, context)) /\ Project(payload, context).attempt = Attempt(payload)
<1> DEFINE job == Project(payload, context)
           timing == JobTiming(SystemTime(payload.start), SystemTime(payload.end))
           name == DisplayName(payload.name)
<1>1. /\ payload.run > 0 /\ payload.attempt > 0 /\ payload.job \in Int /\ payload.name \in Optional(Texts)
      /\ payload.start \in Timestamps /\ payload.end \in Timestamps
      /\ payload.steps \in Seq(StepPayloads)
    BY PayloadsAssumption DEF Admitted, Identifies, JobPayloads
<1>2. Attempt(payload) \in Attempts
    BY <1>1, PayloadsAssumption DEF Attempt
<1>3. timing \in Intervals
    BY <1>1, SystemTimeType, JobTimingType
<1>4. name \in Optional(Cleaned)
    BY <1>1, DisplayNameCleans
<1> HIDE DEF timing, name
<1>5. job = [attempt |-> Attempt(payload), job |-> payload.job, name |-> name,
             workflow |-> DisplayName(payload.workflow), revision |-> Revision(payload.revision),
             conclusion |-> Normalize(payload.conclusion), timing |-> timing,
             pulls |-> PullRequests(payload.pulls), context |-> context,
             required |-> IF RequiredChecks(context) = None \/ name = None THEN None
                          ELSE name \in RequiredChecks(context),
             steps |-> [i \in 1 .. Len(payload.steps) |-> StepOf(payload.steps[i], timing)]]
    BY Zenon DEF Project, timing, name
<1> HIDE DEF job
<1>6. Len(payload.steps) \in Nat
    BY <1>1
<1>7. Len(job.steps) = Len(payload.steps) /\ \A i \in 1 .. Len(payload.steps) : job.steps[i] = StepOf(payload.steps[i], timing)
    BY <1>5, <1>6
<1>8. ASSUME NEW i \in 1 .. Len(payload.steps) PROVE StepShape(StepOf(payload.steps[i], timing), timing)
    <2> DEFINE step == payload.steps[i]
    <2>1. step \in StepPayloads
        BY <1>1
    <2> HIDE DEF step
    <2>2. SystemTime(step.start) \in Moments /\ SystemTime(step.end) \in Moments
        BY <2>1, SystemTimeType DEF StepPayloads
    <2>3. step.number \in Int /\ DisplayName(step.name) \in Optional(Cleaned)
        BY <2>1, DisplayNameCleans DEF StepPayloads
    <2>4. StepOf(step, timing) = [number |-> step.number, name |-> DisplayName(step.name),
                                  conclusion |-> Normalize(step.conclusion),
                                  timing |-> StepTiming(SystemTime(step.start), SystemTime(step.end), timing)]
        BY DEF StepOf
    <2>5. StepShape(StepOf(step, timing), timing)
        BY <1>3, <2>2, <2>3, <2>4, NormalizeType, StepTimingNests DEF StepShape
    <2> QED BY <2>5 DEF step
<1>9. \A i \in 1 .. Len(job.steps) : StepShape(job.steps[i], job.timing)
    BY <1>5, <1>7, <1>8
<1>10. Suppressed(job) <=> Unprotected(job) \/ CrowdedOut(job)
    <2>1. Suppressed(job) <=> TooLate(job)
        BY <1>4, <1>5, SuppressedIsTooLate
    <2> QED BY <2>1, TooLateIsUnprotected, Zenon
<1>11. JobShape(job)
    BY <1>1, <1>2, <1>3, <1>4, <1>5, <1>6, <1>7, <1>9, <1>10, NormalizeType DEF JobShape
<1> QED BY <1>5, <1>11 DEF job

-------------------------------------------------------------------------------
(* Reports of the failing tasks of a trace *)

LEMMA ImageSize ==
    ASSUME NEW S, IsFiniteSet(S), NEW f, \A x, y \in S : f[x] = f[y] => x = y,
           NEW T, \A x \in S : f[x] \in T, \A t \in T : \E x \in S : t = f[x]
    PROVE  Cardinality(T) = Cardinality(S)
<1> DEFINE g == [x \in S |-> f[x]]
<1>1. g \in [S -> T] /\ (\A t \in T : \E x \in S : g[x] = t) /\ (\A x, y \in S : g[x] = g[y] => x = y)
    OBVIOUS
<1> HIDE DEF g
<1>2. g \in Bijection(S, T)
    BY <1>1 DEF Bijection, Injection, Surjection, IsInjective
<1>3. ExistsBijection(S, T)
    BY <1>2 DEF ExistsBijection
<1> QED BY <1>3, FS_Bijection

\* The error of each failing task is shown by the task's own span, and the spans differ.
Shown(F, tasks, errors) ==
    /\ \A i, j \in F : tasks[i].id = tasks[j].id => i = j
    /\ \A i \in F : ToldAlike(Report(errors[i]), tasks[i])

TellsEach(reports, F, tasks, errors) ==
    /\ Len(reports) = Cardinality(F) /\ reports \in Seq({Report(errors[i]) : i \in F})
    /\ Elements(reports) = {Report(errors[i]) : i \in F}
    /\ reports = <<>> <=> F = {}
    /\ Cardinality({report.span : report \in Elements(reports)}) = Cardinality(F)
    /\ Cardinality({tasks[i] : i \in F}) = Cardinality(F)

\* Then the reports are one for each failing task.
LEMMA TasksAreTold ==
    ASSUME NEW F, F \in SUBSET Int, IsFiniteSet(F), NEW tasks, NEW errors, Shown(F, tasks, errors)
    PROVE  TellsEach(Reports(F, errors), F, tasks, errors)
<1> DEFINE c == Cardinality(F)
           reports == Reports(F, errors)
<1>1. IsFiniteSet(F) /\ c \in Nat
    BY FS_CardinalityType
<1>2. reports \in Seq({Report(errors[i]) : i \in F}) /\ Len(reports) = c /\ Ordered(reports, F, errors)
    BY ReportsTell
<1>3. PICK order : Enumerates(order, Less(F), F) /\ \A k \in 1 .. c : reports[k] = Report(errors[order[k]])
    BY <1>2 DEF Ordered
<1>4. DOMAIN order = 1 .. c /\ (\A k \in 1 .. c : order[k] \in F) /\ (\A i \in F : \E k \in 1 .. c : order[k] = i)
    BY <1>3 DEF Enumerates
<1> HIDE DEF reports, c
<1>5. Elements(reports) = {Report(errors[i]) : i \in F}
    <2>1. Elements(reports) = {reports[k] : k \in 1 .. c}
        BY <1>2 DEF Elements
    <2>2. ASSUME NEW k \in 1 .. c PROVE \E i \in F : reports[k] = Report(errors[i])
        BY <1>3, <1>4, Zenon
    <2>3. ASSUME NEW i \in F PROVE \E k \in 1 .. c : Report(errors[i]) = reports[k]
        <3>1. PICK k \in 1 .. c : order[k] = i
            BY <1>4
        <3> QED BY <1>3, <3>1
    <2> DEFINE told(i) == Report(errors[i])
    <2>4. (\A k \in 1 .. c : \E i \in F : reports[k] = told(i)) /\ (\A i \in F : \E k \in 1 .. c : told(i) = reports[k])
        BY <2>2, <2>3
    <2> HIDE DEF told
    <2>5. {reports[k] : k \in 1 .. c} = {told(i) : i \in F}
        BY <2>4
    <2> QED BY <2>1, <2>5 DEF told
<1>6. reports = <<>> <=> F = {}
    <2>1. reports = <<>> <=> c = 0
        BY <1>1, <1>2
    <2>2. c = 0 <=> F = {}
        BY <1>1, FS_EmptySet DEF c
    <2> QED BY <2>1, <2>2
<1> DEFINE ids == [i \in F |-> tasks[i].id]
           shown == [i \in F |-> tasks[i]]
<1>7. \A i \in F : Report(errors[i]).span = ids[i]
    BY DEF Shown, ToldAlike
<1>8. (\A i, j \in F : ids[i] = ids[j] => i = j) /\ (\A i, j \in F : shown[i] = shown[j] => i = j)
    BY DEF Shown
<1>9. \A i \in F : shown[i] = tasks[i]
    OBVIOUS
<1> HIDE DEF ids, shown
<1>10. Cardinality({report.span : report \in Elements(reports)}) = c
    <2> DEFINE T == {report.span : report \in Elements(reports)}
    <2>1. ASSUME NEW i \in F PROVE ids[i] \in T
        <3>1. Report(errors[i]) \in Elements(reports)
            BY <1>5
        <3> QED BY <1>7, <3>1
    <2>2. ASSUME NEW t \in T PROVE \E i \in F : t = ids[i]
        <3>1. PICK report \in Elements(reports) : t = report.span
            OBVIOUS
        <3>2. PICK i \in F : report = Report(errors[i])
            BY <1>5
        <3> QED BY <1>7, <3>1, <3>2
    <2> HIDE DEF T
    <2>3. Cardinality(T) = c
        BY <1>1, <1>8, <2>1, <2>2, ImageSize DEF c
    <2> QED BY <2>3 DEF T
<1>11. Cardinality({tasks[i] : i \in F}) = c
    <2> DEFINE T == {tasks[i] : i \in F}
    <2>1. (\A i \in F : shown[i] \in T) /\ (\A t \in T : \E i \in F : t = shown[i])
        BY <1>9
    <2> HIDE DEF T
    <2>2. Cardinality(T) = c
        BY <1>1, <1>8, <2>1, ImageSize DEF c
    <2> QED BY <2>2 DEF T
<1>12. TellsEach(reports, F, tasks, errors)
    BY <1>2, <1>5, <1>6, <1>10, <1>11 DEF TellsEach, c
<1> QED BY <1>12 DEF reports

-------------------------------------------------------------------------------
(* The trace of a job *)

\* What the attributes of the spans say.
LEMMA JobAttributesSay ==
    ASSUME NEW job
    PROVE  LET a == JobAttributes(job)
           IN /\ a.pipeline = WorkflowName(job) /\ a.run = job.attempt[1] /\ a.run_url = RunUrl(job.attempt)
              /\ a.conclusion = job.conclusion /\ a.result = Result(job.conclusion)
              /\ a.error_type = ErrorType(job.conclusion) /\ a.timing_source = job.timing.source
              /\ a.task = JobName(job) /\ a.task_run = <<job.job>> /\ a.task_url = TaskUrl(job.attempt, job.job)
              /\ a.operation = "github.actions.job" /\ a.description = <<JobName(job)>>
BY DEF JobAttributes, And, PipelineContext, TaskResult

LEMMA StepAttributesSay ==
    ASSUME NEW job, NEW step
    PROVE  LET a == StepAttributes(job, step)
           IN /\ a.pipeline = WorkflowName(job) /\ a.conclusion = step.conclusion
              /\ a.error_type = ErrorType(step.conclusion)
              /\ a.task = StepName(step) /\ a.task_run = <<job.job, step.number>>
              /\ a.operation = "github.actions.step" /\ a.description = <<StepName(step)>>
BY DEF StepAttributes, And, PipelineContext, TaskResult

LEMMA TaskAttributesSay ==
    ASSUME NEW run, NEW job
    PROVE  LET a == TaskAttributes(run, job)
           IN /\ DOMAIN a \ OfTheRun = {"run", "run_url", "conclusion", "result", "error_type", "timing_source",
                                        "task", "task_run", "task_url"}
              /\ a.pipeline = WorkflowName(run) /\ a.run = run.attempt[1] /\ a.run_url = RunUrl(run.attempt)
              /\ a.conclusion = job.conclusion /\ a.result = Result(job.conclusion)
              /\ a.error_type = ErrorType(job.conclusion) /\ a.timing_source = job.timing.source
              /\ a.task = JobName(job) /\ a.task_run = <<job.job>> /\ a.task_url = TaskUrl(run.attempt, job.job)
              /\ a.operation = "github.actions.pipeline.task"
              /\ a.description = <<WorkflowName(run), JobName(job)>>
BY DEF TaskAttributes, And, PipelineContext, TaskResult, OfTheRun

LEMMA Statuses ==
    ASSUME NEW conclusion \in Conclusions
    PROVE  /\ Status(conclusion) = "Error" <=> Failing(conclusion)
           /\ Failing(conclusion) => ErrorType(conclusion) \in ErrorTypes
<1>1. Status(conclusion) = "Error" <=> Failing(conclusion)
    BY DEF Status, Failing, Conclusions
<1>2. Failing(conclusion) => ErrorType(conclusion) \in ErrorTypes
    BY DEF ErrorType, ErrorTypes, Failing
<1> QED BY <1>1, <1>2

LEMMA MessageType ==
    ASSUME NEW b \in BOOLEAN, NEW C, NEW conclusion \in C, NEW N, NEW name \in N
    PROVE  <<b, conclusion, name>> \in BOOLEAN \X C \X N
OBVIOUS

\* A span that carries the exception of the error that its attributes describe.
Carries(span, error, kind, workflow, task) ==
    /\ span.id = error.span /\ span.end = task.at /\ span.status = "Error"
    /\ span.exception = Exception(error)
    /\ span.attributes.pipeline = workflow /\ span.attributes.conclusion = task.conclusion
    /\ span.attributes.error_type = ErrorType(task.conclusion)
    /\ span.attributes.task_run = task.run /\ span.attributes.operation = SpanOperation(kind)
    /\ \/ span.attributes.task \in {"job", "step"} /\ task.name = task.run
       \/ span.attributes.task = task.name
    /\ task.description = IF SpanOperation(kind) = "github.actions.job" THEN span.name ELSE span.attributes.description

LEMMA ErrorIsTold ==
    ASSUME NEW kind, NEW id, NEW workflow, NEW group, NEW task, NEW span, NEW error,
           error = SyntheticError(kind, id, workflow, group, task),
           task.name \in Texts \cup Seq(Int), task.conclusion \in Conclusions, Failing(task.conclusion),
           task.at \in Int, Carries(span, error, kind, workflow, task)
    PROVE  ToldAlike(Report(error), span) /\ span.exception # None
<1> DEFINE Names == Texts \cup Seq(Int)
           words == kind = "pipeline-task"
<1>1. /\ error.kind = kind /\ error.span = id /\ error.type = ErrorType(task.conclusion)
      /\ error.message = <<words, task.conclusion, task.name>>
      /\ error.workflow = workflow /\ error.task_run = task.run
      /\ error.task = task.name /\ error.description = task.description
      /\ error.conclusion = task.conclusion /\ error.at = task.at
    BY DEF SyntheticError
<1>2. /\ Report(error).span = error.span /\ Report(error).at = error.at
      /\ Report(error).operation = SpanOperation(error.kind)
      /\ Report(error).exception = <<error.type, error.message>>
      /\ Report(error).tags.pipeline = error.workflow /\ Report(error).tags.task_run = error.task_run
      /\ Report(error).tags.conclusion = error.conclusion
      /\ Report(error).tags.task = error.task /\ Report(error).description = error.description
    BY DEF Report
<1>3. ToldAlike(Report(error), span)
    BY <1>1, <1>2 DEF ToldAlike, Exception, Carries
<1>4. ErrorType(task.conclusion) \in ErrorTypes
    BY Statuses
<1>5. words \in BOOLEAN
    OBVIOUS
<1> HIDE DEF Names, words
<1>6. task.name \in Names
    BY DEF Names
<1>7. <<words, task.conclusion, task.name>> \in BOOLEAN \X Conclusions \X Names
    BY <1>5, <1>6, MessageType
<1>8. error.message \in BOOLEAN \X Conclusions \X Names
    BY <1>1, <1>7, Zenon
<1>9. error.message \in BOOLEAN \X Conclusions \X (Texts \cup Seq(Int))
    BY <1>8 DEF Names
<1>10. error.type \in ErrorTypes /\ error.at \in Int
    BY <1>1, <1>4
<1>11. Exception(error) \in Exceptions
    BY <1>9, <1>10 DEF Exception, Exceptions
<1> QED BY <1>3, <1>11, TracesAssumption DEF Carries

LEMMA StepIsTold ==
    ASSUME NEW job, job.job \in Int, NEW step, NEW timing, StepShape(step, timing),
           Failing(step.conclusion), NEW id, NEW parent, NEW name, NEW fails \in BOOLEAN, fails
    PROVE  LET error == StepError(job, step, id)
               span == Span(id, parent, name, step.timing, Status(step.conclusion),
                            StepAttributes(job, step), fails, error)
           IN ToldAlike(Report(error), span) /\ span.exception # None
<1> DEFINE error == StepError(job, step, id)
           a == StepAttributes(job, step)
           task == [name |-> OrElse(step.name, <<job.job, step.number>>), group |-> StepGroup(step),
                    run |-> <<job.job, step.number>>, description |-> <<StepName(step)>>,
                    conclusion |-> step.conclusion, at |-> step.timing.end]
           span == Span(id, parent, name, step.timing, Status(step.conclusion), a, fails, error)
<1>1. /\ a.pipeline = WorkflowName(job) /\ a.conclusion = step.conclusion
      /\ a.error_type = ErrorType(step.conclusion)
      /\ a.task = StepName(step) /\ a.task_run = <<job.job, step.number>>
      /\ a.operation = "github.actions.step" /\ a.description = <<StepName(step)>>
    BY StepAttributesSay
<1>2. error = SyntheticError("step", id, WorkflowName(job), JobGroup(job), task) /\ error.span = id
    BY DEF StepError, SyntheticError
<1>3. /\ span.id = id /\ span.end = step.timing.end /\ span.status = Status(step.conclusion)
      /\ span.attributes = a /\ span.exception = Exception(error)
    BY DEF Span
<1>4. /\ task.conclusion = step.conclusion /\ task.run = <<job.job, step.number>>
      /\ task.at = step.timing.end /\ task.description = <<StepName(step)>>
    OBVIOUS
<1>5. task.name \in Texts \cup Seq(Int)
    BY DEF OrElse, StepShape, Optional, Cleaned
<1>10. \/ StepName(step) \in {"job", "step"} /\ task.name = task.run
      \/ StepName(step) = task.name
    BY DEF StepName, OrElse
<1> HIDE DEF a, error, span, task
<1>6. Status(step.conclusion) = "Error" /\ step.conclusion \in Conclusions /\ step.timing.end \in Int
    BY Statuses DEF StepShape, Intervals
<1>7. SpanOperation("step") = "github.actions.step"
    BY DEF SpanOperation
<1>8. Carries(span, error, "step", WorkflowName(job), task)
    BY <1>1, <1>2, <1>3, <1>4, <1>6, <1>7, <1>10 DEF Carries
<1>9. ToldAlike(Report(error), span) /\ span.exception # None
    BY <1>2, <1>4, <1>5, <1>6, <1>8, ErrorIsTold
<1> QED BY <1>9 DEF a, error, span

\* The failure of a job, shown by the root of its own trace.
LEMMA JobIsTold ==
    ASSUME NEW job, JobShape(job), Failing(job.conclusion), RootStatus(job) = "Error",
           NEW id, NEW parent, NEW name, name = JobSpanName(job), NEW fails \in BOOLEAN, fails
    PROVE  LET error == JobError(job, id)
               span == Span(id, parent, name, job.timing, RootStatus(job), JobAttributes(job), fails, error)
           IN ToldAlike(Report(error), span) /\ span.exception # None
<1> DEFINE error == JobError(job, id)
           a == JobAttributes(job)
           task == TaskFailure(job, JobSpanName(job))
           span == Span(id, parent, name, job.timing, RootStatus(job), a, fails, error)
<1>1. /\ a.pipeline = WorkflowName(job) /\ a.conclusion = job.conclusion
      /\ a.error_type = ErrorType(job.conclusion)
      /\ a.task = JobName(job) /\ a.task_run = <<job.job>> /\ a.operation = "github.actions.job"
    BY JobAttributesSay
<1>2. error = SyntheticError("job", id, WorkflowName(job), JobGroup(job), task) /\ error.span = id
    BY DEF JobError, SyntheticError
<1>3. /\ span.id = id /\ span.end = job.timing.end /\ span.status = RootStatus(job)
      /\ span.attributes = a /\ span.exception = Exception(error) /\ span.name = name
    BY DEF Span
<1>4. /\ task.conclusion = job.conclusion /\ task.run = <<job.job>> /\ task.at = job.timing.end
      /\ task.name = OrElse(job.name, <<job.job>>) /\ task.description = JobSpanName(job)
    BY DEF TaskFailure
<1>10. \/ JobName(job) \in {"job", "step"} /\ task.name = task.run
      \/ JobName(job) = task.name
    BY <1>4 DEF JobName, OrElse
<1> HIDE DEF a, error, span, task
<1>5. task.name \in Texts \cup Seq(Int)
    BY <1>4 DEF OrElse, JobShape, Optional, Cleaned
<1>6. job.conclusion \in Conclusions /\ job.timing.end \in Int
    BY DEF JobShape, Intervals
<1>7. SpanOperation("job") = "github.actions.job"
    BY DEF SpanOperation
<1>8. Carries(span, error, "job", WorkflowName(job), task)
    BY <1>1, <1>2, <1>3, <1>4, <1>6, <1>7, <1>10 DEF Carries
<1>9. ToldAlike(Report(error), span) /\ span.exception # None
    BY <1>2, <1>4, <1>5, <1>6, <1>8, ErrorIsTold
<1> QED BY <1>9 DEF a, error, span

FailingSteps(job) == {i \in 1 .. Len(job.steps) : Failing(job.steps[i].conclusion)}

OwnError(job) == RootError(job, FailingSteps(job) # {})
StepErrors(id, job) == [i \in 1 .. Len(job.steps) |-> StepError(job, job.steps[i], <<id, i>>)]

\* The root of a trace, the spans of its steps and its reports.
Emits(trace, id, job) ==
    /\ trace.job = job
    /\ trace.root = Span(<<id, 0>>, None, JobSpanName(job), job.timing, RootStatus(job),
                         JobAttributes(job), OwnError(job), JobError(job, <<id, 0>>))
    /\ Len(trace.steps) = Len(job.steps)
    /\ \A i \in 1 .. Len(job.steps) :
          trace.steps[i] = Span(<<id, i>>, <<id, 0>>, StepSpanName(job, job.steps[i]), job.steps[i].timing,
                                Status(job.steps[i].conclusion), StepAttributes(job, job.steps[i]),
                                i \in FailingSteps(job), StepErrors(id, job)[i])
    /\ trace.errors = Reports(FailingSteps(job), StepErrors(id, job))
                      \o IF OwnError(job) THEN <<Report(JobError(job, <<id, 0>>))>> ELSE <<>>

LEMMA EmittedSpans ==
    ASSUME NEW job, Len(job.steps) \in Nat, NEW id
    PROVE  Emits(Emit(id, job), id, job)
<1> DEFINE n == Len(job.steps)
           root == Span(<<id, 0>>, None, JobSpanName(job), job.timing, RootStatus(job),
                        JobAttributes(job), OwnError(job), JobError(job, <<id, 0>>))
           span(i) == Span(<<id, i>>, <<id, 0>>, StepSpanName(job, job.steps[i]), job.steps[i].timing,
                           Status(job.steps[i].conclusion), StepAttributes(job, job.steps[i]),
                           i \in FailingSteps(job), StepErrors(id, job)[i])
           told == Reports(FailingSteps(job), StepErrors(id, job))
                   \o IF OwnError(job) THEN <<Report(JobError(job, <<id, 0>>))>> ELSE <<>>
           trace == Emit(id, job)
<1>1. trace = [job |-> job, root |-> root, steps |-> [i \in 1 .. n |-> span(i)], errors |-> told]
    BY Zenon DEF Emit, FailingSteps, StepErrors, OwnError
<1> HIDE DEF trace, root, span, told
<1>2. trace.job = job /\ trace.root = root /\ trace.errors = told
    BY <1>1
<1>3. trace.steps = [i \in 1 .. n |-> span(i)]
    BY <1>1
<1>4. Len(trace.steps) = n /\ \A i \in 1 .. n : trace.steps[i] = span(i)
    BY <1>3
<1> QED BY <1>2, <1>4, Zenon DEF Emits, trace, root, span, told

\* A job trace tells each failure once, its spans lie inside its root, and it says
\* nothing in a pipeline's name.
LEMMA JobTraceTells ==
    ASSUME NEW job, JobShape(job), NEW id
    PROVE  LET trace == Emit(id, job)
           IN /\ JobIsToldOnce(trace)
              /\ \A span \in Spans(trace) : Nests(span, trace.root)
              /\ \A report \in Elements(trace.errors) : report.fingerprint[1] \in {"job", "step"}
<1> DEFINE n == Len(job.steps)
           F == FailingSteps(job)
           errors == StepErrors(id, job)
           own == OwnError(job)
           error == JobError(job, <<id, 0>>)
           trace == Emit(id, job)
           root == trace.root
           steps == trace.steps
           reports == Reports(F, errors)
<1>1. n \in Nat /\ job.job \in Int
    BY DEF JobShape
<1>2. /\ trace.job = job
      /\ root = Span(<<id, 0>>, None, JobSpanName(job), job.timing, RootStatus(job), JobAttributes(job), own, error)
      /\ Len(steps) = n
      /\ \A i \in 1 .. n :
            steps[i] = Span(<<id, i>>, <<id, 0>>, StepSpanName(job, job.steps[i]), job.steps[i].timing,
                            Status(job.steps[i].conclusion), StepAttributes(job, job.steps[i]),
                            i \in F, errors[i])
      /\ trace.errors = reports \o IF own THEN <<Report(error)>> ELSE <<>>
    <2>1. Emits(Emit(id, job), id, job)
        BY <1>1, EmittedSpans
    <2> QED BY <2>1, Zenon DEF Emits
<1>3. \A i \in 1 .. n : errors[i] = StepError(job, job.steps[i], <<id, i>>)
    BY DEF StepErrors
<1>4. F \in SUBSET (1 .. n) /\ \A i \in 1 .. n : i \in F <=> Failing(job.steps[i].conclusion)
    BY DEF FailingSteps
<1> HIDE DEF errors, error, trace, root, steps, reports, F, n, own
<1>5. own \in BOOLEAN /\ (own <=> F = {} /\ EmitsRootError(job))
    BY DEF own, OwnError, F, RootError, EmitsRootError, Suppressed, Failing
<1>6. \A i \in F : i \in 1 .. n
    BY <1>4
<1>7. F \in SUBSET Int /\ IsFiniteSet(F)
    BY <1>1, <1>4, PlacesAreFinite
<1>8. \A i \in 1 .. n :
          /\ steps[i].id = <<id, i>> /\ steps[i].start = job.steps[i].timing.start
          /\ steps[i].end = job.steps[i].timing.end
          /\ steps[i].status = Status(job.steps[i].conclusion)
          /\ i \notin F => steps[i].exception = None
    <2> SUFFICES ASSUME NEW i \in 1 .. n
                 PROVE  /\ steps[i].id = <<id, i>> /\ steps[i].start = job.steps[i].timing.start
                        /\ steps[i].end = job.steps[i].timing.end
                        /\ steps[i].status = Status(job.steps[i].conclusion)
                        /\ i \notin F => steps[i].exception = None
        OBVIOUS
    <2> DEFINE fails == i \in F
               a == StepAttributes(job, job.steps[i])
    <2>1. steps[i] = Span(<<id, i>>, <<id, 0>>, StepSpanName(job, job.steps[i]), job.steps[i].timing,
                          Status(job.steps[i].conclusion), a, fails, errors[i])
        BY <1>2
    <2>2. fails <=> i \in F
        OBVIOUS
    <2> HIDE DEF fails, a
    <2> QED BY <2>1, <2>2 DEF Span
<1>9. /\ root.id = <<id, 0>> /\ root.start = job.timing.start /\ root.end = job.timing.end
      /\ root.status = RootStatus(job) /\ (~own => root.exception = None)
    BY <1>2 DEF Span
<1>10. ASSUME NEW i \in F PROVE ToldAlike(Report(errors[i]), steps[i]) /\ steps[i].exception # None
    <2>1. i \in 1 .. n /\ StepShape(job.steps[i], job.timing) /\ Failing(job.steps[i].conclusion)
        BY <1>4, <1>6 DEF JobShape, n
    <2> DEFINE fails == i \in F
    <2>2. fails \in BOOLEAN /\ fails
        OBVIOUS
    <2>3. steps[i] = Span(<<id, i>>, <<id, 0>>, StepSpanName(job, job.steps[i]), job.steps[i].timing,
                          Status(job.steps[i].conclusion), StepAttributes(job, job.steps[i]),
                          fails, errors[i])
        BY <1>2, <2>1
    <2> HIDE DEF fails
    <2>4. errors[i] = StepError(job, job.steps[i], <<id, i>>)
        BY <1>3, <2>1
    <2> QED BY <1>1, <2>1, <2>2, <2>3, <2>4, StepIsTold
<1>11. Shown(F, steps, errors)
    BY <1>6, <1>8, <1>10 DEF Shown
<1>20. TellsEach(reports, F, steps, errors)
    BY <1>7, <1>11, TasksAreTold DEF reports
<1>12. /\ Len(reports) = Cardinality(F) /\ reports \in Seq({Report(errors[i]) : i \in F})
       /\ Elements(reports) = {Report(errors[i]) : i \in F}
       /\ reports = <<>> <=> F = {}
       /\ Cardinality({report.span : report \in Elements(reports)}) = Cardinality(F)
       /\ Cardinality({steps[i] : i \in F}) = Cardinality(F)
    BY <1>20, Zenon DEF TellsEach
<1>13. Spans(trace) = {root} \cup {steps[i] : i \in 1 .. n}
    BY <1>2 DEF Spans, Elements, root, steps
<1>14. \A span \in Spans(trace) : Nests(span, root)
    <2>1. job.timing \in Intervals /\ \A i \in 1 .. n : StepShape(job.steps[i], job.timing)
        BY DEF JobShape, n
    <2>2. Nests(root, root)
        BY <1>9, <2>1 DEF Intervals, Nests
    <2>3. ASSUME NEW i \in 1 .. n PROVE Nests(steps[i], root)
        BY <1>8, <1>9, <2>1 DEF Intervals, Nests, StepShape
    <2> QED BY <1>13, <2>2, <2>3
<1>15. ASSUME NEW i \in F PROVE Report(errors[i]).fingerprint[1] = "step"
    <2>1. errors[i] = StepError(job, job.steps[i], <<id, i>>)
        BY <1>3, <1>6
    <2> QED BY <2>1 DEF Report, StepError, SyntheticError
<1>16. Failing(job.conclusion) => (Unprotected(job) \/ CrowdedOut(job) <=> ~EmitsRootError(job))
    BY DEF JobShape, EmitsRootError
<1>17. root.status = "Error" => EmitsRootError(job)
    BY <1>9, Statuses DEF RootStatus, EmitsRootError, JobShape
<1>18. CASE own
    <2>1. F = {} /\ EmitsRootError(job) /\ Failing(job.conclusion)
        BY <1>5, <1>18 DEF EmitsRootError
    <2>2. RootStatus(job) = "Error"
        BY <2>1, Statuses DEF RootStatus, EmitsRootError, JobShape
    <2>3. ToldAlike(Report(error), root) /\ root.exception # None
        <3> DEFINE span == Span(<<id, 0>>, None, JobSpanName(job), job.timing, RootStatus(job),
                                JobAttributes(job), own, JobError(job, <<id, 0>>))
        <3>1. ToldAlike(Report(JobError(job, <<id, 0>>)), span) /\ span.exception # None
            BY <1>5, <1>18, <2>1, <2>2, JobIsTold
        <3>2. root = span
            BY <1>2 DEF error
        <3> QED BY <3>1, <3>2, Zenon DEF error
    <2>4. trace.errors = <<Report(error)>>
        BY <1>2, <1>12, <1>18, <2>1
    <2> DEFINE told == Report(error)
    <2> HIDE DEF told
    <2>5. Len(trace.errors) = 1 /\ Elements(trace.errors) = {told} /\ trace.errors # <<>>
        BY <2>4 DEF told, Elements
    <2>6. {report.span : report \in Elements(trace.errors)} = {told.span}
        BY <2>5
    <2>7. {span \in Spans(trace) : span.exception # None} = {root}
        BY <1>8, <1>13, <2>1, <2>3
    <2>8. told.fingerprint[1] = "job"
        BY DEF told, error, Report, JobError, SyntheticError
    <2>9. \A x : Cardinality({x}) = 1
        BY FS_Singleton
    <2>10. ASSUME NEW span \in Spans(trace), span.exception # None
           PROVE  \E report \in Elements(trace.errors) : ToldAlike(report, span)
        BY <2>3, <2>5, <2>7, <2>10 DEF told
    <2>11. F = {i \in 1 .. Len(trace.job.steps) : Failing(trace.job.steps[i].conclusion)}
        BY <1>2 DEF F, FailingSteps
    <2>12. JobIsToldOnce(trace)
        BY <1>2, <1>16, <2>1, <2>5, <2>6, <2>7, <2>9, <2>10, <2>11 DEF JobIsToldOnce, root
    <2> QED BY <1>14, <2>5, <2>8, <2>12 DEF trace, root
<1>19. CASE ~own
    <2>1. trace.errors = reports
        BY <1>2, <1>12, <1>19
    <2>2. root.exception = None
        BY <1>9, <1>19
    <2>3. {span \in Spans(trace) : span.exception # None} = {steps[i] : i \in F}
        BY <1>6, <1>8, <1>10, <1>13, <2>2
    <2>4. ASSUME NEW span \in Spans(trace), span.exception # None
          PROVE  \E report \in Elements(trace.errors) : ToldAlike(report, span)
        <3>1. PICK i \in F : span = steps[i]
            BY <2>3, <2>4
        <3> QED BY <1>10, <1>12, <2>1, <3>1
    <2>5. ASSUME NEW span \in Spans(trace), span.status = "Error" PROVE F # {}
        <3>1. CASE span = root
            BY <1>5, <1>17, <1>19, <2>5, <3>1
        <3>2. CASE \E i \in 1 .. n : span = steps[i]
            <4>1. PICK i \in 1 .. n : span = steps[i]
                BY <3>2
            <4>2. Status(job.steps[i].conclusion) = "Error" /\ job.steps[i].conclusion \in Conclusions
                BY <1>8, <2>5, <4>1 DEF JobShape, StepShape, n
            <4> QED BY <1>4, <4>2, Statuses
        <3> QED BY <1>13, <3>1, <3>2
    <2>6. trace.errors = <<>> <=> F = {} /\ (Failing(job.conclusion) => Unprotected(job) \/ CrowdedOut(job))
        BY <1>5, <1>12, <1>16, <1>19, <2>1 DEF EmitsRootError
    <2>7. F = {i \in 1 .. Len(trace.job.steps) : Failing(trace.job.steps[i].conclusion)}
        BY <1>2 DEF F, FailingSteps
    <2>8. JobIsToldOnce(trace)
        BY <1>2, <1>12, <2>1, <2>2, <2>3, <2>4, <2>5, <2>6, <2>7 DEF JobIsToldOnce, root
    <2>9. \A report \in Elements(trace.errors) : report.fingerprint[1] = "step"
        BY <1>12, <1>15, <2>1
    <2> QED BY <1>14, <2>8, <2>9 DEF trace, root
<1> QED BY <1>18, <1>19

-------------------------------------------------------------------------------
(* The jobs that a run lists *)

\* What is true of every row of workflow_job_links.
RowShape(row) ==
    /\ row.attempt \in Attempts /\ row.job \in Int /\ row.name \in Optional(Cleaned)
    /\ row.conclusion \in Conclusions /\ row.timing \in Intervals

\* There is one row of a job, as it is the target of an upsert.
OneRowEach(rows) == \A r, s \in rows : r.attempt = s.attempt /\ r.job = s.job => r = s

Earlier(S) == {pair \in S \X S : Before(pair[1], pair[2])}

LEMMA RowsAreOrdered ==
    ASSUME NEW attempt, NEW rows, OneRowEach(rows),
           \A row \in rows : RowShape(row) /\ row.attempt = attempt
    PROVE  Orders(Earlier(rows), rows)
<1>1. \A r, s \in rows : <<r, s>> \in Earlier(rows) <=> Before(r, s)
    BY DEF Earlier
<1>2. \A r \in rows : r.timing.start \in Int /\ r.job \in Int
    BY DEF RowShape, Intervals
<1>3. \A r, s \in rows : r.job = s.job => r = s
    BY DEF OneRowEach
<1>4. \A r \in rows : ~Before(r, r)
    BY <1>2 DEF Before
<1>5. \A r, s, t \in rows : Before(r, s) /\ Before(s, t) => Before(r, t)
    BY <1>2 DEF Before
<1>6. \A r, s \in rows : r # s => Before(r, s) \/ Before(s, r)
    BY <1>2, <1>3 DEF Before
<1> QED BY <1>1, <1>4, <1>5, <1>6 DEF Orders

LEMMA RowsInOrder ==
    ASSUME NEW rows, IsFiniteSet(rows), Orders(Earlier(rows), rows)
    PROVE  Enumerates(InOrder(rows, Before), Earlier(rows), rows)
<1> DEFINE R == Earlier(rows)
           order == InOrder(rows, Before)
           n == Cardinality(rows)
<1>1. \A x, y \in rows : <<x, y>> \in R <=> Before(x, y)
    BY DEF Earlier
<1>2. order = [k \in 1 .. n |-> CHOOSE x \in rows : Rank(R, rows, x) = k - 1]
    <2>1. \A x \in rows : {y \in rows : Before(y, x)} = {y \in rows : <<y, x>> \in R}
        BY <1>1
    <2>2. \A x \in rows : Rank(R, rows, x) = Cardinality({y \in rows : Before(y, x)})
        BY <2>1 DEF Rank
    <2> DEFINE f(k) == CHOOSE x \in rows : Rank(R, rows, x) = k - 1
               g(k) == CHOOSE x \in rows : Cardinality({y \in rows : Before(y, x)}) = k - 1
    <2>3. ASSUME NEW k PROVE f(k) = g(k)
        <3> HIDE DEF R
        <3>1. \A x : (x \in rows /\ Rank(R, rows, x) = k - 1)
                     <=> (x \in rows /\ Cardinality({y \in rows : Before(y, x)}) = k - 1)
            BY <2>2
        <3> QED BY <3>1, Zenon
    <2>4. order = [k \in 1 .. n |-> g(k)]
        BY Zenon DEF InOrder
    <2> HIDE DEF f, g, n, order
    <2>5. [k \in 1 .. n |-> f(k)] = [k \in 1 .. n |-> g(k)]
        BY <2>3
    <2>6. order = [k \in 1 .. n |-> f(k)]
        BY <2>4, <2>5
    <2> QED BY <2>6, Zenon DEF f
<1> HIDE DEF R, order
<1>3. Enumerates(order, R, rows)
    BY <1>2, Enumeration DEF R
<1> QED BY <1>3 DEF R, order

\* What a row is read back as.
Linked(row) == [job |-> row.job, name |-> row.name, conclusion |-> row.conclusion,
                timing |-> row.timing, identity |-> row.identity]

LEMMA SummaryReads ==
    ASSUME NEW row, RowShape(row), Summary(row) # None
    PROVE  Summary(row) = Linked(row)
<1>1. DisplayName(row.name) = row.name
    BY TracesAssumption DEF RowShape, DisplayName, Optional, Cleaned
<1> QED BY <1>1 DEF Summary, Linked

\* Each of the jobs is read back from a row of its own.
Lists(jobs, rows) ==
    /\ Len(jobs) \in Nat
    /\ \A k \in 1 .. Len(jobs) : \E row \in rows : jobs[k] = Linked(row)
    /\ \A k, l \in 1 .. Len(jobs) : jobs[k].job = jobs[l].job => k = l

LEMMA JobsAreListed ==
    ASSUME NEW attempt, IsFiniteSet(links), OneRowEach(links), \A row \in links : RowShape(row)
    PROVE  Lists(Listed(attempt), {row \in links : row.attempt = attempt})
<1> DEFINE rows == {row \in links : row.attempt = attempt}
           order == InOrder(rows, Before)
           n == Cardinality(rows)
           m == IF n > MaxPipelineJobSpans THEN MaxPipelineJobSpans + 1 ELSE n
           read == [k \in 1 .. m |-> Summary(order[k])]
           jobs == Known(read)
           K == KnownPlaces(read)
           T == {Summary(row) : row \in rows}
<1>1. IsFiniteSet(rows) /\ n \in Nat
    BY FS_Subset, FS_CardinalityType
<1>2. OneRowEach(rows) /\ \A row \in rows : RowShape(row) /\ row.attempt = attempt
    BY DEF OneRowEach
<1>3. Listed(attempt) = jobs
    BY Zenon DEF Listed
<1> HIDE DEF rows
<1>4. Enumerates(order, Earlier(rows), rows)
    BY <1>1, <1>2, RowsAreOrdered, RowsInOrder
<1> HIDE DEF order, n
<1>5. m \in Nat /\ m <= n
    BY <1>1, TracesAssumption
<1>6. \A k \in 1 .. m : k \in DOMAIN order /\ order[k] \in rows
    BY <1>1, <1>4, <1>5 DEF Enumerates, n
<1> HIDE DEF m, T
<1>7. \A k \in 1 .. m : read[k] = Summary(order[k])
    OBVIOUS
<1>8. read \in Seq(T) /\ Len(read) = m
    <2>1. \A k \in 1 .. m : Summary(order[k]) \in T
        BY <1>6 DEF T
    <2> QED BY <1>5, <2>1
<1> HIDE DEF read
<1>9. /\ Len(jobs) = Cardinality(K)
      /\ Len(jobs) \in 0 .. Len(read)
      /\ \E places : /\ Enumerates(places, Less(K), K)
                     /\ \A k \in 1 .. Len(jobs) : jobs[k] = read[places[k]]
    BY <1>8, KnownKeeps
<1>10. PICK places : /\ Enumerates(places, Less(K), K)
                     /\ \A k \in 1 .. Len(jobs) : jobs[k] = read[places[k]]
    BY <1>9
<1> HIDE DEF jobs
<1>11. Len(jobs) \in Nat
    BY <1>5, <1>8, <1>9
<1>12. \A i \in K : i \in 1 .. m /\ read[i] # None
    BY <1>8 DEF KnownPlaces
<1> HIDE DEF K
<1>13. ASSUME NEW k \in 1 .. Len(jobs)
       PROVE  /\ k \in DOMAIN places /\ places[k] \in DOMAIN order
              /\ order[places[k]] \in rows /\ jobs[k] = Linked(order[places[k]])
    <2>1. k \in DOMAIN places /\ places[k] \in K
        BY <1>9, <1>10 DEF Enumerates
    <2>2. places[k] \in 1 .. m /\ read[places[k]] # None
        BY <1>12, <2>1
    <2>3. order[places[k]] \in rows /\ places[k] \in DOMAIN order
        BY <1>6, <2>2
    <2>4. jobs[k] = Summary(order[places[k]]) /\ Summary(order[places[k]]) # None
        BY <1>7, <1>10, <2>2
    <2> QED BY <1>2, <2>1, <2>3, <2>4, SummaryReads
<1>14. ASSUME NEW k \in 1 .. Len(jobs), NEW l \in 1 .. Len(jobs), jobs[k].job = jobs[l].job PROVE k = l
    <2>1. \A row \in rows : Linked(row).job = row.job
        BY DEF Linked
    <2>2. order[places[k]].job = order[places[l]].job
        BY <1>13, <1>14, <2>1
    <2>3. order[places[k]] = order[places[l]]
        BY <1>2, <1>13, <2>2 DEF OneRowEach
    <2>4. places[k] = places[l]
        BY <1>4, <1>13, <2>3 DEF Enumerates
    <2> QED BY <1>10, <1>13, <2>4 DEF Enumerates
<1>15. Lists(jobs, rows)
    BY <1>11, <1>13, <1>14 DEF Lists
<1> QED BY <1>3, <1>15 DEF rows

-------------------------------------------------------------------------------
(* The interval and the conclusion of a run *)

LEMMA ImageIsFinite ==
    ASSUME NEW S, IsFiniteSet(S), NEW f, NEW T, \A x \in S : f[x] \in T, \A t \in T : \E x \in S : t = f[x]
    PROVE  IsFiniteSet(T)
<1> DEFINE g == [x \in S |-> f[x]]
<1>1. g \in [S -> T] /\ \A t \in T : \E x \in S : g[x] = t
    OBVIOUS
<1> HIDE DEF g
<1>2. g \in Surjection(S, T)
    BY <1>1 DEF Surjection
<1> QED BY <1>2, FS_Surjection

\* The interval holds those of all the jobs.
Spanned(jobs) ==
    \A k \in 1 .. Len(jobs) :
        /\ AggregateTiming(jobs).start <= jobs[k].timing.start
        /\ jobs[k].timing.end <= AggregateTiming(jobs).end

LEMMA TimingSpans ==
    ASSUME NEW jobs, Len(jobs) \in Nat, Len(jobs) # 0, \A k \in 1 .. Len(jobs) : jobs[k].timing \in Intervals
    PROVE  Spanned(jobs)
<1> DEFINE n == Len(jobs)
           J == {jobs[k].timing : k \in 1 .. n}
           starts == {t.start : t \in J}
           ends == {t.end : t \in J}
           first == CHOOSE m \in starts : \A t \in J : m <= t.start
           last == CHOOSE m \in ends : \A t \in J : m >= t.end
           times == [k \in 1 .. n |-> jobs[k].timing]
           from == [t \in J |-> t.start]
           to == [t \in J |-> t.end]
<1>1. IsFiniteSet(1 .. n) /\ 1 \in 1 .. n
    BY FS_Interval
<1>2. /\ \A k \in 1 .. n : times[k] \in J
      /\ \A t \in J : \E k \in 1 .. n : t = times[k]
    OBVIOUS
<1>3. AggregateTiming(jobs).start = first /\ AggregateTiming(jobs).end = last
    BY DEF AggregateTiming, Interval
<1>4. J \in SUBSET Intervals /\ J # {} /\ \A k \in 1 .. n : jobs[k].timing \in J
    BY <1>1
<1> HIDE DEF times
<1>5. IsFiniteSet(J)
    <2> DEFINE places == 1 .. n
    <2>1. IsFiniteSet(places) /\ (\A k \in places : times[k] \in J) /\ \A t \in J : \E k \in places : t = times[k]
        BY <1>1, <1>2
    <2> HIDE DEF places, J
    <2> QED BY <2>1, ImageIsFinite
<1> HIDE DEF J
<1>6. \A t \in J : t.start \in Int /\ t.end \in Int
    BY <1>4 DEF Intervals
<1>7. starts \in SUBSET Int /\ ends \in SUBSET Int /\ starts # {} /\ ends # {}
    BY <1>4, <1>6
<1>8. /\ (\A t \in J : from[t] \in starts) /\ (\A s \in starts : \E t \in J : s = from[t])
      /\ (\A t \in J : to[t] \in ends) /\ (\A s \in ends : \E t \in J : s = to[t])
    OBVIOUS
<1>9. \A t \in J : t.start \in starts /\ t.end \in ends
    OBVIOUS
<1>13. /\ \A s \in starts : \E t \in J : s = t.start
       /\ \A s \in ends : \E t \in J : s = t.end
    OBVIOUS
<1> HIDE DEF starts, ends, from, to
<1>10. IsFiniteSet(starts) /\ IsFiniteSet(ends)
    BY <1>5, <1>8, ImageIsFinite
<1>11. \E m \in starts : \A t \in J : m <= t.start
    <2>1. PICK m \in starts : \A s \in starts : m <= s
        BY <1>7, <1>10, BoundsExist
    <2> QED BY <1>9, <2>1
<1>12. \E m \in ends : \A t \in J : m >= t.end
    <2>1. PICK m \in ends : \A s \in ends : m >= s
        BY <1>7, <1>10, BoundsExist
    <2> QED BY <1>9, <2>1
<1>14. \A t \in J : first <= t.start
    BY <1>11
<1>15. last \in ends /\ \A t \in J : last >= t.end
    BY <1>12
<1>16. last \in Int
    BY <1>7, <1>15
<1> HIDE DEF first, last
<1>17. \A t \in J : t.end <= last
    BY <1>6, <1>15, <1>16
<1>18. \A k \in 1 .. n : first <= jobs[k].timing.start /\ jobs[k].timing.end <= last
    BY <1>4, <1>14, <1>17
<1> QED BY <1>3, <1>18 DEF Spanned

LEMMA SeverityOrders ==
    ASSUME NEW c \in Conclusions, NEW d \in Conclusions
    PROVE  /\ Severity(c) \in Int
           /\ Severity(c) >= Severity(d) /\ Failing(d) => Failing(c)
<1>1. \A e \in Conclusions : Severity(e) \in 0 .. 6 /\ (Failing(e) <=> Severity(e) >= 5)
    BY DEF Severity, Failing, Conclusions
<1> QED BY <1>1

\* The run fails exactly if a job of it does.
LEMMA WorstConclusion ==
    ASSUME NEW jobs, Len(jobs) \in Nat, Len(jobs) # 0, \A k \in 1 .. Len(jobs) : jobs[k].conclusion \in Conclusions
    PROVE  /\ AggregateConclusion(jobs) \in Conclusions
           /\ Failing(AggregateConclusion(jobs)) <=> \E k \in 1 .. Len(jobs) : Failing(jobs[k].conclusion)
<1> DEFINE n == Len(jobs)
           J == {jobs[k].conclusion : k \in 1 .. n}
           worst == CHOOSE c \in J : \A o \in J : Severity(c) >= Severity(o)
           ends == [k \in 1 .. n |-> jobs[k].conclusion]
           severities == {Severity(c) : c \in J}
           severity == [c \in J |-> Severity(c)]
<1>1. IsFiniteSet(1 .. n) /\ 1 \in 1 .. n
    BY FS_Interval
<1>2. /\ \A k \in 1 .. n : ends[k] \in J
      /\ \A c \in J : \E k \in 1 .. n : c = ends[k]
    OBVIOUS
<1>3. AggregateConclusion(jobs) = worst
    BY DEF AggregateConclusion
<1>4. J \in SUBSET Conclusions /\ J # {}
    BY <1>1
<1>5. (\A k \in 1 .. n : jobs[k].conclusion \in J) /\ \A c \in J : \E k \in 1 .. n : c = jobs[k].conclusion
    OBVIOUS
<1> HIDE DEF ends
<1>6. IsFiniteSet(J)
    <2> DEFINE places == 1 .. n
    <2>1. IsFiniteSet(places) /\ (\A k \in places : ends[k] \in J) /\ \A c \in J : \E k \in places : c = ends[k]
        BY <1>1, <1>2
    <2> HIDE DEF places, J
    <2> QED BY <2>1, ImageIsFinite
<1> HIDE DEF J
<1>7. \A c \in J : Severity(c) \in Int
    BY <1>4, SeverityOrders
<1>8. severities \in SUBSET Int /\ severities # {}
    BY <1>4, <1>7
<1>9. /\ \A c \in J : severity[c] \in severities
      /\ \A s \in severities : \E c \in J : s = severity[c]
      /\ \A s \in severities : \E c \in J : s = Severity(c)
      /\ \A c \in J : Severity(c) \in severities
    OBVIOUS
<1> HIDE DEF severities, severity
<1>10. IsFiniteSet(severities)
    BY <1>6, <1>9, ImageIsFinite
<1>11. PICK m \in severities : \A s \in severities : m >= s
    BY <1>8, <1>10, BoundsExist
<1>12. \E c \in J : \A o \in J : Severity(c) >= Severity(o)
    <2>1. PICK c \in J : m = Severity(c)
        BY <1>9
    <2> QED BY <1>9, <1>11, <2>1
<1>13. worst \in J /\ \A o \in J : Severity(worst) >= Severity(o)
    BY <1>12
<1> HIDE DEF worst
<1>14. ASSUME NEW k \in 1 .. n, Failing(jobs[k].conclusion) PROVE Failing(worst)
    BY <1>4, <1>5, <1>13, <1>14, SeverityOrders
<1>15. ASSUME Failing(worst) PROVE \E k \in 1 .. n : Failing(jobs[k].conclusion)
    BY <1>5, <1>13, <1>15
<1> QED BY <1>3, <1>4, <1>13, <1>14, <1>15

-------------------------------------------------------------------------------
(* The trace of a run *)

\* What is true of every job that a run lists.
LinkedShape(job) ==
    /\ job.job \in Int /\ job.name \in Optional(Cleaned)
    /\ job.conclusion \in Conclusions /\ job.timing \in Intervals

\* What a run is emitted from.
RunShape(run) ==
    /\ Len(run.jobs) \in Nat /\ Len(run.jobs) # 0
    /\ \A k \in 1 .. Len(run.jobs) : LinkedShape(run.jobs[k])
    /\ \A k, l \in 1 .. Len(run.jobs) : run.jobs[k].job = run.jobs[l].job => k = l
    /\ run.conclusion = AggregateConclusion(run.jobs) /\ run.timing = AggregateTiming(run.jobs)

\* The failure of a job, shown by its task in the trace of its run.
LEMMA TaskIsTold ==
    ASSUME NEW run, NEW job, LinkedShape(job), Failing(job.conclusion),
           NEW id, NEW parent, NEW name, NEW fails \in BOOLEAN, fails
    PROVE  LET error == TaskError(job, id, WorkflowName(run))
               span == Span(id, parent, name, job.timing, Status(job.conclusion),
                            TaskAttributes(run, job), fails, error)
           IN ToldAlike(Report(error), span) /\ span.exception # None
<1> DEFINE error == TaskError(job, id, WorkflowName(run))
           a == TaskAttributes(run, job)
           task == TaskFailure(job, <<WorkflowName(run), JobName(job)>>)
           span == Span(id, parent, name, job.timing, Status(job.conclusion), a, fails, error)
<1>1. /\ a.pipeline = WorkflowName(run) /\ a.conclusion = job.conclusion
      /\ a.error_type = ErrorType(job.conclusion)
      /\ a.task = JobName(job) /\ a.task_run = <<job.job>> /\ a.operation = "github.actions.pipeline.task"
      /\ a.description = <<WorkflowName(run), JobName(job)>>
    BY TaskAttributesSay
<1>2. error = SyntheticError("pipeline-task", id, WorkflowName(run), JobGroup(job), task) /\ error.span = id
    BY DEF TaskError, SyntheticError
<1>3. /\ span.id = id /\ span.end = job.timing.end /\ span.status = Status(job.conclusion)
      /\ span.attributes = a /\ span.exception = Exception(error) /\ span.name = name
    BY DEF Span
<1>4. /\ task.conclusion = job.conclusion /\ task.run = <<job.job>> /\ task.at = job.timing.end
      /\ task.name = OrElse(job.name, <<job.job>>) /\ task.description = <<WorkflowName(run), JobName(job)>>
    BY DEF TaskFailure
<1>10. \/ JobName(job) \in {"job", "step"} /\ task.name = task.run
      \/ JobName(job) = task.name
    BY <1>4 DEF JobName, OrElse
<1> HIDE DEF a, error, span, task
<1>5. task.name \in Texts \cup Seq(Int)
    BY <1>4 DEF OrElse, LinkedShape, Optional, Cleaned
<1>6. Status(job.conclusion) = "Error" /\ job.conclusion \in Conclusions /\ job.timing.end \in Int
    BY Statuses DEF LinkedShape, Intervals
<1>7. SpanOperation("pipeline-task") = "github.actions.pipeline.task"
    BY DEF SpanOperation
<1>8. Carries(span, error, "pipeline-task", WorkflowName(run), task)
    BY <1>1, <1>2, <1>3, <1>4, <1>6, <1>7, <1>10 DEF Carries
<1>9. ToldAlike(Report(error), span) /\ span.exception # None
    BY <1>2, <1>4, <1>5, <1>6, <1>8, ErrorIsTold
<1> QED BY <1>9 DEF a, error, span

FailingJobs(run) == {k \in 1 .. Len(run.jobs) : Failing(run.jobs[k].conclusion)}
TaskErrors(id, run) == [k \in 1 .. Len(run.jobs) |-> TaskError(run.jobs[k], <<id, k>>, WorkflowName(run))]

\* The root of the trace, a span and a link for each job, and the reports.
EmitsTasks(trace, id, run) ==
    /\ trace.attempt = run.attempt
    /\ trace.root = Span(<<id, 0>>, None, <<WorkflowName(run)>>, run.timing, Status(run.conclusion),
                         PipelineAttributes(run), FALSE, None)
    /\ Len(trace.tasks) = Len(run.jobs)
    /\ \A k \in 1 .. Len(run.jobs) :
          /\ trace.links[k] = run.jobs[k].identity
          /\ trace.tasks[k] = Span(<<id, k>>, <<id, 0>>, <<WorkflowName(run), JobName(run.jobs[k])>>,
                                   run.jobs[k].timing, Status(run.jobs[k].conclusion),
                                   TaskAttributes(run, run.jobs[k]), k \in FailingJobs(run),
                                   TaskErrors(id, run)[k])
    /\ trace.errors = Reports(FailingJobs(run), TaskErrors(id, run))

LEMMA EmittedTasks ==
    ASSUME NEW run, Len(run.jobs) \in Nat
    PROVE  EmitsTasks(EmitPipeline(run), PipelineTraceId(run.attempt), run)
<1> DEFINE n == Len(run.jobs)
           id == PipelineTraceId(run.attempt)
           root == Span(<<id, 0>>, None, <<WorkflowName(run)>>, run.timing, Status(run.conclusion),
                        PipelineAttributes(run), FALSE, None)
           span(k) == Span(<<id, k>>, <<id, 0>>, <<WorkflowName(run), JobName(run.jobs[k])>>,
                           run.jobs[k].timing, Status(run.jobs[k].conclusion),
                           TaskAttributes(run, run.jobs[k]), k \in FailingJobs(run),
                           TaskErrors(id, run)[k])
           told == Reports(FailingJobs(run), TaskErrors(id, run))
           link(k) == run.jobs[k].identity
           trace == EmitPipeline(run)
<1>1. trace = [attempt |-> run.attempt, root |-> root, links |-> [k \in 1 .. n |-> link(k)],
               tasks |-> [k \in 1 .. n |-> span(k)], errors |-> told]
    BY Zenon DEF EmitPipeline, FailingJobs, TaskErrors
<1> HIDE DEF trace, root, span, told, link
<1>2. trace.attempt = run.attempt /\ trace.root = root /\ trace.errors = told
    BY <1>1
<1>3. trace.tasks = [k \in 1 .. n |-> span(k)] /\ trace.links = [k \in 1 .. n |-> link(k)]
    BY <1>1
<1>4. Len(trace.tasks) = n /\ \A k \in 1 .. n : trace.tasks[k] = span(k) /\ trace.links[k] = link(k)
    BY <1>3
<1> QED BY <1>2, <1>4, Zenon DEF EmitsTasks, trace, root, span, told, link

\* What is true of the trace of a run by itself.
RunTells(trace) ==
    /\ Len(trace.tasks) \in Nat
    /\ TasksAreToldOnce(trace)
    /\ \A report \in Elements(trace.errors) : report.fingerprint[1] = "pipeline-task"
    /\ trace.root.status = "Error" <=> trace.errors # <<>>
    /\ \A k \in 1 .. Len(trace.tasks) : Nests(trace.tasks[k], trace.root)
    /\ \A k, l \in 1 .. Len(trace.tasks) :
           trace.tasks[k].attributes.task_run = trace.tasks[l].attributes.task_run => k = l

\* What its tasks and links say of the jobs that the run listed.
Mirrors(trace, run) ==
    /\ trace.attempt = run.attempt /\ Len(trace.tasks) = Len(run.jobs)
    /\ \A k \in 1 .. Len(run.jobs) :
          /\ trace.links[k] = run.jobs[k].identity
          /\ trace.tasks[k].start = run.jobs[k].timing.start /\ trace.tasks[k].end = run.jobs[k].timing.end
          /\ trace.tasks[k].attributes = TaskAttributes(run, run.jobs[k])

LEMMA PipelineTells ==
    ASSUME NEW run, RunShape(run)
    PROVE  RunTells(EmitPipeline(run)) /\ Mirrors(EmitPipeline(run), run)
<1> DEFINE n == Len(run.jobs)
           id == PipelineTraceId(run.attempt)
           F == FailingJobs(run)
           errors == TaskErrors(id, run)
           trace == EmitPipeline(run)
           root == trace.root
           tasks == trace.tasks
           reports == Reports(F, errors)
<1>1. n \in Nat /\ n # 0 /\ \A k \in 1 .. n : LinkedShape(run.jobs[k])
    BY DEF RunShape
<1>2. /\ trace.attempt = run.attempt
      /\ root = Span(<<id, 0>>, None, <<WorkflowName(run)>>, run.timing, Status(run.conclusion),
                     PipelineAttributes(run), FALSE, None)
      /\ Len(tasks) = n
      /\ \A k \in 1 .. n :
            /\ trace.links[k] = run.jobs[k].identity
            /\ tasks[k] = Span(<<id, k>>, <<id, 0>>, <<WorkflowName(run), JobName(run.jobs[k])>>,
                               run.jobs[k].timing, Status(run.jobs[k].conclusion),
                               TaskAttributes(run, run.jobs[k]), k \in F, errors[k])
      /\ trace.errors = reports
    <2>1. EmitsTasks(EmitPipeline(run), PipelineTraceId(run.attempt), run)
        BY <1>1, EmittedTasks
    <2> QED BY <2>1, Zenon DEF EmitsTasks
<1>3. \A k \in 1 .. n : errors[k] = TaskError(run.jobs[k], <<id, k>>, WorkflowName(run))
    BY DEF TaskErrors
<1>4. F \in SUBSET (1 .. n) /\ \A k \in 1 .. n : k \in F <=> Failing(run.jobs[k].conclusion)
    BY DEF FailingJobs
<1> HIDE DEF errors, trace, root, tasks, reports, F, n, id
<1>5. \A k \in F : k \in 1 .. n
    BY <1>4
<1>6. F \in SUBSET Int /\ IsFiniteSet(F)
    BY <1>1, <1>4, PlacesAreFinite
<1>7. \A k \in 1 .. n :
          /\ tasks[k].id = <<id, k>> /\ tasks[k].start = run.jobs[k].timing.start
          /\ tasks[k].end = run.jobs[k].timing.end
          /\ tasks[k].status = Status(run.jobs[k].conclusion)
          /\ tasks[k].attributes = TaskAttributes(run, run.jobs[k])
    <2> SUFFICES ASSUME NEW k \in 1 .. n
                 PROVE  /\ tasks[k].id = <<id, k>> /\ tasks[k].start = run.jobs[k].timing.start
                        /\ tasks[k].end = run.jobs[k].timing.end
                        /\ tasks[k].status = Status(run.jobs[k].conclusion)
                        /\ tasks[k].attributes = TaskAttributes(run, run.jobs[k])
        OBVIOUS
    <2> DEFINE fails == k \in F
               a == TaskAttributes(run, run.jobs[k])
    <2>1. tasks[k] = Span(<<id, k>>, <<id, 0>>, <<WorkflowName(run), JobName(run.jobs[k])>>,
                          run.jobs[k].timing, Status(run.jobs[k].conclusion), a, fails, errors[k])
        BY <1>2
    <2> HIDE DEF fails, a
    <2> QED BY <2>1 DEF Span, a
<1>8. root.start = run.timing.start /\ root.end = run.timing.end /\ root.status = Status(run.conclusion)
    BY <1>2 DEF Span
<1>9. ASSUME NEW k \in F PROVE ToldAlike(Report(errors[k]), tasks[k])
    <2>1. k \in 1 .. n /\ LinkedShape(run.jobs[k]) /\ Failing(run.jobs[k].conclusion)
        BY <1>1, <1>4, <1>5
    <2> DEFINE fails == k \in F
    <2>2. fails \in BOOLEAN /\ fails
        OBVIOUS
    <2>3. tasks[k] = Span(<<id, k>>, <<id, 0>>, <<WorkflowName(run), JobName(run.jobs[k])>>,
                          run.jobs[k].timing, Status(run.jobs[k].conclusion),
                          TaskAttributes(run, run.jobs[k]), fails, errors[k])
        BY <1>2, <2>1
    <2> HIDE DEF fails
    <2>4. errors[k] = TaskError(run.jobs[k], <<id, k>>, WorkflowName(run))
        BY <1>3, <2>1
    <2> QED BY <2>1, <2>2, <2>3, <2>4, TaskIsTold
<1>10. Shown(F, tasks, errors)
    BY <1>5, <1>7, <1>9 DEF Shown
<1>11. TellsEach(reports, F, tasks, errors)
    BY <1>6, <1>10, TasksAreTold DEF reports
<1>12. /\ Len(reports) = Cardinality(F)
       /\ Elements(reports) = {Report(errors[i]) : i \in F}
       /\ reports = <<>> <=> F = {}
       /\ Cardinality({tasks[i] : i \in F}) = Cardinality(F)
    BY <1>11, Zenon DEF TellsEach
<1>13. \A k \in 1 .. n : tasks[k].status = "Error" <=> k \in F
    BY <1>1, <1>4, <1>7, Statuses DEF LinkedShape
<1>14. Elements(trace.tasks) = {tasks[k] : k \in 1 .. n}
    BY <1>2 DEF Elements, tasks
<1>15. TasksAreToldOnce(trace)
    <2>1. ASSUME NEW span \in Elements(trace.tasks), span.status = "Error"
          PROVE  \E report \in Elements(trace.errors) : ToldAlike(report, span)
        <3>1. PICK k \in F : span = tasks[k]
            BY <1>13, <1>14, <2>1
        <3> QED BY <1>2, <1>9, <1>12, <3>1
    <2>2. ASSUME NEW span \in Elements(trace.tasks), NEW report \in Elements(trace.errors), ToldAlike(report, span)
          PROVE  span.status = "Error"
        BY <2>2 DEF ToldAlike
    <2>3. {span \in Elements(trace.tasks) : span.status = "Error"} = {tasks[i] : i \in F}
        BY <1>5, <1>13, <1>14
    <2>4. Len(trace.errors) = Cardinality({span \in Elements(trace.tasks) : span.status = "Error"})
        BY <1>2, <1>12, <2>3
    <2> QED BY <2>1, <2>2, <2>4 DEF TasksAreToldOnce
<1>16. ASSUME NEW report \in Elements(trace.errors) PROVE report.fingerprint[1] = "pipeline-task"
    <2>1. PICK k \in F : report = Report(errors[k])
        BY <1>2, <1>12
    <2>2. errors[k] = TaskError(run.jobs[k], <<id, k>>, WorkflowName(run))
        BY <1>3, <1>5
    <2> QED BY <2>1, <2>2 DEF Report, TaskError, SyntheticError
<1>17. root.status = "Error" <=> trace.errors # <<>>
    <2>1. \A k \in 1 .. Len(run.jobs) : run.jobs[k].conclusion \in Conclusions
        BY <1>1 DEF LinkedShape, n
    <2>2. run.conclusion = AggregateConclusion(run.jobs) /\ Len(run.jobs) \in Nat /\ Len(run.jobs) # 0
        BY DEF RunShape
    <2>3. /\ run.conclusion \in Conclusions
          /\ Failing(run.conclusion) <=> \E k \in 1 .. Len(run.jobs) : Failing(run.jobs[k].conclusion)
        BY <2>1, <2>2, WorstConclusion
    <2>4. Failing(run.conclusion) <=> F # {}
        BY <1>4, <1>5, <2>3 DEF n
    <2>5. root.status = "Error" <=> Failing(run.conclusion)
        BY <1>8, <2>3, Statuses
    <2> QED BY <1>2, <1>12, <2>4, <2>5
<1>18. \A k \in 1 .. n : Nests(tasks[k], root)
    <2>1. \A k \in 1 .. Len(run.jobs) : run.jobs[k].timing \in Intervals
        BY <1>1 DEF LinkedShape, n
    <2>2. Spanned(run.jobs) /\ run.timing = AggregateTiming(run.jobs)
        BY <2>1, TimingSpans DEF RunShape
    <2> QED BY <1>7, <1>8, <2>1, <2>2 DEF Spanned, Nests, Intervals, n
<1>19. ASSUME NEW k \in 1 .. n, NEW l \in 1 .. n, tasks[k].attributes.task_run = tasks[l].attributes.task_run
       PROVE  k = l
    <2> DEFINE taskRun(i) == TaskAttributes(run, run.jobs[i]).task_run
    <2>1. taskRun(k) = <<run.jobs[k].job>> /\ taskRun(l) = <<run.jobs[l].job>>
        BY TaskAttributesSay
    <2>2. tasks[k].attributes.task_run = taskRun(k) /\ tasks[l].attributes.task_run = taskRun(l)
        BY <1>7
    <2> HIDE DEF taskRun
    <2>3. <<run.jobs[k].job>> = <<run.jobs[l].job>>
        BY <1>19, <2>1, <2>2
    <2>4. run.jobs[k].job = run.jobs[l].job
        BY <2>3
    <2> QED BY <2>4 DEF RunShape, n
<1>20. RunTells(trace)
    BY <1>1, <1>2, <1>15, <1>16, <1>17, <1>18, <1>19 DEF RunTells, root, tasks
<1>21. Mirrors(trace, run)
    BY <1>2, <1>7 DEF Mirrors, tasks, n
<1> QED BY <1>20, <1>21 DEF trace

\* A job that was read back from its link is mirrored by the trace that the link names.
LEMMA LinkIsMirrored ==
    ASSUME NEW id, NEW job, JobShape(job), NEW run, job.attempt = run.attempt,
           NEW task, NEW pipeline, pipeline.attempt = run.attempt,
           LET linked == Linked(LinkRow(Emit(id, job)))
           IN /\ task.start = linked.timing.start /\ task.end = linked.timing.end
              /\ task.attributes = TaskAttributes(run, linked)
    PROVE  MirroredBy(task, pipeline, Linked(LinkRow(Emit(id, job))).identity, Emit(id, job))
<1> DEFINE trace == Emit(id, job)
           linked == Linked(LinkRow(trace))
<1>1. /\ trace.job = job
      /\ trace.root = Span(<<id, 0>>, None, JobSpanName(job), job.timing, RootStatus(job),
                           JobAttributes(job), OwnError(job), JobError(job, <<id, 0>>))
    <2>1. Emits(Emit(id, job), id, job)
        BY EmittedSpans DEF JobShape
    <2> QED BY <2>1, Zenon DEF Emits
<1> HIDE DEF trace
<1>2. /\ trace.root.start = job.timing.start /\ trace.root.end = job.timing.end
      /\ trace.root.attributes = JobAttributes(job)
    BY <1>1 DEF Span
<1>3. /\ linked.job = job.job /\ linked.name = job.name /\ linked.conclusion = job.conclusion
      /\ linked.timing = job.timing /\ linked.identity = trace.root.id
    BY <1>1 DEF Linked, LinkRow
<1>4. /\ task.start = linked.timing.start /\ task.end = linked.timing.end
      /\ task.attributes = TaskAttributes(run, linked)
    BY DEF trace
<1> HIDE DEF linked
<1>5. JobName(linked) = JobName(job)
    BY <1>3 DEF JobName
<1> DEFINE a == TaskAttributes(run, linked)
           b == JobAttributes(job)
<1>6. /\ DOMAIN a \ OfTheRun = {"run", "run_url", "conclusion", "result", "error_type", "timing_source",
                                "task", "task_run", "task_url"}
      /\ a.run = run.attempt[1] /\ a.run_url = RunUrl(run.attempt)
      /\ a.conclusion = linked.conclusion /\ a.result = Result(linked.conclusion)
      /\ a.error_type = ErrorType(linked.conclusion) /\ a.timing_source = linked.timing.source
      /\ a.task = JobName(linked) /\ a.task_run = <<linked.job>> /\ a.task_url = TaskUrl(run.attempt, linked.job)
    BY TaskAttributesSay
<1>7. /\ b.run = job.attempt[1] /\ b.run_url = RunUrl(job.attempt)
      /\ b.conclusion = job.conclusion /\ b.result = Result(job.conclusion)
      /\ b.error_type = ErrorType(job.conclusion) /\ b.timing_source = job.timing.source
      /\ b.task = JobName(job) /\ b.task_run = <<job.job>> /\ b.task_url = TaskUrl(job.attempt, job.job)
    BY JobAttributesSay
<1> HIDE DEF a, b
<1>8. \A name \in DOMAIN a \ OfTheRun : b[name] = a[name]
    BY <1>3, <1>5, <1>6, <1>7
<1>9. MirroredBy(task, pipeline, linked.identity, trace)
    BY <1>1, <1>2, <1>3, <1>4, <1>8 DEF MirroredBy, a, b
<1> QED BY <1>9 DEF trace, linked

-------------------------------------------------------------------------------
(* The inductive invariant *)

\* Every emitted trace is the one that a well-formed job makes.
EmittedJob(trace) == JobShape(trace.job) /\ trace = Emit(trace.root.id[1], trace.job)

\* The links are one row for each job, of a trace that was emitted for it.
Recorded(rows, traces) ==
    /\ IsFiniteSet(rows) /\ OneRowEach(rows)
    /\ \A row \in rows : \E trace \in traces : row = LinkRow(trace)

\* Each task of a run is mirrored by the emitted trace that it is linked to.
Mirrored(run, traces) ==
    \A k \in 1 .. Len(run.tasks) :
        \E trace \in traces : MirroredBy(run.tasks[k], run, run.links[k], trace)

ContextsAreTyped == contexts \in [Attempts -> Optional(Contexts)]
EmissionsHold ==
    /\ emitted \in Seq(Elements(emitted))
    /\ \A trace \in Elements(emitted) : EmittedJob(trace)
LinksHold == Recorded(links, Elements(emitted))
PipelinesHold ==
    /\ pipelines \in Seq(Elements(pipelines))
    /\ \A run \in Elements(pipelines) : RunTells(run) /\ Mirrored(run, Elements(emitted))
TracesInv == ContextsAreTyped /\ EmissionsHold /\ LinksHold /\ PipelinesHold

LEMMA Appended ==
    ASSUME NEW seq, seq \in Seq(Elements(seq)), NEW x
    PROVE  /\ Elements(Append(seq, x)) = Elements(seq) \cup {x}
           /\ Append(seq, x) \in Seq(Elements(Append(seq, x)))
<1> DEFINE T == Elements(seq)
           n == Len(seq)
           more == Append(seq, x)
<1>1. n \in Nat /\ T = {seq[i] : i \in 1 .. n}
    BY DEF Elements
<1> HIDE DEF T
<1>2. seq \in Seq(T \cup {x}) /\ x \in T \cup {x}
    BY DEF T
<1>3. /\ more \in Seq(T \cup {x}) /\ Len(more) = n + 1
      /\ \A i \in 1 .. n : more[i] = seq[i]
      /\ more[n + 1] = x
    BY <1>2
<1> HIDE DEF more
<1>4. \A i : i \in 1 .. n + 1 <=> i \in 1 .. n \/ i = n + 1
    BY <1>1
<1>5. Elements(more) = T \cup {x}
    BY <1>1, <1>3, <1>4 DEF Elements
<1> QED BY <1>3, <1>5 DEF more, T

LEMMA EmittedIsJob ==
    ASSUME NEW job, JobShape(job), NEW id
    PROVE  EmittedJob(Emit(id, job)) /\ Emit(id, job).job = job
<1> DEFINE trace == Emit(id, job)
<1>1. /\ trace.job = job
      /\ trace.root = Span(<<id, 0>>, None, JobSpanName(job), job.timing, RootStatus(job),
                           JobAttributes(job), OwnError(job), JobError(job, <<id, 0>>))
    <2>1. Emits(Emit(id, job), id, job)
        BY EmittedSpans DEF JobShape
    <2> QED BY <2>1, Zenon DEF Emits
<1>2. trace.root.id[1] = id
    <2> HIDE DEF trace
    <2> QED BY <1>1 DEF Span
<1>3. trace = Emit(trace.root.id[1], trace.job)
    BY <1>1, <1>2
<1> HIDE DEF trace
<1>4. EmittedJob(trace)
    BY <1>1, <1>3 DEF EmittedJob
<1> QED BY <1>1, <1>4 DEF trace

LEMMA RowsAreShaped ==
    ASSUME NEW traces, \A trace \in traces : EmittedJob(trace), NEW rows, Recorded(rows, traces)
    PROVE  \A row \in rows : RowShape(row)
<1> SUFFICES ASSUME NEW row \in rows PROVE RowShape(row)
    OBVIOUS
<1>1. PICK trace \in traces : row = LinkRow(trace)
    BY DEF Recorded
<1>2. JobShape(trace.job)
    BY DEF EmittedJob
<1> QED BY <1>1, <1>2 DEF RowShape, LinkRow, JobShape

\* The upsert replaces the row of the trace's job.
LEMMA RecordedAgain ==
    ASSUME NEW rows, NEW traces, Recorded(rows, traces), NEW trace
    PROVE  /\ Recorded(rows, traces \cup {trace})
           /\ Recorded({row \in rows : ~SameJob(row, trace.job)} \cup {LinkRow(trace)}, traces \cup {trace})
<1> DEFINE kept == {row \in rows : ~SameJob(row, trace.job)}
           new == LinkRow(trace)
<1>1. Recorded(rows, traces \cup {trace})
    BY DEF Recorded
<1>2. IsFiniteSet(kept \cup {new})
    <2>1. IsFiniteSet(kept)
        BY FS_Subset DEF Recorded
    <2> QED BY <2>1, FS_AddElement
<1>3. new.attempt = trace.job.attempt /\ new.job = trace.job.job
    BY DEF LinkRow
<1>4. OneRowEach(kept \cup {new})
    <2>1. \A row \in kept : row \in rows /\ ~(row.attempt = new.attempt /\ row.job = new.job)
        BY <1>3 DEF SameJob
    <2> HIDE DEF kept, new
    <2> QED BY <2>1 DEF OneRowEach, Recorded
<1>5. Recorded(kept \cup {new}, traces \cup {trace})
    BY <1>2, <1>4 DEF Recorded
<1> QED BY <1>1, <1>5

LEMMA TracesInit == Init => TracesInv
<1> SUFFICES ASSUME Init PROVE TracesInv
    OBVIOUS
<1>1. ContextsAreTyped
    BY DEF Init, ContextsAreTyped, Optional
<1>2. Elements(emitted) = {} /\ Elements(pipelines) = {} /\ emitted = <<>> /\ pipelines = <<>>
    BY DEF Init, Elements
<1>3. EmissionsHold /\ PipelinesHold
    BY <1>2 DEF EmissionsHold, PipelinesHold
<1>4. LinksHold
    BY FS_EmptySet DEF Init, LinksHold, Recorded, OneRowEach
<1> QED BY <1>1, <1>3, <1>4 DEF TracesInv

LEMMA JobKeeps ==
    ASSUME TracesInv, NEW payload \in JobDeliveries, JobCompleted(payload)
    PROVE  TracesInv'
<1> DEFINE context == contexts[Attempt(payload)]
           job == Project(payload, context)
           trace == Emit(Len(emitted) + 1, job)
<1>1. contexts' = contexts /\ pipelines' = pipelines
    BY DEF JobCompleted
<1>2. CASE ~Admitted(payload) \/ job = None
    <2>1. links' = links /\ emitted' = emitted
        BY <1>2, Zenon DEF JobCompleted
    <2> QED BY <1>1, <2>1 DEF TracesInv, ContextsAreTyped, EmissionsHold, LinksHold, PipelinesHold
<1>3. CASE Admitted(payload) /\ job # None
    <2>1. emitted' = Append(emitted, trace) /\ links' \in {Record(trace), links}
        BY <1>3, Zenon DEF JobCompleted
    <2>2. context \in Optional(Contexts)
        <3>1. Attempt(payload) \in Attempts
            BY <1>3, PayloadsAssumption DEF Admitted, Identifies, Attempt
        <3> QED BY <3>1 DEF TracesInv, ContextsAreTyped
    <2>3. JobShape(job)
        <3> HIDE DEF context
        <3> QED BY <1>3, <2>2, Projected
    <2> HIDE DEF job, context
    <2>4. EmittedJob(trace) /\ trace.job = job
        BY <2>3, EmittedIsJob
    <2> HIDE DEF trace
    <2>5. Elements(emitted') = Elements(emitted) \cup {trace} /\ emitted' \in Seq(Elements(emitted'))
        BY <2>1, Appended DEF TracesInv, EmissionsHold
    <2>6. EmissionsHold'
        BY <2>4, <2>5 DEF TracesInv, EmissionsHold
    <2>7. LinksHold'
        <3>1. Recorded(links, Elements(emitted))
            BY DEF TracesInv, LinksHold
        <3> DEFINE upserted == {row \in links : ~SameJob(row, trace.job)} \cup {LinkRow(trace)}
        <3>2. links' = links \/ links' = upserted
            BY <2>1 DEF Record
        <3>3. Recorded(links, Elements(emitted) \cup {trace}) /\ Recorded(upserted, Elements(emitted) \cup {trace})
            BY <3>1, RecordedAgain
        <3> HIDE DEF upserted
        <3>4. Recorded(links', Elements(emitted) \cup {trace})
            BY <3>2, <3>3
        <3> QED BY <2>5, <3>4 DEF LinksHold
    <2>8. PipelinesHold'
        <3>1. \A run \in Elements(pipelines) : Mirrored(run, Elements(emitted'))
            BY <2>5 DEF TracesInv, PipelinesHold, Mirrored
        <3> QED BY <1>1, <3>1 DEF TracesInv, PipelinesHold
    <2>9. ContextsAreTyped'
        BY <1>1 DEF TracesInv, ContextsAreTyped
    <2> QED BY <2>6, <2>7, <2>8, <2>9 DEF TracesInv
<1> QED BY <1>2, <1>3

\* A run is emitted from links of its own attempt, one for each of its jobs.
LEMMA EmittedFromLinks ==
    ASSUME TracesInv, NEW attempt, NEW context, context.attempt = attempt, NEW summary,
           PipelineRun(context, summary, Listed(attempt)) # None
    PROVE  LET trace == EmitPipeline(PipelineRun(context, summary, Listed(attempt)))
           IN RunTells(trace) /\ Mirrored(trace, Elements(emitted))
<1> DEFINE jobs == Listed(attempt)
           rows == {row \in links : row.attempt = attempt}
           run == PipelineRun(context, summary, jobs)
           trace == EmitPipeline(run)
           T == Elements(emitted)
<1>1. (\A t \in T : EmittedJob(t)) /\ Recorded(links, T)
    BY DEF TracesInv, EmissionsHold, LinksHold
<1> HIDE DEF T
<1>2. \A row \in links : RowShape(row)
    BY <1>1, RowsAreShaped
<1>3. Lists(jobs, rows)
    BY <1>1, <1>2, JobsAreListed DEF Recorded
<1> HIDE DEF jobs
<1>4. /\ Len(jobs) \in 1 .. MaxPipelineJobSpans
      /\ run.attempt = attempt /\ run.jobs = jobs
      /\ run.conclusion = AggregateConclusion(jobs) /\ run.timing = AggregateTiming(jobs)
    BY DEF PipelineRun, jobs
<1> HIDE DEF run
<1>5. ASSUME NEW k \in 1 .. Len(jobs) PROVE LinkedShape(jobs[k])
    <2>1. PICK row \in rows : jobs[k] = Linked(row)
        BY <1>3 DEF Lists
    <2>2. RowShape(row)
        BY <1>2
    <2> QED BY <2>1, <2>2 DEF LinkedShape, Linked, RowShape
<1>6. RunShape(run)
    BY <1>3, <1>4, <1>5 DEF RunShape, Lists
<1>7. RunTells(trace) /\ Mirrors(trace, run)
    BY <1>6, PipelineTells
<1> HIDE DEF trace
<1>8. ASSUME NEW k \in 1 .. Len(trace.tasks)
      PROVE  \E t \in T : MirroredBy(trace.tasks[k], trace, trace.links[k], t)
    <2>1. k \in 1 .. Len(jobs) /\ Len(run.jobs) = Len(jobs) /\ run.jobs[k] = jobs[k]
        BY <1>4, <1>7, <1>8 DEF Mirrors
    <2>2. PICK row \in rows : jobs[k] = Linked(row)
        BY <1>3, <2>1 DEF Lists
    <2>3. PICK t \in T : row = LinkRow(t)
        BY <1>1 DEF Recorded
    <2> DEFINE id == t.root.id[1]
    <2>4. JobShape(t.job) /\ t = Emit(id, t.job)
        BY <1>1 DEF EmittedJob
    <2> HIDE DEF id
    <2>5. t.job.attempt = run.attempt /\ trace.attempt = run.attempt
        <3>1. row.attempt = t.job.attempt
            BY <2>3 DEF LinkRow
        <3> QED BY <1>4, <1>7, <3>1 DEF Mirrors
    <2> DEFINE linked == Linked(LinkRow(t))
    <2>6. linked = jobs[k]
        BY <2>2, <2>3
    <2> HIDE DEF linked
    <2>7. /\ trace.tasks[k].start = linked.timing.start /\ trace.tasks[k].end = linked.timing.end
          /\ trace.tasks[k].attributes = TaskAttributes(run, linked) /\ trace.links[k] = linked.identity
        BY <1>7, <2>1, <2>6 DEF Mirrors
    <2> DEFINE task == trace.tasks[k]
               made == Emit(id, t.job)
    <2>8. linked = Linked(LinkRow(made))
        BY <2>4 DEF linked
    <2> HIDE DEF task
    <2>9. /\ task.start = Linked(LinkRow(Emit(id, t.job))).timing.start
          /\ task.end = Linked(LinkRow(Emit(id, t.job))).timing.end
          /\ task.attributes = TaskAttributes(run, Linked(LinkRow(Emit(id, t.job))))
        BY <2>7, <2>8, Zenon DEF task
    <2>10. MirroredBy(task, trace, Linked(LinkRow(Emit(id, t.job))).identity, Emit(id, t.job))
        BY <2>4, <2>5, <2>9, LinkIsMirrored
    <2>11. MirroredBy(task, trace, trace.links[k], t)
        BY <2>4, <2>7, <2>8, <2>10
    <2> QED BY <2>11 DEF task
<1> QED BY <1>7, <1>8 DEF Mirrored, T, trace, run, jobs

LEMMA RunKeeps ==
    ASSUME TracesInv, NEW run \in RunDeliveries, NEW completed \in BOOLEAN, RunDelivered(run, completed)
    PROVE  TracesInv'
<1> DEFINE context == RunContext(run)
           pipeline == PipelineRun(context, RunSummary(run), Listed(Attempt(run)))
           trace == EmitPipeline(pipeline)
<1>1. links' = links /\ emitted' = emitted
    BY DEF RunDelivered
<1>2. EmissionsHold' /\ LinksHold'
    BY <1>1 DEF TracesInv, EmissionsHold, LinksHold
<1>3. CASE context = None
    <2>1. contexts' = contexts /\ pipelines' = pipelines
        BY <1>3, Zenon DEF RunDelivered
    <2> QED BY <1>1, <1>2, <2>1 DEF TracesInv, ContextsAreTyped, PipelinesHold
<1>4. CASE context # None
    <2>1. /\ contexts' = [contexts EXCEPT ![Attempt(run)] = context]
          /\ pipelines' = IF completed /\ pipeline # None THEN Append(pipelines, trace) ELSE pipelines
        BY <1>4, Zenon DEF RunDelivered
    <2>2. context \in Contexts /\ Attempt(run) \in Attempts /\ context.attempt = Attempt(run)
        BY <1>4, ContextIsTyped
    <2> HIDE DEF context
    <2>3. ContextsAreTyped'
        BY <2>1, <2>2 DEF TracesInv, ContextsAreTyped, Optional
    <2>4. CASE ~(completed /\ pipeline # None)
        <3>1. pipelines' = pipelines
            BY <2>1, <2>4
        <3> QED BY <1>1, <1>2, <2>3, <3>1 DEF TracesInv, PipelinesHold
    <2>5. CASE completed /\ pipeline # None
        <3>1. pipelines' = Append(pipelines, trace)
            BY <2>1, <2>5
        <3>2. RunTells(trace) /\ Mirrored(trace, Elements(emitted))
            BY <2>2, <2>5, EmittedFromLinks
        <3> HIDE DEF trace
        <3>3. Elements(pipelines') = Elements(pipelines) \cup {trace} /\ pipelines' \in Seq(Elements(pipelines'))
            BY <3>1, Appended DEF TracesInv, PipelinesHold
        <3>4. PipelinesHold'
            BY <1>1, <3>2, <3>3 DEF TracesInv, PipelinesHold
        <3> QED BY <1>2, <2>3, <3>4 DEF TracesInv
    <2> QED BY <2>4, <2>5
<1> QED BY <1>3, <1>4

LEMMA TracesStep == TracesInv /\ [Next]_vars => TracesInv'
<1> SUFFICES ASSUME TracesInv, [Next]_vars PROVE TracesInv'
    OBVIOUS
<1>1. ASSUME NEW payload \in JobDeliveries, JobCompleted(payload) PROVE TracesInv'
    BY <1>1, JobKeeps
<1>2. ASSUME NEW run \in RunDeliveries, NEW completed \in BOOLEAN, RunDelivered(run, completed) PROVE TracesInv'
    BY <1>2, RunKeeps
<1>3. CASE UNCHANGED vars
    BY <1>3 DEF TracesInv, ContextsAreTyped, EmissionsHold, LinksHold, PipelinesHold, vars
<1>4. CASE Over
    BY <1>3, <1>4 DEF Over
<1> QED BY <1>1, <1>2, <1>3, <1>4 DEF Next

\* The contexts of the runs, the traces, the links and the runs' traces stay what
\* the handlers make of well-formed payloads: every link is the row of a trace that
\* was emitted for its job, and every task of a run was read from such a row.
THEOREM TracesAreWellFormed == Spec => []TracesInv
<1>1. Init => TracesInv
    BY TracesInit
<1>2. TracesInv /\ [Next]_vars => TracesInv'
    BY TracesStep
<1> QED BY <1>1, <1>2, PTL DEF Spec

LEMMA FailuresFollow == TracesInv => FailuresAreToldOnce
<1> SUFFICES ASSUME TracesInv PROVE FailuresAreToldOnce
    OBVIOUS
<1> DEFINE T == Elements(emitted)
           P == Elements(pipelines)
<1>1. (\A trace \in T : EmittedJob(trace)) /\ \A run \in P : RunTells(run)
    BY DEF TracesInv, EmissionsHold, PipelinesHold
<1> HIDE DEF T, P
<1>2. ASSUME NEW trace \in T
      PROVE  /\ JobIsToldOnce(trace)
             /\ \A report \in Elements(trace.errors) : report.fingerprint[1] \in {"job", "step"}
    <2> DEFINE id == trace.root.id[1]
               job == trace.job
    <2>1. JobShape(job) /\ trace = Emit(id, job)
        BY <1>1 DEF EmittedJob
    <2> HIDE DEF id, job
    <2> QED BY <2>1, JobTraceTells
<1>3. ASSUME NEW run \in P
      PROVE  /\ TasksAreToldOnce(run)
             /\ \A report \in Elements(run.errors) : report.fingerprint[1] = "pipeline-task"
    BY <1>1 DEF RunTells
<1>4. ASSUME NEW run \in P, NEW trace \in T PROVE Fingerprints(run.errors) \cap Fingerprints(trace.errors) = {}
    <2>1. \A fingerprint \in Fingerprints(run.errors) : fingerprint[1] = "pipeline-task"
        BY <1>3 DEF Fingerprints
    <2>2. \A fingerprint \in Fingerprints(trace.errors) : fingerprint[1] \in {"job", "step"}
        BY <1>2 DEF Fingerprints
    <2> QED BY <2>1, <2>2
<1> QED BY <1>2, <1>3, <1>4 DEF FailuresAreToldOnce, T, P

\* No failure is silent and none is told twice, whatever the deliveries, the names
\* they carry, the answers about a branch's protection and the limits are, but for two
\* kinds of job: a job trace reports nothing only if nothing failed, if the job is
\* confidently not required, or if it is required but crowded out of the checks by
\* names that repeat (CrowdedOut, against the source's comment).  Each report says
\* what its span shows, the root reports only what no step explains, and a run's
\* reports are never grouped with those of its jobs.
THEOREM FailuresAreTold == Spec => []FailuresAreToldOnce
<1>1. TracesInv => FailuresAreToldOnce
    BY FailuresFollow
<1> QED BY <1>1, TracesAreWellFormed, PTL

LEMMA MirrorsFollow == TracesInv => PipelineMirrorsJobs
<1> SUFFICES ASSUME TracesInv PROVE PipelineMirrorsJobs
    OBVIOUS
<1> DEFINE T == Elements(emitted)
           P == Elements(pipelines)
<1>1. (\A trace \in T : EmittedJob(trace)) /\ \A run \in P : RunTells(run) /\ Mirrored(run, T)
    BY DEF TracesInv, EmissionsHold, PipelinesHold
<1> HIDE DEF T, P
<1>2. ASSUME NEW trace \in T PROVE \A span \in Spans(trace) : Nests(span, trace.root)
    <2> DEFINE id == trace.root.id[1]
               job == trace.job
    <2>1. JobShape(job) /\ trace = Emit(id, job)
        BY <1>1 DEF EmittedJob
    <2> HIDE DEF id, job
    <2> QED BY <2>1, JobTraceTells
<1>3. ASSUME NEW run \in P
      PROVE  /\ \A k \in 1 .. Len(run.tasks) :
                    /\ Nests(run.tasks[k], run.root)
                    /\ \E trace \in T : MirroredBy(run.tasks[k], run, run.links[k], trace)
             /\ \A k, l \in 1 .. Len(run.tasks) :
                    run.tasks[k].attributes.task_run = run.tasks[l].attributes.task_run => k = l
             /\ run.root.status = "Error" <=> run.errors # <<>>
    BY <1>1 DEF RunTells, Mirrored
<1> QED BY <1>2, <1>3 DEF PipelineMirrorsJobs, T, P

\* A run's trace says of each of its jobs what the trace says that was emitted for
\* the job and that the task links to, and of no job twice; every span lies inside
\* its parent, and the run fails exactly when a task of it does: also with jobs that
\* complete again between the runs, links that are not recorded, moments that cannot
\* be stored and runs with too many jobs.
THEOREM PipelinesMirror == Spec => []PipelineMirrorsJobs
<1>1. TracesInv => PipelineMirrorsJobs
    BY MirrorsFollow
<1> QED BY <1>1, TracesAreWellFormed, PTL

===============================================================================
