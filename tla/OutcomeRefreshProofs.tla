------------------------- MODULE OutcomeRefreshProofs -------------------------
(***************************************************************************)
(* Proofs about OutcomeRefresh, for every set of writers, every calendar   *)
(* length, every list of producers and horizons and every bound on faults. *)
(*                                                                         *)
(* Types, registration and hindsight hold however many refreshes run at    *)
(* once.  Distinct keys, durable beliefs, the freezing of a damaged file   *)
(* and the refinement of ClaimBook need one refresh at a time, the         *)
(* assumption outcomes/store.py states and nothing enforces.               *)
(***************************************************************************)
EXTENDS OutcomeRefresh, CommonProofs

-----------------------------------------------------------------------------
(* Days.                                                                   *)

(* Earliest returns the least of some days (the reference bar).            *)
LEMMA EarliestProperty ==
    ASSUME NEW T \in SUBSET Days, T # {}
    PROVE  Earliest(T) \in T /\ \A e \in T : Earliest(T) <= e
<1>1. T \in SUBSET Nat
  BY ConstantsAssumption DEF Days
<1>2. \E d \in T : \A e \in T : d <= e
  BY <1>1, LeastExists
<1>3. QED
  BY <1>2, Zenon DEF Earliest

(* Days are bounded, so a set of them also has a greatest.                 *)
LEMMA LatestProperty ==
    ASSUME NEW T \in SUBSET Days, T # {}
    PROVE  Latest(T) \in T /\ \A e \in T : e <= Latest(T)
<1> DEFINE U == {MaxDay - d : d \in T}
<1>1. MaxDay \in Nat
  BY ConstantsAssumption
<1>2. \A d \in T : MaxDay - d \in Nat
  BY <1>1 DEF Days
<1>3. U \in SUBSET Nat /\ U # {}
  BY <1>2
<1>4. PICK u \in U : \A v \in U : u <= v
  BY <1>3, LeastExists, Zenon
<1>5. PICK d \in T : u = MaxDay - d
  BY <1>4
<1>6. \A e \in T : e <= d
  BY <1>1, <1>4, <1>5 DEF Days
<1>7. QED
  BY <1>6, Zenon DEF Latest

-----------------------------------------------------------------------------
(* Bars and snapshots.                                                     *)

(* A series is a function from some of the days to contents.               *)
LEMMA BarsProperty ==
    ASSUME NEW b
    PROVE  b \in Bars <=> DOMAIN b \in SUBSET Days /\ b \in [DOMAIN b -> Contents]
BY DEF Bars

(* Part of a series is a series (what get_bars keeps, what a measurement   *)
(* consumes).                                                              *)
LEMMA RestrictedType ==
    ASSUME NEW b \in Bars, NEW D, D \subseteq DOMAIN b
    PROVE  Restricted(b, D) \in Bars /\ DOMAIN Restricted(b, D) = D
<1>1. DOMAIN b \in SUBSET Days /\ b \in [DOMAIN b -> Contents]
  BY BarsProperty
<1>2. D \in SUBSET Days /\ Restricted(b, D) \in [D -> Contents]
  BY <1>1 DEF Restricted
<1>3. QED
  BY <1>2 DEF Bars, Restricted

(* A published or restated bar leaves the vendor with a series.            *)
LEMMA WithType ==
    ASSUME NEW b \in Bars, NEW d \in Days, NEW c \in Contents
    PROVE  With(b, d, c) \in Bars
<1>1. DOMAIN b \in SUBSET Days /\ b \in [DOMAIN b -> Contents]
  BY BarsProperty
<1>2. /\ DOMAIN b \cup {d} \in SUBSET Days
      /\ With(b, d, c) \in [DOMAIN b \cup {d} -> Contents]
  BY <1>1 DEF With
<1>3. QED
  BY <1>2 DEF Bars

(* The vendor may have nothing to serve.                                   *)
LEMMA NoBarsType == <<>> \in Bars
<1>1. <<>> \in [{} -> Contents]
  OBVIOUS
<1>2. QED
  BY <1>1 DEF Bars

(* A writer that is not refreshing holds an empty snapshot.                *)
LEMMA NoSnapshotType == NoSnapshot \in Snapshots
<1>1. 0 \in Days
  BY ConstantsAssumption DEF Days
<1>2. (CHOOSE x \in Sources : TRUE) \in Sources
  BY ConstantsAssumption
<1>3. QED
  BY <1>1, <1>2, NoBarsType DEF NoSnapshot, Snapshots

(* What is fetched is bars, opened no later than the snapshot's clock.     *)
LEMMA FetchedProperties ==
    ASSUME NEW bars \in Bars, NEW built_at \in Days, NEW now
    PROVE  /\ Fetched(bars, built_at, now) \in Bars
           /\ \A d \in DOMAIN Fetched(bars, built_at, now) : d <= built_at
<1> DEFINE days == {d \in DOMAIN bars :
                      d < now /\ d <= built_at /\ built_at <= d + WindowDays}
<1>1. Fetched(bars, built_at, now) = Restricted(bars, days)
  BY DEF Fetched
<1>2. days \in SUBSET DOMAIN bars /\ \A d \in days : d <= built_at
  OBVIOUS
<1> HIDE DEF days
<1>3. Restricted(bars, days) \in Bars
  BY <1>2, RestrictedType
<1>4. DOMAIN Restricted(bars, days) = days
  BY DEF Restricted
<1>5. QED
  BY <1>1, <1>2, <1>3, <1>4

-----------------------------------------------------------------------------
(* Claims.                                                                 *)

(* One claim per producer, or none: an artifact each, with its own key,    *)
(* about the last bar and stamped with the snapshot's clock.               *)
LEMMA CurrentArtifactsType ==
    ASSUME NEW s \in Snapshots
    PROVE  CurrentArtifacts(s) \in Seq(Artifacts)
<1>1. s.built_at \in Days /\ s.source \in Sources /\ s.bars \in Bars
  BY DEF Snapshots
<1>2. DOMAIN s.bars \in SUBSET Days /\ s.bars \in [DOMAIN s.bars -> Contents]
  BY <1>1, BarsProperty
<1>3. CASE DOMAIN s.bars = {}
  <2>1. CurrentArtifacts(s) = <<>>
    BY <1>3 DEF CurrentArtifacts
  <2>2. QED
    BY <2>1
<1>4. CASE DOMAIN s.bars # {}
  <2> DEFINE tail == Latest(DOMAIN s.bars)
  <2> DEFINE claim(i) ==
            [key         |-> <<Producers[i], tail>>,
             producer    |-> Producers[i],
             timestamp   |-> tail,
             state       |-> Classify(Producers[i], s.bars),
             source      |-> s.source,
             fingerprint |-> s.bars[tail],
             data_cutoff |-> tail,
             recorded_at |-> s.built_at]
  <2>1. tail \in DOMAIN s.bars /\ tail \in Days
    BY <1>2, <1>4, LatestProperty
  <2>2. s.bars[tail] \in Contents
    BY <1>2, <2>1
  <2>3. Producers \in Seq(STRING) /\ DOMAIN Producers = 1 .. Len(Producers)
    BY ConstantsAssumption
  <2>4. ASSUME NEW i \in DOMAIN Producers
        PROVE  claim(i) \in Artifacts
    <3>1. Producers[i] \in ProducerSet
      BY DEF ProducerSet
    <3>2. Classify(Producers[i], s.bars) \in States
      BY <1>1, ClassifyAssumption
    <3> HIDE DEF tail
    <3>3. <<Producers[i], tail>> \in ArtifactKeys
      BY <2>1, <3>1 DEF ArtifactKeys
    <3>4. QED
      BY <1>1, <2>1, <2>2, <3>1, <3>2, <3>3 DEF Artifacts
  <2>5. CurrentArtifacts(s) = [i \in DOMAIN Producers |-> claim(i)]
    BY <1>4 DEF CurrentArtifacts
  <2> HIDE DEF claim, tail
  <2>6. CurrentArtifacts(s) \in [1 .. Len(Producers) -> Artifacts]
    BY <2>3, <2>4, <2>5
  <2>7. Len(Producers) \in Nat
    BY <2>3
  <2>8. QED
    BY <2>6, <2>7, SeqDef
<1>5. QED
  BY <1>3, <1>4
-----------------------------------------------------------------------------
(* Measurements.                                                           *)

(* A set of days is finite, so the bars of a horizon can be counted.       *)
LEMMA DaysFinite ==
    ASSUME NEW T \in SUBSET Days
    PROVE  IsFiniteSet(T) /\ Cardinality(T) \in Nat
<1>1. MaxDay \in Nat /\ 0 \in Int /\ MaxDay \in Int
  BY ConstantsAssumption
<1>2. IsFiniteSet(0 .. MaxDay)
  BY <1>1, FS_Interval
<1>3. IsFiniteSet(T)
  BY <1>2, FS_Subset DEF Days
<1>4. QED
  BY <1>3, FS_CardinalityType

(* Of a set of days with at least h members, exactly h have rank h or less *)
(* (the measurement takes exactly the bars of its horizon): ranking is one *)
(* to one, so it is onto 1 .. Cardinality.                                 *)
LEMMA FirstDaysCount ==
    ASSUME NEW T \in SUBSET Days, NEW h \in Nat, h <= Cardinality(T)
    PROVE  Cardinality({d \in T : Cardinality({e \in T : e <= d}) <= h}) = h
<1> DEFINE Below(d) == {e \in T : e <= d}
           n == Cardinality(T)
           rank == [d \in T |-> Cardinality(Below(d))]
           first == {d \in T : rank[d] <= h}
           restr == [d \in first |-> rank[d]]
<1>1. IsFiniteSet(T) /\ n \in Nat
  BY DaysFinite
<1>2. \A d \in T : d \in Nat
  BY ConstantsAssumption DEF Days
<1>3. ASSUME NEW d \in T
      PROVE  IsFiniteSet(Below(d)) /\ rank[d] \in 1 .. n
  <2>1. Below(d) \in SUBSET T /\ Below(d) \in SUBSET Days /\ d \in Below(d)
    BY <1>2
  <2>2. IsFiniteSet(Below(d)) /\ Cardinality(Below(d)) \in Nat
    BY <2>1, DaysFinite
  <2>3. Cardinality(Below(d)) <= n
    BY <1>1, <2>1, FS_Subset
  <2>4. Cardinality(Below(d)) # 0
    BY <2>1, <2>2, FS_EmptySet
  <2>5. QED
    BY <1>1, <2>2, <2>3, <2>4
<1>4. ASSUME NEW d \in T, NEW f \in T, d < f
      PROVE  rank[d] # rank[f]
  <2>1. Below(d) \in SUBSET Below(f)
    BY <1>2, <1>4
  <2>2. f \in Below(f) /\ f \notin Below(d)
    BY <1>2, <1>4
  <2>3. Below(d) # Below(f)
    BY <2>2
  <2>4. Cardinality(Below(d)) # Cardinality(Below(f))
    BY <1>3, <2>1, <2>3, FS_Subset
  <2>5. QED
    BY <2>4
<1>5. rank \in Injection(T, 1 .. n)
  <2>1. rank \in [T -> 1 .. n]
    BY <1>3
  <2>2. ASSUME NEW d \in T, NEW f \in T, rank[d] = rank[f]
        PROVE  d = f
    <3>1. d < f \/ f < d \/ d = f
      BY <1>2
    <3> HIDE DEF rank
    <3>2. QED
      BY <1>4, <2>2, <3>1
  <2> HIDE DEF rank
  <2>3. QED
    BY <2>1, <2>2 DEF Injection, IsInjective
<1>6. IsFiniteSet(1 .. n) /\ Cardinality(1 .. n) = n
  <2>1. 1 \in Int /\ n \in Int
    BY <1>1
  <2> HIDE DEF n
  <2>2. Cardinality(1 .. n) = IF 1 > n THEN 0 ELSE n - 1 + 1
    BY <2>1, FS_Interval
  <2>3. IsFiniteSet(1 .. n)
    BY <2>1, FS_Interval
  <2>4. QED
    BY <1>1, <2>2, <2>3
<1>7. rank \in Surjection(T, 1 .. n)
  <2> HIDE DEF rank
  <2>1. QED
    BY <1>5, <1>6, FS_Injection
<1>8. restr \in Bijection(first, 1 .. h)
  <2> HIDE DEF rank
  <2>1. \A d \in T : rank[d] \in 1 .. n
    BY <1>5 DEF Injection, IsInjective
  <2>2. restr \in [first -> 1 .. h]
    BY <1>1, <2>1
  <2>3. \A d, f \in first : restr[d] = restr[f] => d = f
    BY <1>5 DEF Injection, IsInjective
  <2>4. ASSUME NEW i \in 1 .. h
        PROVE  \E d \in first : restr[d] = i
    <3>1. i \in 1 .. n
      BY <1>1
    <3>2. PICK d \in T : rank[d] = i
      BY <1>7, <3>1 DEF Surjection
    <3>3. QED
      BY <3>2
  <2> HIDE DEF restr, first
  <2>5. QED
    BY <2>2, <2>3, <2>4 DEF Bijection, Injection, IsInjective, Surjection
<1>9. IsFiniteSet(first)
  <2>1. first \in SUBSET Days
    BY DEF Days
  <2>2. QED
    BY <2>1, DaysFinite
<1>10. Cardinality(1 .. h) = Cardinality(first)
  <2> HIDE DEF restr, first
  <2>1. ExistsBijection(first, 1 .. h)
    BY <1>8 DEF ExistsBijection
  <2>2. QED
    BY <1>9, <2>1, FS_Bijection
<1>11. Cardinality(1 .. h) = h
  <2>1. Cardinality(1 .. h) = IF 1 > h THEN 0 ELSE h - 1 + 1
    BY FS_Interval
  <2>2. QED
    BY <2>1
<1>12. first = {d \in T : Cardinality({e \in T : e <= d}) <= h}
  OBVIOUS
<1>13. QED
  BY <1>10, <1>11, <1>12
(* A complete measurement is an outcome: it rests on exactly its horizon   *)
(* of bars, all after the claimed one, from its reference to its future.   *)
LEMMA OutcomeOfProperties ==
    ASSUME NEW s \in Snapshots, NEW a \in Artifacts, NEW h \in HorizonSet,
           IsComplete(s.bars, a.timestamp, h)
    PROVE  /\ OutcomeOf(a, s, h) \in Outcomes
           /\ OutcomeOf(a, s, h).key = <<a.key, h>>
           /\ OutcomeOf(a, s, h).artifact = a
           /\ OutcomeOf(a, s, h).horizon = h
           /\ OutcomeOf(a, s, h).evaluated_at = s.built_at
           /\ Cardinality(DOMAIN OutcomeOf(a, s, h).consumed) = h
           /\ OutcomeOf(a, s, h).reference \in DOMAIN OutcomeOf(a, s, h).consumed
           /\ OutcomeOf(a, s, h).future \in DOMAIN OutcomeOf(a, s, h).consumed
           /\ \A d \in DOMAIN OutcomeOf(a, s, h).consumed :
                 /\ a.timestamp < d
                 /\ OutcomeOf(a, s, h).reference <= d
                 /\ d <= OutcomeOf(a, s, h).future
<1> DEFINE later == Later(s.bars, a.timestamp)
           days  == HorizonDays(s.bars, a.timestamp, h)
           o     == OutcomeOf(a, s, h)
<1>1. s.bars \in Bars /\ s.built_at \in Days
  BY DEF Snapshots
<1>2. DOMAIN s.bars \in SUBSET Days
  BY <1>1, BarsProperty
<1>3. a.key \in ArtifactKeys /\ a.timestamp \in Days
  BY DEF Artifacts
<1>4. h \in Nat \ {0}
  <2>1. Horizons \in Seq(Nat \ {0})
    BY ConstantsAssumption
  <2>2. QED
    BY <2>1 DEF HorizonSet
<1>5. later \in SUBSET Days /\ later \in SUBSET DOMAIN s.bars /\ \A d \in later : d > a.timestamp
  BY <1>2 DEF Later
<1>6. days = {d \in later : Cardinality({e \in later : e <= d}) <= h}
  BY DEF HorizonDays
<1>7. Cardinality(later) \in Nat /\ h <= Cardinality(later)
  BY <1>4, <1>5, DaysFinite DEF IsComplete
<1>8. Cardinality(days) = h
  <2> HIDE DEF later, days
  <2>1. QED
    BY <1>4, <1>5, <1>6, <1>7, FirstDaysCount
<1>9. days \in SUBSET Days /\ days # {} /\ days \subseteq DOMAIN s.bars
  <2>1. days \subseteq later
    BY <1>6
  <2> HIDE DEF later, days
  <2>2. days # {}
    BY <1>4, <1>8, FS_EmptySet
  <2>3. QED
    BY <1>5, <2>1, <2>2
<1>10. /\ Earliest(days) \in days /\ \A d \in days : Earliest(days) <= d
       /\ Latest(days) \in days /\ \A d \in days : d <= Latest(days)
  <2> HIDE DEF days
  <2>1. QED
    BY <1>9, EarliestProperty, LatestProperty
<1>11. Restricted(s.bars, days) \in Bars /\ DOMAIN Restricted(s.bars, days) = days
  <2> HIDE DEF days
  <2>1. QED
    BY <1>1, <1>9, RestrictedType
<1>12. o = [key          |-> <<a.key, h>>,
            artifact     |-> a,
            horizon      |-> h,
            evaluated_at |-> s.built_at,
            reference    |-> Earliest(days),
            future       |-> Latest(days),
            consumed     |-> Restricted(s.bars, days)]
  BY DEF OutcomeOf
<1>13. \A d \in days : a.timestamp < d
  BY <1>3, <1>5, <1>6 DEF Days
<1> HIDE DEF days, later, o
<1>14. o \in Outcomes
  <2>1. <<a.key, h>> \in OutcomeKeys
    BY <1>3 DEF OutcomeKeys
  <2>2. Earliest(days) \in Days /\ Latest(days) \in Days
    BY <1>9, <1>10
  <2>3. QED
    BY <1>1, <1>11, <1>12, <2>1, <2>2 DEF Outcomes
<1>15. /\ o.key = <<a.key, h>> /\ o.artifact = a /\ o.horizon = h
       /\ o.evaluated_at = s.built_at /\ o.reference = Earliest(days)
       /\ o.future = Latest(days) /\ DOMAIN o.consumed = days
  BY <1>11, <1>12
<1>16. QED
  BY <1>8, <1>10, <1>13, <1>14, <1>15 DEF o

-----------------------------------------------------------------------------
(* Claims offered and tracked, and positions.                              *)

(* The measuring loop moves from a position to a position.                 *)
LEMMA NextItemType ==
    ASSUME NEW p \in (Nat \ {0}) \X DOMAIN Horizons
    PROVE  NextItem(p) \in (Nat \ {0}) \X DOMAIN Horizons
<1>1. Horizons \in Seq(Nat \ {0}) /\ Horizons # <<>>
  BY ConstantsAssumption
<1>2. DOMAIN Horizons = 1 .. Len(Horizons) /\ Len(Horizons) \in Nat \ {0}
  BY <1>1
<1>3. PICK i \in Nat \ {0}, j \in DOMAIN Horizons : p = <<i, j>>
  OBVIOUS
<1>4. p[1] = i /\ p[2] = j
  BY <1>3
<1> HIDE DEF NextItem
<1>5. <<p[1], p[2] + 1>> \in (Nat \ {0}) \X DOMAIN Horizons \/ ~(p[2] < Len(Horizons))
  BY <1>2, <1>4
<1>6. <<p[1] + 1, 1>> \in (Nat \ {0}) \X DOMAIN Horizons
  BY <1>2, <1>4
<1>7. QED
  BY <1>5, <1>6 DEF NextItem

(* Every claim has a first horizon to be measured under.                   *)
LEMMA FirstPositionType ==
    ASSUME NEW i \in Nat \ {0}
    PROVE  <<i, 1>> \in (Nat \ {0}) \X DOMAIN Horizons
<1>1. Horizons \in Seq(Nat \ {0}) /\ Horizons # <<>>
  BY ConstantsAssumption
<1>2. 1 \in DOMAIN Horizons
  BY <1>1
<1>3. QED
  BY <1>2

(* The claim at hand is an artifact, offered under its own key, its        *)
(* content unchanged but for the registration clock of a held row; and     *)
(* what the refresh tracks grows by it at most.                            *)
LEMMA OfferedProperties ==
    ASSUME TypeOK, NEW w \in Writers,
           at[w][1] <= Len(CurrentArtifacts(snap[w]))
    PROVE  /\ Claim(w) \in Artifacts
           /\ Claim(w) \in RowSet([rows |-> CurrentArtifacts(snap[w])])
           /\ Offered(w) \in Artifacts
           /\ Offered(w).key = Claim(w).key
           /\ Tracked(w) \in Seq(Artifacts)
           /\ RowSet([rows |-> Tracked(w)])
                 \subseteq RowSet([rows |-> held[w]]) \cup {Offered(w)}
<1> DEFINE c == Claim(w)
           H == HeldBy(w, c.key)
           a == CHOOSE x \in H : TRUE
<1>1. /\ snap[w] \in Snapshots /\ held[w] \in Seq(Artifacts)
      /\ at[w] \in (Nat \ {0}) \X DOMAIN Horizons
  BY DEF TypeOK
<1>2. CurrentArtifacts(snap[w]) \in Seq(Artifacts)
  BY <1>1, CurrentArtifactsType
<1>3. at[w][1] \in DOMAIN CurrentArtifacts(snap[w])
  BY <1>1, <1>2
<1>4. c \in Artifacts /\ c \in RowSet([rows |-> CurrentArtifacts(snap[w])])
  BY <1>2, <1>3 DEF Claim, RowSet
<1>5. H \subseteq Artifacts
  BY <1>1 DEF HeldBy, RowSet
<1> HIDE DEF c
<1>6. Offered(w) = IF H = {} THEN c ELSE [c EXCEPT !.recorded_at = a.recorded_at]
  BY DEF Offered, c
<1>7. Offered(w) \in Artifacts /\ Offered(w).key = c.key
  <2>1. CASE H = {}
    BY <1>4, <1>6, <2>1
  <2>2. CASE H # {}
    <3> HIDE DEF H
    <3>1. a \in Artifacts
      BY <1>5, <2>2
    <3> HIDE DEF a
    <3>2. a.recorded_at \in Days
      BY <3>1 DEF Artifacts
    <3>3. QED
      BY <1>4, <1>6, <2>2, <3>2 DEF Artifacts
  <2>3. QED
    BY <2>1, <2>2
<1>8. Tracked(w) = IF H = {} THEN Append(held[w], Offered(w)) ELSE held[w]
  BY DEF Tracked, c
<1>9. /\ Tracked(w) \in Seq(Artifacts)
      /\ RowSet([rows |-> Tracked(w)])
            \subseteq RowSet([rows |-> held[w]]) \cup {Offered(w)}
  <2>1. CASE H = {}
    <3>1. Tracked(w) = Append(held[w], Offered(w))
      BY <1>8, <2>1
    <3>2. /\ Append(held[w], Offered(w)) \in Seq(Artifacts)
          /\ Len(Append(held[w], Offered(w))) = Len(held[w]) + 1
          /\ \A i \in 1 .. Len(held[w]) : Append(held[w], Offered(w))[i] = held[w][i]
          /\ Append(held[w], Offered(w))[Len(held[w]) + 1] = Offered(w)
      BY <1>1, <1>7, AppendProperties
    <3>3. QED
      BY <1>1, <3>1, <3>2 DEF RowSet
  <2>2. CASE H # {}
    BY <1>1, <1>8, <2>2
  <2>3. QED
    BY <2>1, <2>2
<1>10. QED
  BY <1>4, <1>7, <1>9 DEF c
-----------------------------------------------------------------------------
(* Type correctness.                                                       *)
(*                                                                         *)
(* TypeOK is not inductive: an append needs the line it writes to be an    *)
(* artifact, or an outcome, and the position it moves on from to be that   *)
(* of a claim.                                                             *)

Fits(w) ==
    /\ pc[w] = "appending_artifact" =>
          /\ at[w][1] <= Len(CurrentArtifacts(snap[w]))
          /\ line[w] = Offered(w)
    /\ pc[w] = "appending_outcome" => line[w] \in Outcomes

TypeInv == TypeOK /\ \A w \in Writers : Fits(w)

(* A step of one writer leaves what another one knows alone.               *)
Untouched(w) ==
    \A v \in Writers \ {w} :
        /\ pc'[v] = pc[v] /\ snap'[v] = snap[v] /\ held'[v] = held[v]
        /\ present'[v] = present[v] /\ at'[v] = at[v] /\ line'[v] = line[v]

LocalTypes ==
    /\ pc \in [Writers -> Labels]
    /\ snap \in [Writers -> Snapshots]
    /\ held \in [Writers -> Seq(Artifacts)]
    /\ present \in [Writers -> SUBSET OutcomeKeys]
    /\ at \in [Writers -> (Nat \ {0}) \X DOMAIN Horizons]
    /\ line \in [Writers -> Artifacts \cup Outcomes \cup {NoLine}]

(* A writer's line fits its position whatever another writer does.         *)
LEMMA OthersFit ==
    ASSUME NEW w, Untouched(w), NEW v \in Writers \ {w}, Fits(v)
    PROVE  Fits(v)'
<1>1. /\ pc'[v] = pc[v] /\ snap'[v] = snap[v] /\ held'[v] = held[v]
      /\ at'[v] = at[v] /\ line'[v] = line[v]
  BY DEF Untouched
<1>2. Claim(v)' = Claim(v)
  BY <1>1 DEF Claim
<1>3. HeldBy(v, Claim(v).key)' = HeldBy(v, Claim(v).key)
  BY <1>1, <1>2 DEF HeldBy
<1>4. Offered(v)' = Offered(v)
  BY <1>2, <1>3 DEF Offered
<1>5. QED
  BY <1>1, <1>4 DEF Fits

(* What is left when a refresh ends, however it ends.                      *)
LEMMA StopProperties ==
    ASSUME TypeOK, NEW w \in Writers, Stop(w)
    PROVE  LocalTypes' /\ Untouched(w) /\ Fits(w)' /\ pc'[w] = "idle"
           /\ held'[w] = <<>> /\ present'[w] = {} /\ snap'[w] = NoSnapshot
<1>1. NoSnapshot \in Snapshots
  BY NoSnapshotType
<1>2. <<1, 1>> \in (Nat \ {0}) \X DOMAIN Horizons
  BY FirstPositionType
<1>3. LocalTypes'
  BY <1>1, <1>2 DEF TypeOK, Stop, LocalTypes, Labels
<1>4. Untouched(w)
  BY DEF TypeOK, Stop, Untouched
<1>5. pc'[w] = "idle" /\ held'[w] = <<>> /\ present'[w] = {} /\ snap'[w] = NoSnapshot
  BY DEF TypeOK, Stop
<1>6. Fits(w)'
  BY <1>5 DEF Fits
<1>7. QED
  BY <1>3, <1>4, <1>5, <1>6

(* A fault or an edit takes one from its bound.                            *)
LEMMA SpendType ==
    ASSUME TypeOK, NEW b \in {"edits", "steps", "faults"}, Spend(b)
    PROVE  left' \in Budgets
<1>1. MaxVendorEdits \in Nat /\ MaxClockSteps \in Nat /\ MaxFaults \in Nat
  BY ConstantsAssumption
<1>2. left \in Budgets
  BY DEF TypeOK
<1>3. CASE b = "edits"
  BY <1>1, <1>2, <1>3 DEF Spend, Budgets
<1>4. CASE b = "steps"
  BY <1>1, <1>2, <1>4 DEF Spend, Budgets
<1>5. CASE b = "faults"
  BY <1>1, <1>2, <1>5 DEF Spend, Budgets
<1>6. QED
  BY <1>3, <1>4, <1>5

(* A program that has just started: nobody refreshes, both files are       *)
(* empty.                                                                  *)
LEMMA TypeInit == Init => TypeInv
<1> SUFFICES ASSUME Init PROVE TypeInv
  OBVIOUS
<1>1. 0 \in Days
  BY ConstantsAssumption DEF Days
<1>2. <<1, 1>> \in (Nat \ {0}) \X DOMAIN Horizons
  BY FirstPositionType
<1>3. artifacts \in File(Artifacts) /\ outcomes \in File(Outcomes)
  BY DEF Init, EmptyFile, File, Tails
<1>4. left \in Budgets
  BY ConstantsAssumption DEF Init, Budgets
<1>5. TypeOK
  BY <1>1, <1>2, <1>3, <1>4, NoBarsType, NoSnapshotType DEF Init, TypeOK, Labels
<1>6. \A w \in Writers : Fits(w)
  BY DEF Init, Fits
<1>7. QED
  BY <1>5, <1>6 DEF TypeInv

(* One step of one writer.                                                 *)
LEMMA TypeWriterStep ==
    ASSUME TypeInv, NEW w \in Writers, Begin(w) \/ Step(w) \/ Fault(w)
    PROVE  TypeInv' /\ Untouched(w)
<1>1. TypeOK /\ Fits(w) /\ \A v \in Writers : Fits(v)
  BY DEF TypeInv
<1>2. /\ artifacts \in File(Artifacts) /\ outcomes \in File(Outcomes)
      /\ snap[w] \in Snapshots /\ held[w] \in Seq(Artifacts)
      /\ at[w] \in (Nat \ {0}) \X DOMAIN Horizons /\ left \in Budgets
      /\ clock \in Days /\ upstream \in Bars /\ source \in Sources
  BY <1>1 DEF TypeOK
<1> DEFINE Good ==
             /\ artifacts' \in File(Artifacts) /\ outcomes' \in File(Outcomes)
             /\ market' = market /\ left' \in Budgets
             /\ LocalTypes' /\ Untouched(w) /\ Fits(w)'
<1>3. ASSUME Good PROVE TypeInv' /\ Untouched(w)
  <2>1. TypeOK'
    BY <1>2, <1>3 DEF TypeOK, LocalTypes, market
  <2>2. \A v \in Writers : Fits(v)'
    BY <1>1, <1>3, OthersFit
  <2>3. QED
    BY <1>3, <2>1, <2>2 DEF TypeInv
<1>4. ASSUME Stop(w) PROVE LocalTypes' /\ Untouched(w) /\ Fits(w)'
  BY <1>1, <1>4, StopProperties
<1>5. NextItem(at[w]) \in (Nat \ {0}) \X DOMAIN Horizons
  BY <1>2, NextItemType
<1>6. <<at[w][1] + 1, 1>> \in (Nat \ {0}) \X DOMAIN Horizons
  BY <1>2, FirstPositionType
<1>7. CASE Begin(w)
  <2>1. [built_at |-> clock, source |-> source, bars |-> <<>>] \in Snapshots
    BY <1>2, NoBarsType DEF Snapshots
  <2>2. LocalTypes' /\ Untouched(w)
    BY <1>1, <1>7, <2>1 DEF TypeOK, Begin, Goto, LocalTypes, Untouched, Labels
  <2>3. Fits(w)'
    BY <1>1, <1>7 DEF TypeOK, Begin, Goto, Fits
  <2>4. Good
    BY <1>2, <1>7, <2>2, <2>3 DEF Begin, files, market
  <2>5. QED
    BY <1>3, <2>4
<1>7a. CASE Fetch(w)
  <2> DEFINE fetched == Fetched(upstream, snap[w].built_at, clock)
  <2>1. fetched \in Bars
    BY <1>2, FetchedProperties DEF Snapshots
  <2> HIDE DEF fetched
  <2>2. [snap[w] EXCEPT !.bars = fetched] \in Snapshots
    BY <1>2, <2>1 DEF Snapshots
  <2>3. snap' = [snap EXCEPT ![w] = [snap[w] EXCEPT !.bars = fetched]]
    BY <1>7a DEF Fetch, fetched
  <2>3a. /\ pc' = [pc EXCEPT ![w] = "opening"]
        /\ UNCHANGED <<held, present, at, line>>
    BY <1>7a DEF Fetch, Goto
  <2>4. LocalTypes' /\ Untouched(w)
    BY <1>1, <2>2, <2>3, <2>3a DEF TypeOK, LocalTypes, Untouched, Labels
  <2>5. Fits(w)'
    BY <1>1, <1>7a DEF TypeOK, Fetch, Goto, Fits
  <2>6. Good
    BY <1>2, <1>7a, <2>4, <2>5 DEF Fetch, files, market
  <2>7. QED
    BY <1>3, <2>6
<1>7b. CASE Open(w)
  <2>1. artifacts.rows \in Seq(Artifacts)
    BY <1>2 DEF File
  <2>2. LocalTypes' /\ Untouched(w)
    BY <1>1, <1>7b, <2>1 DEF TypeOK, Open, Goto, LocalTypes, Untouched, Labels
  <2>3. Fits(w)'
    BY <1>1, <1>7b DEF TypeOK, Open, Goto, Fits
  <2>4. Good
    BY <1>2, <1>7b, <2>2, <2>3 DEF Open, files, market
  <2>5. QED
    BY <1>3, <2>4
<1>7c. CASE OpenRaises(w)
  BY <1>2, <1>3, <1>4, <1>7c DEF OpenRaises, files, market
<1>8. CASE OfferNew(w)
  <2>1. at[w][1] <= Len(CurrentArtifacts(snap[w])) /\ Offered(w) \in Artifacts
    BY <1>1, <1>8, OfferedProperties DEF OfferNew, HasClaim
  <2>2. LocalTypes' /\ Untouched(w)
    BY <1>1, <1>8, <2>1 DEF TypeOK, OfferNew, Goto, LocalTypes, Untouched, Labels
  <2>3. Offered(w)' = Offered(w)
    BY <1>8 DEF OfferNew, Offered, Claim, HeldBy
  <2>4. Fits(w)'
    BY <1>1, <1>8, <2>1, <2>3 DEF TypeOK, OfferNew, Goto, Fits
  <2>5. Good
    BY <1>2, <1>8, <2>2, <2>4 DEF OfferNew, files, market
  <2>6. QED
    BY <1>3, <2>5
<1>9. CASE OfferDuplicate(w)
  <2>1. Tracked(w) \in Seq(Artifacts)
    BY <1>1, <1>9, OfferedProperties DEF OfferDuplicate, HasClaim
  <2>2. LocalTypes' /\ Untouched(w)
    BY <1>1, <1>6, <1>9, <2>1
       DEF TypeOK, OfferDuplicate, NextClaim, LocalTypes, Untouched, Labels
  <2>3. Fits(w)'
    BY <1>9 DEF OfferDuplicate, HasClaim, Fits
  <2>4. Good
    BY <1>2, <1>9, <2>2, <2>3 DEF OfferDuplicate, files, market
  <2>5. QED
    BY <1>3, <2>4
<1>10. CASE OfferRaises(w)
  BY <1>2, <1>3, <1>4, <1>10 DEF OfferRaises, files, market
<1>11. CASE AppendArtifact(w)
  <2>1. /\ line[w] \in Artifacts /\ Tracked(w) \in Seq(Artifacts)
    BY <1>1, <1>11, OfferedProperties DEF AppendArtifact, Fits
  <2>2. artifacts' \in File(Artifacts)
    BY <1>2, <1>11, <2>1, AppendedProperties DEF AppendArtifact
  <2>3. LocalTypes' /\ Untouched(w)
    BY <1>1, <1>6, <1>11, <2>1
       DEF TypeOK, AppendArtifact, NextClaim, Goto, LocalTypes, Untouched, Labels
  <2>4. Fits(w)'
    BY <1>1, <1>11 DEF TypeOK, AppendArtifact, Goto, Fits
  <2>5. Good
    BY <1>2, <1>11, <2>2, <2>3, <2>4 DEF AppendArtifact, market
  <2>6. QED
    BY <1>3, <2>5
<1>12. CASE ReadPresent(w)
  <2>1. Keys(outcomes) \subseteq OutcomeKeys
    <3>1. \A i \in DOMAIN outcomes.rows : outcomes.rows[i] \in Outcomes
      BY <1>2 DEF File
    <3>2. \A row \in Outcomes : row.key \in OutcomeKeys
      BY DEF Outcomes
    <3>3. QED
      BY <3>1, <3>2 DEF Keys
  <2>2. <<1, 1>> \in (Nat \ {0}) \X DOMAIN Horizons
    BY FirstPositionType
  <2>3. LocalTypes' /\ Untouched(w)
    BY <1>1, <1>12, <2>1, <2>2
       DEF TypeOK, ReadPresent, Goto, LocalTypes, Untouched, Labels
  <2>4. Fits(w)'
    BY <1>1, <1>12 DEF TypeOK, ReadPresent, Goto, Fits
  <2>5. Good
    BY <1>2, <1>12, <2>3, <2>4 DEF ReadPresent, files, market
  <2>6. QED
    BY <1>3, <2>5
<1>13. CASE ReadPresentRaises(w)
  BY <1>2, <1>3, <1>4, <1>13 DEF ReadPresentRaises, files, market
<1>14. CASE Pass(w)
  <2>1. LocalTypes' /\ Untouched(w)
    BY <1>1, <1>5, <1>14 DEF TypeOK, Pass, LocalTypes, Untouched, Labels
  <2>2. Fits(w)'
    BY <1>14 DEF Pass, HasItem, Fits
  <2>3. Good
    BY <1>2, <1>14, <2>1, <2>2 DEF Pass, files, market
  <2>4. QED
    BY <1>3, <2>3
<1>15. ASSUME HasItem(w), Evaluated(w)
       PROVE  /\ Measured(w) \in Outcomes
              /\ Measured(w).key \in OutcomeKeys
  <2>1. Item(w) \in Artifacts
    BY <1>2, <1>15 DEF HasItem, Item
  <2>2. ItemHorizon(w) \in HorizonSet
    BY <1>2 DEF ItemHorizon, HorizonSet
  <2>3. IsComplete(snap[w].bars, Item(w).timestamp, ItemHorizon(w))
    BY <1>15 DEF Evaluated, Due, IsDue
  <2>4. Measured(w) \in Outcomes
    BY <1>2, <2>1, <2>2, <2>3, OutcomeOfProperties DEF Measured
  <2>5. QED
    BY <2>4 DEF Outcomes
<1>16. CASE Measure(w)
  <2>1. Measured(w) \in Outcomes
    BY <1>15, <1>16 DEF Measure
  <2>2. LocalTypes' /\ Untouched(w)
    BY <1>1, <1>16, <2>1 DEF TypeOK, Measure, Goto, LocalTypes, Untouched, Labels
  <2>3. Fits(w)'
    BY <1>1, <1>16, <2>1 DEF TypeOK, Measure, Goto, Fits
  <2>4. Good
    BY <1>2, <1>16, <2>2, <2>3 DEF Measure, files, market
  <2>5. QED
    BY <1>3, <2>4
<1>17. CASE MeasureDuplicate(w)
  <2>1. Measured(w).key \in OutcomeKeys
    BY <1>15, <1>17 DEF MeasureDuplicate
  <2>2. LocalTypes' /\ Untouched(w)
    BY <1>1, <1>5, <1>17, <2>1
       DEF TypeOK, MeasureDuplicate, LocalTypes, Untouched, Labels
  <2>3. Fits(w)'
    BY <1>17 DEF MeasureDuplicate, HasItem, Fits
  <2>4. Good
    BY <1>2, <1>17, <2>2, <2>3 DEF MeasureDuplicate, files, market
  <2>5. QED
    BY <1>3, <2>4
<1>18. CASE MeasureRaises(w)
  BY <1>2, <1>3, <1>4, <1>18 DEF MeasureRaises, files, market
<1>19. CASE AppendOutcome(w)
  <2>1. line[w] \in Outcomes /\ line[w].key \in OutcomeKeys
    BY <1>1, <1>19 DEF AppendOutcome, Fits, Outcomes
  <2>2. outcomes' \in File(Outcomes)
    BY <1>2, <1>19, <2>1, AppendedProperties DEF AppendOutcome
  <2>3. LocalTypes' /\ Untouched(w)
    BY <1>1, <1>5, <1>19, <2>1
       DEF TypeOK, AppendOutcome, Goto, LocalTypes, Untouched, Labels
  <2>4. Fits(w)'
    BY <1>1, <1>19 DEF TypeOK, AppendOutcome, Goto, Fits
  <2>5. Good
    BY <1>2, <1>19, <2>2, <2>3, <2>4 DEF AppendOutcome, market
  <2>6. QED
    BY <1>3, <2>5
<1>20. CASE Finish(w)
  BY <1>2, <1>3, <1>4, <1>20 DEF Finish, files, market
<1>21. CASE Fault(w)
  <2>1. Stop(w) /\ Spend("faults") /\ UNCHANGED market
    BY <1>21 DEF Fault, ArtifactCutShort, OutcomeCutShort, Killed
  <2>2. left' \in Budgets
    BY <1>1, <2>1, SpendType
  <2>3. artifacts' \in File(Artifacts)
    <3>1. CASE ArtifactCutShort(w)
      <4>1. line[w] \in Artifacts
        BY <1>1, <3>1, OfferedProperties DEF ArtifactCutShort, Fits
      <4>2. QED
        BY <1>2, <3>1, <4>1, CutShortProperties DEF ArtifactCutShort
    <3>2. QED
      BY <1>2, <1>21, <3>1 DEF Fault, OutcomeCutShort, Killed, files
  <2>4. outcomes' \in File(Outcomes)
    <3>1. CASE OutcomeCutShort(w)
      <4>1. line[w] \in Outcomes
        BY <1>1, <3>1 DEF OutcomeCutShort, Fits
      <4>2. QED
        BY <1>2, <3>1, <4>1, CutShortProperties DEF OutcomeCutShort
    <3>2. QED
      BY <1>2, <1>21, <3>1 DEF Fault, ArtifactCutShort, Killed, files
  <2>5. Good
    BY <1>4, <2>1, <2>2, <2>3, <2>4
  <2>6. QED
    BY <1>3, <2>5
<1>22. QED
  BY <1>7, <1>8, <1>9, <1>10, <1>11, <1>12, <1>13, <1>14, <1>16, <1>17, <1>18,
     <1>19, <1>20, <1>21, <1>7a, <1>7b, <1>7c DEF Step

(* One step of the vendor or the clock: no writer notices.                 *)
LEMMA TypeVendorStep ==
    ASSUME TypeInv, Vendor
    PROVE  TypeInv' /\ UNCHANGED <<files, local>>
<1>1. TypeOK /\ \A w \in Writers : Fits(w)
  BY DEF TypeInv
<1>2. /\ clock \in Days /\ upstream \in Bars /\ source \in Sources
      /\ left \in Budgets /\ MaxDay \in Nat
  BY <1>1, ConstantsAssumption DEF TypeOK
<1>3. UNCHANGED <<files, local>>
  BY DEF Vendor, Tick, Restate, Withdraw, SwitchSource, StepClockBack
<1>4. clock' \in Days /\ upstream' \in Bars /\ source' \in Sources /\ left' \in Budgets
  <2>1. CASE Tick
    <3>1. clock' \in Days /\ source' = source /\ left' = left
      BY <1>2, <2>1 DEF Tick, Days
    <3>2. upstream' \in Bars
      BY <1>2, <2>1, WithType DEF Tick
    <3>3. QED
      BY <1>2, <3>1, <3>2
  <2>2. CASE Restate
    <3>1. upstream' \in Bars
      BY <1>2, <2>2, WithType DEF Restate
    <3>2. QED
      BY <1>1, <1>2, <2>2, <3>1, SpendType DEF Restate
  <2>3. CASE Withdraw
    <3>1. upstream' \in Bars
      BY <1>2, <2>3, RestrictedType DEF Withdraw
    <3>2. QED
      BY <1>1, <1>2, <2>3, <3>1, SpendType DEF Withdraw
  <2>4. CASE SwitchSource
    BY <1>1, <1>2, <2>4, SpendType DEF SwitchSource
  <2>5. CASE StepClockBack
    <3>1. clock' \in Days
      BY <1>2, <2>5 DEF StepClockBack, Days
    <3>2. QED
      BY <1>1, <1>2, <2>5, <3>1, SpendType DEF StepClockBack
  <2>6. QED
    BY <2>1, <2>2, <2>3, <2>4, <2>5 DEF Vendor
<1>5. TypeOK'
  BY <1>1, <1>3, <1>4 DEF TypeOK, files, local
<1>6. \A w \in Writers : Fits(w)'
  BY <1>1, <1>3 DEF local, Fits, Offered, Claim, HeldBy
<1>7. QED
  BY <1>3, <1>5, <1>6 DEF TypeInv

(* Every step keeps the types and the lines that fit.                      *)
LEMMA TypeNext == TypeInv /\ [Next]_vars => TypeInv'
<1> SUFFICES ASSUME TypeInv, [Next]_vars PROVE TypeInv'
  OBVIOUS
<1>1. CASE UNCHANGED vars
  BY <1>1 DEF vars, market, files, local, TypeInv, TypeOK, Fits, Offered, Claim, HeldBy
<1>2. ASSUME NEW w \in Writers, Begin(w) \/ Step(w) \/ Fault(w) PROVE TypeInv'
  BY <1>2, TypeWriterStep
<1>3. CASE Vendor
  BY <1>3, TypeVendorStep
<1>4. QED
  BY <1>1, <1>2, <1>3 DEF Next

(* Every value a refresh keeps, and every line it writes, is one the code  *)
(* could build, whatever the writers do between each other's steps.        *)
THEOREM TypeCorrect == Spec => []TypeOK
<1>1. TypeInv => TypeOK
  BY DEF TypeInv
<1>2. QED
  BY TypeInit, TypeNext, <1>1, PTL DEF Spec

-----------------------------------------------------------------------------
(* Only an append, whole or cut short, changes a file.                     *)
LEMMA FilesChange ==
    ASSUME TypeInv, [Next]_vars
    PROVE  \/ UNCHANGED files
           \/ \E w \in Writers : AppendArtifact(w) \/ ArtifactCutShort(w)
           \/ \E w \in Writers : AppendOutcome(w) \/ OutcomeCutShort(w)
<1>1. CASE UNCHANGED vars
  BY <1>1 DEF vars
<1>2. CASE Vendor
  BY <1>2, TypeVendorStep
<1>3. ASSUME NEW w \in Writers, Begin(w) \/ Step(w) \/ Fault(w)
      PROVE  UNCHANGED files \/ AppendArtifact(w) \/ ArtifactCutShort(w)
                \/ AppendOutcome(w) \/ OutcomeCutShort(w)
  BY <1>3 DEF Begin, Step, Fault, Fetch, Open, OpenRaises, OfferNew, OfferDuplicate, OfferRaises,
              ReadPresent, ReadPresentRaises, Pass, Measure, MeasureDuplicate,
              MeasureRaises, Finish, Killed
<1>4. QED
  BY <1>1, <1>2, <1>3 DEF Next

(* What a step does to the ledger: rows are only added, and only by the    *)
(* writer that was about to append them.                                   *)
LEMMA RowsGrow ==
    ASSUME TypeInv, [Next]_vars
    PROVE  /\ RowSet(artifacts) \subseteq RowSet(artifacts')
           /\ RowSet(outcomes) \subseteq RowSet(outcomes')
           /\ \A row \in RowSet(artifacts') \ RowSet(artifacts) :
                 \E w \in Writers : pc[w] = "appending_artifact" /\ row = line[w]
           /\ \A row \in RowSet(outcomes') \ RowSet(outcomes) :
                 \E w \in Writers : pc[w] = "appending_outcome" /\ row = line[w]
<1>1. /\ artifacts \in File(Artifacts) /\ outcomes \in File(Outcomes)
      /\ TypeOK /\ \A w \in Writers : Fits(w)
  BY DEF TypeInv, TypeOK
<1>2. CASE UNCHANGED files
  BY <1>2 DEF files
<1>3. ASSUME NEW w \in Writers, pc[w] = "appending_artifact", outcomes' = outcomes,
             artifacts' = Appended(artifacts, line[w])
                \/ artifacts' \in CutShort(artifacts, line[w])
      PROVE  /\ RowSet(artifacts) \subseteq RowSet(artifacts')
             /\ RowSet(artifacts') \subseteq RowSet(artifacts) \cup {line[w]}
  <2>1. line[w] \in Artifacts
    BY <1>1, <1>3, OfferedProperties DEF Fits
  <2>2. QED
    BY <1>1, <1>3, <2>1, AppendedProperties, CutShortProperties
<1>4. ASSUME NEW w \in Writers, pc[w] = "appending_outcome", artifacts' = artifacts,
             outcomes' = Appended(outcomes, line[w])
                \/ outcomes' \in CutShort(outcomes, line[w])
      PROVE  /\ RowSet(outcomes) \subseteq RowSet(outcomes')
             /\ RowSet(outcomes') \subseteq RowSet(outcomes) \cup {line[w]}
  <2>1. line[w] \in Outcomes
    BY <1>1, <1>4 DEF Fits
  <2>2. QED
    BY <1>1, <1>4, <2>1, AppendedProperties, CutShortProperties
<1>5. CASE \E w \in Writers : AppendArtifact(w) \/ ArtifactCutShort(w)
  <2>1. PICK w \in Writers : AppendArtifact(w) \/ ArtifactCutShort(w)
    BY <1>5
  <2>2. /\ pc[w] = "appending_artifact" /\ outcomes' = outcomes
        /\ \/ artifacts' = Appended(artifacts, line[w])
           \/ artifacts' \in CutShort(artifacts, line[w])
    BY <2>1 DEF AppendArtifact, ArtifactCutShort
  <2>3. QED
    BY <1>3, <2>2
<1>6. CASE \E w \in Writers : AppendOutcome(w) \/ OutcomeCutShort(w)
  <2>1. PICK w \in Writers : AppendOutcome(w) \/ OutcomeCutShort(w)
    BY <1>6
  <2>2. /\ pc[w] = "appending_outcome" /\ artifacts' = artifacts
        /\ \/ outcomes' = Appended(outcomes, line[w])
           \/ outcomes' \in CutShort(outcomes, line[w])
    BY <2>1 DEF AppendOutcome, OutcomeCutShort
  <2>3. QED
    BY <1>4, <2>2
<1>7. \/ UNCHANGED files
      \/ \E w \in Writers : AppendArtifact(w) \/ ArtifactCutShort(w)
      \/ \E w \in Writers : AppendOutcome(w) \/ OutcomeCutShort(w)
  BY FilesChange
<1>8. QED
  BY <1>2, <1>5, <1>6, <1>7

(* A writer about to append an outcome has just measured it, or was about  *)
(* to append it already.                                                   *)
LEMMA OutcomeLineOrigin ==
    ASSUME TypeInv, [Next]_vars, NEW w \in Writers, pc'[w] = "appending_outcome"
    PROVE  \/ pc[w] = "appending_outcome" /\ line'[w] = line[w]
           \/ Measure(w) /\ line'[w] = Measured(w)
<1>1. TypeOK /\ Fits(w)
  BY DEF TypeInv
<1>2. CASE UNCHANGED vars
  BY <1>2 DEF vars, local
<1>3. CASE Vendor
  BY <1>3, TypeVendorStep DEF local
<1>4. ASSUME NEW v \in Writers, v # w, Begin(v) \/ Step(v) \/ Fault(v)
      PROVE  pc'[w] = pc[w] /\ line'[w] = line[w]
  <2>1. Untouched(v)
    BY <1>4, TypeWriterStep
  <2>2. QED
    BY <1>4, <2>1 DEF Untouched
<1>5. CASE Measure(w)
  BY <1>1, <1>5 DEF Measure, TypeOK
<1>6. CASE Stop(w)
  BY <1>1, <1>6, StopProperties
<1>7. CASE Begin(w) \/ Fetch(w) \/ Open(w) \/ OfferNew(w) \/ AppendArtifact(w)
           \/ ReadPresent(w) \/ AppendOutcome(w)
  BY <1>1, <1>7 DEF TypeOK, Begin, Fetch, Open, OfferNew, AppendArtifact, ReadPresent,
                    AppendOutcome, Goto
<1>8. CASE OfferDuplicate(w) \/ Pass(w) \/ MeasureDuplicate(w)
  BY <1>8 DEF OfferDuplicate, Pass, MeasureDuplicate
<1>9. ASSUME Begin(w) \/ Step(w) \/ Fault(w)
      PROVE  \/ Measure(w) \/ Stop(w)
             \/ Begin(w) \/ Fetch(w) \/ Open(w) \/ OfferNew(w) \/ AppendArtifact(w)
             \/ ReadPresent(w) \/ AppendOutcome(w)
             \/ OfferDuplicate(w) \/ Pass(w) \/ MeasureDuplicate(w)
  BY <1>9 DEF Step, Fault, OpenRaises, OfferRaises, ReadPresentRaises, MeasureRaises, Finish,
              ArtifactCutShort, OutcomeCutShort, Killed
<1>10. QED
  BY <1>2, <1>3, <1>4, <1>5, <1>6, <1>7, <1>8, <1>9 DEF Next

-----------------------------------------------------------------------------
(* Registration comes first.                                               *)
(*                                                                         *)
(* The check of append_outcome is made before the append and the file is   *)
(* not locked in between; it stays true because rows are never removed.    *)

RegistrationInv ==
    /\ OutcomesRegistered
    /\ \A w \in Writers :
          pc[w] = "appending_outcome" => line[w].artifact \in RowSet(artifacts)

(* Empty files: no outcome, so none without its claim.                     *)
LEMMA RegistrationInit == Init => RegistrationInv
BY DEF Init, EmptyFile, RegistrationInv, OutcomesRegistered, RowSet

(* Every step keeps each outcome's claim in the ledger.                    *)
LEMMA RegistrationNext ==
    TypeInv /\ RegistrationInv /\ [Next]_vars => RegistrationInv'
<1> SUFFICES ASSUME TypeInv, RegistrationInv, [Next]_vars
             PROVE  RegistrationInv'
  OBVIOUS
<1>1. RowSet(artifacts) \subseteq RowSet(artifacts')
  BY RowsGrow
<1>2. OutcomesRegistered'
  <2>1. ASSUME NEW row \in RowSet(outcomes')
        PROVE  row.artifact \in RowSet(artifacts)
    <3>1. CASE row \in RowSet(outcomes)
      BY <3>1 DEF RegistrationInv, OutcomesRegistered
    <3>2. CASE row \notin RowSet(outcomes)
      BY <2>1, <3>2, RowsGrow DEF RegistrationInv
    <3>3. QED
      BY <3>1, <3>2
  <2>2. QED
    BY <1>1, <2>1 DEF OutcomesRegistered
<1>3. ASSUME NEW w \in Writers, pc'[w] = "appending_outcome"
      PROVE  line'[w].artifact \in RowSet(artifacts')
  <2>1. CASE pc[w] = "appending_outcome" /\ line'[w] = line[w]
    BY <1>1, <2>1 DEF RegistrationInv
  <2>2. CASE Measure(w) /\ line'[w] = Measured(w)
    BY <1>1, <2>2 DEF Measure, IsRegistered
  <2>3. QED
    BY <1>3, <2>1, <2>2, OutcomeLineOrigin
<1>4. QED
  BY <1>2, <1>3 DEF RegistrationInv

(* Two files, no transaction and no lock: an outcome line never embeds a   *)
(* claim that is not in the ledger, to the last field, however many        *)
(* refreshes run at once and wherever they are cut short.                  *)
THEOREM RegistrationPrecedes == Spec => []OutcomesRegistered
<1>1. RegistrationInv => OutcomesRegistered
  BY DEF RegistrationInv
<1>2. QED
  BY TypeInit, TypeNext, RegistrationInit, RegistrationNext, <1>1, PTL DEF Spec
-----------------------------------------------------------------------------
(* No hindsight.                                                           *)
(*                                                                         *)
(* What makes a measurement prospective is true of the claim long before   *)
(* it is measured: its registration clock is after its bar, wherever the   *)
(* claim is kept, and a re-registered claim keeps that clock.              *)

IsSound(artifact) ==
    /\ artifact.key[2] = artifact.timestamp
    /\ artifact.data_cutoff = artifact.timestamp
    /\ artifact.timestamp <= artifact.recorded_at

HasOpened(s) == \A d \in DOMAIN s.bars : d <= s.built_at

HindsightInv ==
    /\ \A a \in RowSet(artifacts) : IsSound(a)
    /\ \A o \in RowSet(outcomes) : IsProspective(o)
    /\ \A w \in Writers :
          /\ HasOpened(snap[w])
          /\ \A a \in RowSet([rows |-> held[w]]) : IsSound(a)
          /\ pc[w] = "appending_artifact" => IsSound(line[w])
          /\ pc[w] = "appending_outcome" => IsProspective(line[w])

(* A claim is offered with a clock after its bar's open, its own or the held *)
(* one.                                                                    *)
LEMMA OfferedSound ==
    ASSUME TypeOK, NEW w \in Writers, HasOpened(snap[w]),
           at[w][1] <= Len(CurrentArtifacts(snap[w])),
           \A a \in RowSet([rows |-> held[w]]) : IsSound(a)
    PROVE  IsSound(Offered(w))
<1> DEFINE s    == snap[w]
           tail == Latest(DOMAIN s.bars)
           c    == Claim(w)
           H    == HeldBy(w, c.key)
           b    == CHOOSE x \in H : TRUE
<1>1. s \in Snapshots /\ at[w] \in (Nat \ {0}) \X DOMAIN Horizons
  BY DEF TypeOK
<1>2. DOMAIN s.bars \in SUBSET Days /\ s.built_at \in Days
  <2>1. s.bars \in Bars /\ s.built_at \in Days
    BY <1>1 DEF Snapshots
  <2>2. QED
    BY <2>1, BarsProperty
<1>3. DOMAIN s.bars # {}
  <2>1. ASSUME DOMAIN s.bars = {} PROVE FALSE
    <3>1. CurrentArtifacts(s) = <<>>
      BY <2>1 DEF CurrentArtifacts
    <3>2. QED
      BY <1>1, <3>1
  <2>2. QED
    BY <2>1
<1>4. tail \in DOMAIN s.bars /\ tail <= s.built_at
  <2>1. tail \in DOMAIN s.bars
    BY <1>2, <1>3, LatestProperty
  <2> HIDE DEF tail
  <2>2. QED
    BY <2>1 DEF HasOpened
<1>5. /\ c.key[2] = tail /\ c.timestamp = tail /\ c.data_cutoff = tail
      /\ c.recorded_at = s.built_at /\ c \in Artifacts
  <2>1. c \in Artifacts /\ c \in RowSet([rows |-> CurrentArtifacts(s)])
    BY OfferedProperties
  <2>2. PICK i \in DOMAIN CurrentArtifacts(s) : c = CurrentArtifacts(s)[i]
    BY <2>1 DEF RowSet
  <2> HIDE DEF c
  <2>3. i \in DOMAIN Producers
    BY <1>3, <2>2 DEF CurrentArtifacts
  <2>4. c = [key         |-> <<Producers[i], tail>>,
             producer    |-> Producers[i],
             timestamp   |-> tail,
             state       |-> Classify(Producers[i], s.bars),
             source      |-> s.source,
             fingerprint |-> s.bars[tail],
             data_cutoff |-> tail,
             recorded_at |-> s.built_at]
    BY <1>3, <2>2, <2>3 DEF CurrentArtifacts
  <2> HIDE DEF tail, s
  <2>5. QED
    BY <2>1, <2>4
<1> HIDE DEF c, tail, s
<1>6. CASE H = {}
  <2>1. Offered(w) = c
    BY <1>6 DEF Offered, c
  <2>2. QED
    BY <1>4, <1>5, <2>1 DEF IsSound
<1>7. CASE H # {}
  <2>1. b \in H
    BY <1>7
  <2> HIDE DEF b
  <2>2. b.key = c.key /\ IsSound(b)
    BY <2>1 DEF HeldBy
  <2>3. tail <= b.recorded_at
    BY <1>5, <2>2 DEF IsSound
  <2>4. Offered(w) = [c EXCEPT !.recorded_at = b.recorded_at]
    BY <1>7 DEF Offered, c, b
  <2>5. /\ Offered(w).key = c.key /\ Offered(w).timestamp = tail
        /\ Offered(w).data_cutoff = tail /\ Offered(w).recorded_at = b.recorded_at
    BY <1>5, <2>4 DEF Artifacts
  <2>6. QED
    BY <1>5, <2>3, <2>5 DEF IsSound
<1>8. QED
  BY <1>6, <1>7

(* A measurement the record's own invariants let through is prospective.   *)
LEMMA MeasuredProspective ==
    ASSUME TypeOK, NEW w \in Writers, HasItem(w), Evaluated(w),
           IsSound(Item(w))
    PROVE  IsProspective(Measured(w))
<1> DEFINE a == Item(w)
           h == ItemHorizon(w)
           o == Measured(w)
<1>1. /\ snap[w] \in Snapshots /\ held[w] \in Seq(Artifacts)
      /\ at[w] \in (Nat \ {0}) \X DOMAIN Horizons
  BY DEF TypeOK
<1>2. a \in Artifacts /\ h \in HorizonSet
  BY <1>1 DEF HasItem, Item, ItemHorizon, HorizonSet
<1>3. IsComplete(snap[w].bars, a.timestamp, h) /\ IsPossible(o)
  BY DEF Evaluated, Due, IsDue
<1>4. o = OutcomeOf(a, snap[w], h)
  BY DEF Measured
<1> HIDE DEF a, h, o
<1>5. /\ o \in Outcomes /\ o.artifact = a /\ o.horizon = h
      /\ Cardinality(DOMAIN o.consumed) = h
      /\ o.reference \in DOMAIN o.consumed /\ o.future \in DOMAIN o.consumed
      /\ \A d \in DOMAIN o.consumed :
            a.timestamp < d /\ o.reference <= d /\ d <= o.future
  BY <1>1, <1>2, <1>3, <1>4, OutcomeOfProperties
<1>6. DOMAIN o.consumed \in SUBSET Nat /\ o.future \in Nat /\ o.evaluated_at \in Nat
      /\ a.recorded_at \in Nat /\ a.data_cutoff \in Nat
  <2>1. o.consumed \in Bars /\ o.future \in Days /\ o.evaluated_at \in Days
    BY <1>5 DEF Outcomes
  <2>2. DOMAIN o.consumed \in SUBSET Days
    BY <2>1, BarsProperty
  <2>3. a.recorded_at \in Days /\ a.data_cutoff \in Days
    BY <1>2 DEF Artifacts
  <2>4. QED
    BY <2>1, <2>2, <2>3, ConstantsAssumption DEF Days
<1>7. /\ IsEvaluable(a) /\ o.evaluated_at >= a.recorded_at /\ o.evaluated_at >= o.future
  BY <1>3, <1>5 DEF IsPossible
<1>8. a.data_cutoff = a.timestamp /\ a.data_cutoff <= a.recorded_at
  BY DEF IsSound, a
<1>9. \A d \in DOMAIN o.consumed : d <= o.evaluated_at /\ a.data_cutoff < d
  BY <1>5, <1>6, <1>7, <1>8
<1>10. a.recorded_at <= o.evaluated_at
  BY <1>6, <1>7
<1>11. QED
  BY <1>5, <1>7, <1>8, <1>9, <1>10 DEF IsProspective, o
(* Empty files hold no hindsight.                                          *)
LEMMA HindsightInit == Init => HindsightInv
BY DEF Init, EmptyFile, HindsightInv, RowSet, HasOpened, NoSnapshot

(* Every step keeps claims sound and outcomes prospective, wherever they   *)
(* are kept.                                                               *)
LEMMA HindsightNext ==
    TypeInv /\ HindsightInv /\ [Next]_vars => HindsightInv'
<1> SUFFICES ASSUME TypeInv, HindsightInv, [Next]_vars
             PROVE  HindsightInv'
  OBVIOUS
<1> DEFINE Local(w) ==
             /\ HasOpened(snap[w])
             /\ \A a \in RowSet([rows |-> held[w]]) : IsSound(a)
             /\ pc[w] = "appending_artifact" => IsSound(line[w])
             /\ pc[w] = "appending_outcome" => IsProspective(line[w])
<1>1. TypeOK /\ TypeOK' /\ \A w \in Writers : Fits(w) /\ Local(w)
  BY TypeNext DEF TypeInv, HindsightInv
<1> HIDE DEF Local
<1>2. \A a \in RowSet(artifacts') : IsSound(a)
  <2>1. \A a \in RowSet(artifacts) : IsSound(a)
    BY DEF HindsightInv
  <2>2. \A w \in Writers : pc[w] = "appending_artifact" => IsSound(line[w])
    BY DEF HindsightInv
  <2>3. QED
    BY <2>1, <2>2, RowsGrow
<1>3. \A o \in RowSet(outcomes') : IsProspective(o)
  <2>1. \A o \in RowSet(outcomes) : IsProspective(o)
    BY DEF HindsightInv
  <2>2. \A w \in Writers : pc[w] = "appending_outcome" => IsProspective(line[w])
    BY DEF HindsightInv
  <2>3. QED
    BY <2>1, <2>2, RowsGrow
<1> USE DEF Local
<1>4. ASSUME NEW w, snap'[w] = snap[w], held'[w] = held[w], pc'[w] = pc[w],
             line'[w] = line[w], Local(w)
      PROVE  Local(w)'
  BY <1>4
<1>5. CASE UNCHANGED local
  <2>1. \A w \in Writers : Local(w)'
    BY <1>1, <1>4, <1>5 DEF local
  <2>2. QED
    BY <1>2, <1>3, <2>1 DEF HindsightInv
<1>6. ASSUME NEW w \in Writers, Begin(w) \/ Step(w) \/ Fault(w)
      PROVE  Local(w)'
  <2>1. TypeOK /\ Local(w) /\ Fits(w)
    BY <1>1
  <2>2. ASSUME at[w][1] <= Len(CurrentArtifacts(snap[w]))
        PROVE  /\ IsSound(Offered(w))
               /\ \A a \in RowSet([rows |-> Tracked(w)]) : IsSound(a)
    <3>1. IsSound(Offered(w))
      BY <2>1, <2>2, OfferedSound
    <3>2. QED
      BY <2>1, <2>2, <3>1, OfferedProperties
  <2>3. CASE Begin(w)
    <3>1. snap'[w].bars = <<>> /\ held'[w] = held[w] /\ pc'[w] = "fetching"
      BY <2>1, <2>3 DEF Begin, Goto, TypeOK
    <3>2. HasOpened(snap'[w])
      BY <3>1 DEF HasOpened
    <3>3. QED
      BY <2>1, <3>1, <3>2
  <2>3a. CASE Fetch(w)
    <3> DEFINE fetched == Fetched(upstream, snap[w].built_at, clock)
    <3>1. \A d \in DOMAIN fetched : d <= snap[w].built_at
      BY <2>1, FetchedProperties DEF TypeOK, Snapshots
    <3> HIDE DEF fetched
    <3>2. snap'[w] = [snap[w] EXCEPT !.bars = fetched] /\ snap[w] \in Snapshots
      BY <2>1, <2>3a DEF Fetch, TypeOK, fetched
    <3>3. snap'[w].bars = fetched /\ snap'[w].built_at = snap[w].built_at
      BY <3>2 DEF Snapshots
    <3>4. HasOpened(snap'[w])
      BY <3>1, <3>3 DEF HasOpened
    <3>5. held'[w] = held[w] /\ pc'[w] = "opening"
      BY <2>1, <2>3a DEF Fetch, Goto, TypeOK
    <3>6. QED
      BY <2>1, <3>4, <3>5
  <2>3b. CASE Open(w)
    <3>1. snap'[w] = snap[w] /\ held'[w] = artifacts.rows /\ pc'[w] = "registering"
      BY <2>1, <2>3b DEF Open, Goto, TypeOK
    <3>2. \A a \in RowSet([rows |-> artifacts.rows]) : IsSound(a)
      BY DEF HindsightInv, RowSet
    <3>3. QED
      BY <2>1, <3>1, <3>2
  <2>4. CASE Stop(w)
    <3>1. snap'[w] = NoSnapshot /\ held'[w] = <<>> /\ pc'[w] = "idle"
      BY <2>1, <2>4, StopProperties
    <3>2. HasOpened(NoSnapshot) /\ RowSet([rows |-> <<>>]) = {}
      BY DEF HasOpened, NoSnapshot, RowSet
    <3>3. QED
      BY <3>1, <3>2
  <2>5. CASE OfferNew(w)
    <3>1. at[w][1] <= Len(CurrentArtifacts(snap[w]))
      BY <2>5 DEF OfferNew, HasClaim
    <3>2. /\ snap'[w] = snap[w] /\ held'[w] = held[w]
          /\ pc'[w] = "appending_artifact" /\ line'[w] = Offered(w)
      BY <2>1, <2>5 DEF OfferNew, Goto, TypeOK
    <3>3. QED
      BY <2>1, <2>2, <3>1, <3>2
  <2>6. CASE OfferDuplicate(w)
    <3>1. at[w][1] <= Len(CurrentArtifacts(snap[w])) /\ pc[w] = "registering"
      BY <2>6 DEF OfferDuplicate, HasClaim
    <3>2. /\ snap'[w] = snap[w] /\ held'[w] = Tracked(w) /\ pc'[w] = pc[w]
      BY <2>1, <2>6 DEF OfferDuplicate, TypeOK
    <3>3. QED
      BY <2>1, <2>2, <3>1, <3>2
  <2>7. CASE AppendArtifact(w)
    <3>1. at[w][1] <= Len(CurrentArtifacts(snap[w]))
      BY <2>1, <2>7 DEF AppendArtifact, Fits
    <3>2. /\ snap'[w] = snap[w] /\ held'[w] = Tracked(w) /\ pc'[w] = "registering"
      BY <2>1, <2>7 DEF AppendArtifact, Goto, TypeOK
    <3>3. QED
      BY <2>1, <2>2, <3>1, <3>2
  <2>8. CASE ReadPresent(w) \/ AppendOutcome(w)
    <3>1. /\ snap'[w] = snap[w] /\ held'[w] = held[w] /\ pc'[w] = "measuring"
      BY <2>1, <2>8 DEF ReadPresent, AppendOutcome, Goto, TypeOK
    <3>2. QED
      BY <2>1, <3>1
  <2>9. CASE Pass(w) \/ MeasureDuplicate(w)
    <3>1. /\ snap'[w] = snap[w] /\ held'[w] = held[w] /\ pc'[w] = pc[w]
          /\ line'[w] = line[w]
      BY <2>9 DEF Pass, MeasureDuplicate
    <3>2. QED
      BY <1>4, <2>1, <3>1
  <2>10. CASE Measure(w)
    <3>1. /\ snap'[w] = snap[w] /\ held'[w] = held[w]
          /\ pc'[w] = "appending_outcome" /\ line'[w] = Measured(w)
      BY <2>1, <2>10 DEF Measure, Goto, TypeOK
    <3>2. HasItem(w) /\ Evaluated(w)
      BY <2>10 DEF Measure
    <3>3. Item(w) \in RowSet([rows |-> held[w]])
      <4>1. held[w] \in Seq(Artifacts) /\ at[w] \in (Nat \ {0}) \X DOMAIN Horizons
        BY <2>1 DEF TypeOK
      <4>2. at[w][1] \in DOMAIN held[w]
        BY <3>2, <4>1 DEF HasItem
      <4>3. QED
        BY <4>2 DEF Item, RowSet
    <3>4. IsProspective(Measured(w))
      BY <2>1, <3>2, <3>3, MeasuredProspective
    <3>5. QED
      BY <2>1, <3>1, <3>4
  <2>11. QED
    BY <1>6, <2>3, <2>4, <2>5, <2>6, <2>7, <2>8, <2>9, <2>10, <2>3a, <2>3b
       DEF Step, Fault, OpenRaises, OfferRaises, ReadPresentRaises, MeasureRaises, Finish,
           ArtifactCutShort, OutcomeCutShort, Killed
<1>7. ASSUME NEW w \in Writers, Begin(w) \/ Step(w) \/ Fault(w)
      PROVE  \A v \in Writers : Local(v)'
  <2>1. ASSUME NEW v \in Writers \ {w} PROVE Local(v)'
    <3>1. Untouched(w)
      BY <1>7, TypeWriterStep
    <3>2. /\ snap'[v] = snap[v] /\ held'[v] = held[v] /\ pc'[v] = pc[v]
          /\ line'[v] = line[v]
      BY <3>1 DEF Untouched
    <3>3. QED
      BY <1>1, <1>4, <3>2
  <2>2. QED
    BY <1>6, <1>7, <2>1
<1>8. CASE \E w \in Writers : Begin(w) \/ Step(w) \/ Fault(w)
  <2>1. \A v \in Writers : Local(v)'
    BY <1>7, <1>8
  <2>2. QED
    BY <1>2, <1>3, <2>1 DEF HindsightInv
<1>9. UNCHANGED local \/ \E w \in Writers : Begin(w) \/ Step(w) \/ Fault(w)
  BY TypeVendorStep DEF Next, vars
<1>10. QED
  BY <1>5, <1>8, <1>9

(* A stored outcome rests on exactly its horizon of bars, each opened      *)
(* after everything its claim had seen and before the clock that           *)
(* measured it, whatever the vendor restated or withdrew, whatever the     *)
(* clock did, and however many refreshes ran at once.                      *)
THEOREM NoHindsight == Spec => []OutcomesProspective
<1>1. HindsightInv => OutcomesProspective
  BY DEF HindsightInv, OutcomesProspective
<1>2. QED
  BY TypeInit, TypeNext, HindsightInit, HindsightNext, <1>1, PTL DEF Spec
-----------------------------------------------------------------------------
(* One refresh at a time.                                                  *)
(*                                                                         *)
(* The rest holds only while nobody writes between a refresh's read and    *)
(* its append.  Then what the read established is still so at the append:  *)
(* the file is whole and the key is new.                                   *)

SingleWriter == \A v, w \in Writers : v = w

LoneInv ==
    /\ OneLinePerKey
    /\ BeliefsAreDurable
    /\ \A w \in Writers :
          /\ pc[w] = "appending_artifact" =>
                artifacts.tail = "clean" /\ line[w].key \notin Keys(artifacts)
          /\ pc[w] = "appending_outcome" =>
                /\ artifacts.tail = "clean" /\ outcomes.tail = "clean"
                /\ line[w].key \notin Keys(outcomes)

(* The keys of a file are those of its rows.                               *)
LEMMA KeysOfRows ==
    ASSUME NEW f
    PROVE  Keys(f) = {row.key : row \in RowSet(f)}
BY DEF Keys, RowSet

(* What the append of a new key to a whole file, cut short or not, leaves. *)
LEMMA LoneAppend ==
    ASSUME NEW Row, NEW f \in File(Row), NEW row \in Row,
           NoRepeatedKey(f), f.tail = "clean", row.key \notin Keys(f),
           NEW g, g = Appended(f, row) \/ g \in CutShort(f, row)
    PROVE  /\ NoRepeatedKey(g)
           /\ RowSet(f) \subseteq RowSet(g) /\ Keys(f) \subseteq Keys(g)
           /\ \/ g = f
              \/ /\ g = Appended(f, row) /\ g.tail = "clean"
                 /\ RowSet(g) = RowSet(f) \cup {row}
              \/ RowSet(g) = RowSet(f) /\ g.tail # "clean"
<1>1. CASE g = f
  BY <1>1
<1>2. CASE g = Appended(f, row)
  <2>1. NoRepeatedKey(g)
    BY <1>2, AppendedKeepsKeysApart
  <2>2. g.tail = "clean" /\ RowSet(g) = RowSet(f) \cup {row}
    BY <1>2, AppendedProperties
  <2>3. Keys(f) \subseteq Keys(g)
    BY <2>2, KeysOfRows
  <2>4. QED
    BY <1>2, <2>1, <2>2, <2>3
<1>3. CASE g.rows = f.rows /\ g.tail # "clean"
  BY <1>3 DEF NoRepeatedKey, RowSet, Keys
<1>4. QED
  BY <1>1, <1>2, <1>3, CutShortProperties

(* With one writer, every step keeps keys apart, beliefs true and appends  *)
(* safe.                                                                   *)
LEMMA LoneNext ==
    ASSUME SingleWriter
    PROVE  TypeInv /\ LoneInv /\ [Next]_vars => LoneInv'
<1> SUFFICES ASSUME TypeInv, LoneInv, [Next]_vars
             PROVE  LoneInv'
  OBVIOUS
<1>1. /\ TypeOK /\ TypeOK' /\ \A w \in Writers : Fits(w)
      /\ artifacts \in File(Artifacts) /\ outcomes \in File(Outcomes)
  BY TypeNext DEF TypeInv, TypeOK
<1>2. CASE UNCHANGED <<files, local>>
  BY <1>2 DEF LoneInv, OneLinePerKey, BeliefsAreDurable, files, local
<1>3. ASSUME NEW w \in Writers, Begin(w) \/ Step(w) \/ Fault(w)
      PROVE  LoneInv'
  <2> DEFINE Mine ==
               /\ RowSet([rows |-> held[w]]) \subseteq RowSet(artifacts)
               /\ present[w] \subseteq Keys(outcomes)
               /\ pc[w] = "appending_artifact" =>
                     artifacts.tail = "clean" /\ line[w].key \notin Keys(artifacts)
               /\ pc[w] = "appending_outcome" =>
                     /\ artifacts.tail = "clean" /\ outcomes.tail = "clean"
                     /\ line[w].key \notin Keys(outcomes)
  <2>1. /\ Fits(w) /\ Mine /\ NoRepeatedKey(artifacts) /\ NoRepeatedKey(outcomes)
    BY <1>1 DEF LoneInv, OneLinePerKey, BeliefsAreDurable
  <2>2. ASSUME Mine', NoRepeatedKey(artifacts'), NoRepeatedKey(outcomes')
        PROVE  LoneInv'
    <3>1. \A v \in Writers : v = w
      BY DEF SingleWriter
    <3>2. QED
      BY <2>2, <3>1 DEF LoneInv, OneLinePerKey, BeliefsAreDurable
  <2>3. ASSUME at[w][1] <= Len(CurrentArtifacts(snap[w]))
        PROVE  /\ Offered(w).key = Claim(w).key /\ Offered(w) \in Artifacts
               /\ RowSet([rows |-> Tracked(w)])
                     \subseteq RowSet([rows |-> held[w]]) \cup {Offered(w)}
    BY <1>1, <2>3, OfferedProperties
  <2>4. ASSUME Stop(w), RowSet(artifacts) \subseteq RowSet(artifacts')
        PROVE  Mine'
    <3>1. pc'[w] = "idle" /\ held'[w] = <<>> /\ present'[w] = {}
      BY <1>1, <2>4, StopProperties
    <3>2. RowSet([rows |-> <<>>]) = {}
      BY DEF RowSet
    <3>3. QED
      BY <3>1, <3>2
  <2>4a. CASE Begin(w) \/ Fetch(w)
    <3>1. /\ held'[w] = held[w] /\ pc'[w] \in {"fetching", "opening"}
          /\ present'[w] = present[w] /\ UNCHANGED files
      BY <1>1, <2>4a DEF Begin, Fetch, Goto, TypeOK
    <3>2. QED
      BY <2>1, <2>2, <3>1 DEF files
  <2>5. CASE Open(w)
    <3>1. /\ held'[w] = artifacts.rows /\ pc'[w] = "registering"
          /\ present'[w] = present[w] /\ UNCHANGED files
      BY <1>1, <2>5 DEF Open, Goto, TypeOK
    <3>2. RowSet([rows |-> artifacts.rows]) = RowSet(artifacts)
      BY DEF RowSet
    <3>3. QED
      BY <2>1, <2>2, <3>1, <3>2 DEF files
  <2>6. CASE OfferNew(w)
    <3>1. /\ at[w][1] <= Len(CurrentArtifacts(snap[w])) /\ Readable(artifacts)
          /\ Claim(w).key \notin Keys(artifacts)
      BY <2>6 DEF OfferNew, HasClaim
    <3>2. /\ pc'[w] = "appending_artifact" /\ line'[w] = Offered(w)
          /\ held'[w] = held[w] /\ present'[w] = present[w] /\ UNCHANGED files
      BY <1>1, <2>6 DEF OfferNew, Goto, TypeOK
    <3>3. QED
      BY <2>1, <2>2, <2>3, <3>1, <3>2 DEF Readable, files
  <2>7. CASE OfferDuplicate(w)
    <3>1. /\ at[w][1] <= Len(CurrentArtifacts(snap[w])) /\ pc[w] = "registering"
          /\ Offered(w) \in RowSet(artifacts)
      BY <2>7 DEF OfferDuplicate, HasClaim
    <3>2. /\ pc'[w] = pc[w] /\ held'[w] = Tracked(w) /\ present'[w] = present[w]
          /\ UNCHANGED files
      BY <1>1, <2>7 DEF OfferDuplicate, TypeOK
    <3>3. QED
      BY <2>1, <2>2, <2>3, <3>1, <3>2 DEF files
  <2>8. CASE OpenRaises(w) \/ OfferRaises(w) \/ ReadPresentRaises(w)
             \/ MeasureRaises(w) \/ Finish(w) \/ Killed(w)
    <3>1. Stop(w) /\ UNCHANGED files
      BY <2>8 DEF OpenRaises, OfferRaises, ReadPresentRaises, MeasureRaises, Finish, Killed
    <3>2. QED
      BY <2>1, <2>2, <2>4, <3>1 DEF files
  <2>9. CASE AppendArtifact(w)
    <3>1. /\ at[w][1] <= Len(CurrentArtifacts(snap[w])) /\ line[w] = Offered(w)
          /\ artifacts.tail = "clean" /\ line[w].key \notin Keys(artifacts)
      BY <2>1, <2>9 DEF AppendArtifact, Fits
    <3>2. /\ pc'[w] = "registering" /\ held'[w] = Tracked(w)
          /\ present'[w] = present[w] /\ artifacts' = Appended(artifacts, line[w])
          /\ outcomes' = outcomes
      BY <1>1, <2>9 DEF AppendArtifact, Goto, TypeOK
    <3>3. /\ NoRepeatedKey(artifacts') /\ RowSet(artifacts) \subseteq RowSet(artifacts')
      BY <1>1, <2>1, <2>3, <3>1, <3>2, LoneAppend
    <3>4. line[w] \in RowSet(artifacts')
      BY <1>1, <2>3, <3>1, <3>2, AppendedProperties
    <3>5. QED
      BY <2>1, <2>2, <2>3, <3>1, <3>2, <3>3, <3>4
  <2>10. CASE ArtifactCutShort(w)
    <3>1. /\ at[w][1] <= Len(CurrentArtifacts(snap[w])) /\ line[w] = Offered(w)
          /\ artifacts.tail = "clean" /\ line[w].key \notin Keys(artifacts)
      BY <2>1, <2>10 DEF ArtifactCutShort, Fits
    <3>2. /\ Stop(w) /\ outcomes' = outcomes /\ artifacts' \in CutShort(artifacts, line[w])
      BY <2>10 DEF ArtifactCutShort
    <3>3. /\ NoRepeatedKey(artifacts') /\ RowSet(artifacts) \subseteq RowSet(artifacts')
      BY <1>1, <2>1, <2>3, <3>1, <3>2, LoneAppend
    <3>4. QED
      BY <2>1, <2>2, <2>4, <3>2, <3>3
  <2>11. CASE ReadPresent(w)
    <3>1. /\ pc'[w] = "measuring" /\ held'[w] = held[w] /\ present'[w] = Keys(outcomes)
          /\ UNCHANGED files
      BY <1>1, <2>11 DEF ReadPresent, Goto, TypeOK
    <3>2. QED
      BY <2>1, <2>2, <3>1 DEF files
  <2>12. CASE Pass(w)
    <3>1. /\ pc'[w] = pc[w] /\ held'[w] = held[w] /\ present'[w] = present[w]
          /\ line'[w] = line[w] /\ UNCHANGED files
      BY <2>12 DEF Pass
    <3>2. QED
      BY <2>1, <2>2, <3>1 DEF files
  <2>13. CASE Measure(w)
    <3>1. /\ Readable(artifacts) /\ Readable(outcomes)
          /\ Measured(w).key \notin Keys(outcomes)
      BY <2>13 DEF Measure, IsRegistered
    <3>2. /\ pc'[w] = "appending_outcome" /\ line'[w] = Measured(w)
          /\ held'[w] = held[w] /\ present'[w] = present[w] /\ UNCHANGED files
      BY <1>1, <2>13 DEF Measure, Goto, TypeOK
    <3>3. QED
      BY <2>1, <2>2, <3>1, <3>2 DEF Readable, files
  <2>14. CASE MeasureDuplicate(w)
    <3>1. /\ pc'[w] = pc[w] /\ pc[w] = "measuring" /\ held'[w] = held[w]
          /\ present'[w] = present[w] \cup {Measured(w).key} /\ UNCHANGED files
          /\ Measured(w) \in RowSet(outcomes)
      BY <1>1, <2>14 DEF MeasureDuplicate, HasItem, TypeOK
    <3>2. Measured(w).key \in Keys(outcomes)
      BY <3>1, KeysOfRows
    <3>3. QED
      BY <2>1, <2>2, <3>1, <3>2 DEF files
  <2>15. CASE AppendOutcome(w) \/ OutcomeCutShort(w)
    <3>1. /\ pc[w] = "appending_outcome" /\ artifacts' = artifacts
          /\ \/ outcomes' = Appended(outcomes, line[w])
             \/ outcomes' \in CutShort(outcomes, line[w])
      BY <2>15 DEF AppendOutcome, OutcomeCutShort
    <3>2. /\ line[w] \in Outcomes /\ outcomes.tail = "clean"
          /\ line[w].key \notin Keys(outcomes)
      BY <2>1, <3>1 DEF Fits
    <3>3. NoRepeatedKey(outcomes') /\ Keys(outcomes) \subseteq Keys(outcomes')
      BY <1>1, <2>1, <3>1, <3>2, LoneAppend
    <3>4. CASE AppendOutcome(w)
      <4>1. /\ pc'[w] = "measuring" /\ held'[w] = held[w]
            /\ present'[w] = present[w] \cup {line[w].key}
            /\ outcomes' = Appended(outcomes, line[w])
        BY <1>1, <3>4 DEF AppendOutcome, Goto, TypeOK
      <4>2. line[w] \in RowSet(outcomes')
        BY <1>1, <3>2, <4>1, AppendedProperties
      <4>3. line[w].key \in Keys(outcomes')
        BY <4>2, KeysOfRows
      <4>4. QED
        BY <2>1, <2>2, <3>1, <3>3, <4>1, <4>3
    <3>5. CASE OutcomeCutShort(w)
      <4>1. Stop(w)
        BY <3>5 DEF OutcomeCutShort
      <4>2. QED
        BY <2>1, <2>2, <2>4, <3>1, <3>3, <4>1
    <3>6. QED
      BY <2>15, <3>4, <3>5
  <2>16. QED
    BY <1>3, <2>5, <2>6, <2>7, <2>8, <2>9, <2>10, <2>11, <2>12, <2>13, <2>14, <2>15, <2>4a
       DEF Step, Fault
<1>4. UNCHANGED <<files, local>> \/ \E w \in Writers : Begin(w) \/ Step(w) \/ Fault(w)
  BY TypeVendorStep DEF Next, vars
<1>5. QED
  BY <1>2, <1>3, <1>4

(* Empty files and no refresh under way.                                   *)
LEMMA LoneInit == Init => LoneInv
BY DEF Init, EmptyFile, LoneInv, OneLinePerKey, BeliefsAreDurable, NoRepeatedKey, RowSet

(* With one writer no file ever holds two lines under one key, whatever    *)
(* was cut short, restated or offered again.                               *)
THEOREM KeysStayApart ==
    ASSUME SingleWriter
    PROVE  Spec => []OneLinePerKey
<1>1. LoneInv => OneLinePerKey
  BY DEF LoneInv
<1>2. TypeInv /\ LoneInv /\ [Next]_vars => LoneInv'
  BY LoneNext
<1>3. QED
  BY TypeInit, TypeNext, LoneInit, <1>1, <1>2, PTL DEF Spec

(* With one writer, what a running refresh tracks or reports as present is *)
(* a complete line of the disk.                                            *)
THEOREM BeliefsHold ==
    ASSUME SingleWriter
    PROVE  Spec => []BeliefsAreDurable
<1>1. LoneInv => BeliefsAreDurable
  BY DEF LoneInv
<1>2. TypeInv /\ LoneInv /\ [Next]_vars => LoneInv'
  BY LoneNext
<1>3. QED
  BY TypeInit, TypeNext, LoneInit, <1>1, <1>2, PTL DEF Spec
(* With one writer a damaged file is never written to again, and with the  *)
(* artifacts damaged neither are the outcomes.                             *)
THEOREM DamageStays ==
    ASSUME SingleWriter
    PROVE  Spec => DamageIsFinal
<1> DEFINE Damage ==
             /\ artifacts.tail # "clean" => UNCHANGED files
             /\ outcomes.tail # "clean" => UNCHANGED outcomes
<1>1. TypeInv /\ LoneInv /\ [Next]_vars => [Damage]_vars
  <2> SUFFICES ASSUME TypeInv, LoneInv, [Next]_vars
               PROVE  Damage
    OBVIOUS
  <2>1. CASE UNCHANGED files
    BY <2>1 DEF files
  <2>2. ASSUME NEW w \in Writers, AppendArtifact(w) \/ ArtifactCutShort(w)
        PROVE  Damage
    <3>1. artifacts.tail = "clean" /\ outcomes' = outcomes
      BY <2>2 DEF AppendArtifact, ArtifactCutShort, LoneInv
    <3>2. QED
      BY <3>1
  <2>3. ASSUME NEW w \in Writers, AppendOutcome(w) \/ OutcomeCutShort(w)
        PROVE  Damage
    <3>1. artifacts.tail = "clean" /\ outcomes.tail = "clean"
      BY <2>3 DEF AppendOutcome, OutcomeCutShort, LoneInv
    <3>2. QED
      BY <3>1
  <2>4. QED
    BY <2>1, <2>2, <2>3, FilesChange
<1>2. TypeInv /\ LoneInv /\ [Next]_vars => LoneInv'
  BY LoneNext
<1>3. Damage <=> (/\ artifacts.tail # "clean" => UNCHANGED files
                  /\ outcomes.tail # "clean" => UNCHANGED outcomes)
  OBVIOUS
<1>4. QED
  BY TypeInit, TypeNext, LoneInit, <1>1, <1>2, PTL DEF Spec, DamageIsFinal

-----------------------------------------------------------------------------
(* The book of claims.                                                     *)

(* A prospective outcome is one the book admits.                           *)
LEMMA ProspectiveIsForward ==
    ASSUME NEW o \in Outcomes, IsProspective(o)
    PROVE  Book!IsForward(o)
<1>1. /\ o.artifact \in Artifacts /\ o.evaluated_at \in Days /\ o.future \in Days
      /\ o.consumed \in Bars
  BY DEF Outcomes
<1>2. /\ o.artifact.recorded_at \in Nat /\ o.artifact.data_cutoff \in Nat
      /\ o.evaluated_at \in Nat /\ o.future \in Nat
  <2>1. o.artifact.recorded_at \in Days /\ o.artifact.data_cutoff \in Days
    BY <1>1 DEF Artifacts
  <2>2. ASSUME NEW d \in Days PROVE d \in Nat
    BY ConstantsAssumption DEF Days
  <2>3. QED
    BY <1>1, <2>1, <2>2
<1>3. DOMAIN o.consumed \in SUBSET Nat
  BY <1>1, BarsProperty, ConstantsAssumption DEF Days
<1>4. /\ o.future \in DOMAIN o.consumed
      /\ \A d \in DOMAIN o.consumed :
            o.artifact.data_cutoff < d /\ d <= o.evaluated_at
      /\ o.artifact.recorded_at <= o.evaluated_at
  BY DEF IsProspective
<1>5. QED
  BY <1>2, <1>3, <1>4 DEF Book!IsForward

(* With one writer, every step is a step of the book or leaves it alone.   *)
LEMMA BookStep ==
    ASSUME SingleWriter, TypeInv, LoneInv, RegistrationInv, HindsightInv, [Next]_vars
    PROVE  [Book!Next]_(Book!vars)
<1>1. /\ artifacts \in File(Artifacts) /\ outcomes \in File(Outcomes)
      /\ TypeOK /\ \A w \in Writers : Fits(w)
      /\ NoRepeatedKey(artifacts) /\ NoRepeatedKey(outcomes)
  BY DEF TypeInv, TypeOK, LoneInv, OneLinePerKey
<1>2. CASE UNCHANGED files
  BY <1>2 DEF files, Book!vars, Spoilt
<1>3. ASSUME NEW w \in Writers, AppendArtifact(w) \/ ArtifactCutShort(w)
      PROVE  [Book!Next]_(Book!vars)
  <2>1. /\ pc[w] = "appending_artifact" /\ outcomes' = outcomes
        /\ \/ artifacts' = Appended(artifacts, line[w])
           \/ artifacts' \in CutShort(artifacts, line[w])
    BY <1>3 DEF AppendArtifact, ArtifactCutShort
  <2>2. artifacts.tail = "clean" /\ line[w].key \notin Keys(artifacts)
    BY <2>1 DEF LoneInv
  <2>3. line[w] \in Artifacts
    BY <1>1, <2>1, OfferedProperties DEF Fits
  <2>4. \A other \in RowSet(artifacts) : other.key # line[w].key
    BY <2>2, KeysOfRows
  <2>5. CASE artifacts' = artifacts
    BY <2>1, <2>5 DEF Book!vars, Spoilt
  <2>6. CASE artifacts'.tail = "clean" /\ RowSet(artifacts') = RowSet(artifacts) \cup {line[w]}
    <3>1. Spoilt' = Spoilt /\ "claims" \notin Spoilt
      BY <2>1, <2>2, <2>6 DEF Spoilt
    <3>2. line[w] \in RowSet(artifacts') \ RowSet(artifacts)
      BY <2>4, <2>6
    <3>3. RowSet(outcomes') = RowSet(outcomes)
      BY <2>1
    <3>4. Book!EnterClaim(line[w])
      BY <2>4, <2>6, <3>1, <3>3 DEF Book!EnterClaim
    <3>5. QED
      BY <2>3, <3>2, <3>4 DEF Book!Next
  <2>7. CASE RowSet(artifacts') = RowSet(artifacts) /\ artifacts'.tail # "clean"
    <3>1. Spoilt' = Spoilt \cup {"claims"} /\ "claims" \notin Spoilt
      BY <2>1, <2>2, <2>7 DEF Spoilt
    <3>2. Book!Spoil("claims")
      BY <2>1, <2>7, <3>1 DEF Book!Spoil, Book!Parts
    <3>3. QED
      BY <3>2 DEF Book!Next, Book!Parts
  <2>8. QED
    BY <1>1, <2>1, <2>2, <2>3, <2>5, <2>6, <2>7, LoneAppend
<1>4. ASSUME NEW w \in Writers, AppendOutcome(w) \/ OutcomeCutShort(w)
      PROVE  [Book!Next]_(Book!vars)
  <2>1. /\ pc[w] = "appending_outcome" /\ artifacts' = artifacts
        /\ \/ outcomes' = Appended(outcomes, line[w])
           \/ outcomes' \in CutShort(outcomes, line[w])
    BY <1>4 DEF AppendOutcome, OutcomeCutShort
  <2>2. /\ artifacts.tail = "clean" /\ outcomes.tail = "clean"
        /\ line[w].key \notin Keys(outcomes)
    BY <2>1 DEF LoneInv
  <2>3. line[w] \in Outcomes
    BY <1>1, <2>1 DEF Fits
  <2>4. \A other \in RowSet(outcomes) : other.key # line[w].key
    BY <2>2, KeysOfRows
  <2>5. CASE outcomes' = outcomes
    BY <2>1, <2>5 DEF Book!vars, Spoilt
  <2>6. CASE outcomes'.tail = "clean" /\ RowSet(outcomes') = RowSet(outcomes) \cup {line[w]}
    <3>1. Spoilt' = {} /\ Spoilt = {}
      BY <2>1, <2>2, <2>6 DEF Spoilt
    <3>2. line[w] \in RowSet(outcomes') \ RowSet(outcomes)
      BY <2>4, <2>6
    <3>3. RowSet(artifacts') = RowSet(artifacts)
      BY <2>1
    <3>4. line[w].artifact \in RowSet(artifacts)
      BY <2>1 DEF RegistrationInv
    <3>5. Book!IsForward(line[w])
      BY <2>1, <2>3, ProspectiveIsForward DEF HindsightInv
    <3>6. Book!EnterResult(line[w])
      BY <2>4, <2>6, <3>1, <3>3, <3>4, <3>5 DEF Book!EnterResult
    <3>7. QED
      BY <2>3, <3>2, <3>6 DEF Book!Next
  <2>7. CASE RowSet(outcomes') = RowSet(outcomes) /\ outcomes'.tail # "clean"
    <3>1. Spoilt' = Spoilt \cup {"results"} /\ "results" \notin Spoilt
      BY <2>1, <2>2, <2>7 DEF Spoilt
    <3>2. Book!Spoil("results")
      BY <2>1, <2>7, <3>1 DEF Book!Spoil, Book!Parts
    <3>3. QED
      BY <3>2 DEF Book!Next, Book!Parts
  <2>8. QED
    BY <1>1, <2>1, <2>2, <2>3, <2>5, <2>6, <2>7, LoneAppend
<1>5. QED
  BY <1>2, <1>3, <1>4, FilesChange

(* With one writer the two files are a book of claims: every step of a     *)
(* refresh, cut short or not, enters one claim, or one result of a claim   *)
(* in the book, or spoils one part for good, or changes nothing.           *)
THEOREM LedgerIsABook ==
    ASSUME SingleWriter
    PROVE  Spec => ImplementsBook
<1>1. Init => Book!Init
  BY DEF Init, EmptyFile, RowSet, Spoilt, Book!Init
<1>2. TypeInv /\ LoneInv /\ RegistrationInv /\ HindsightInv /\ [Next]_vars
         => [Book!Next]_(Book!vars)
  BY BookStep
<1>3. TypeInv /\ LoneInv /\ [Next]_vars => LoneInv'
  BY LoneNext
<1>4. QED
  BY TypeInit, TypeNext, LoneInit, RegistrationInit, RegistrationNext,
     HindsightInit, HindsightNext, <1>1, <1>2, <1>3, PTL
     DEF Spec, ImplementsBook, Book!Spec
=============================================================================
