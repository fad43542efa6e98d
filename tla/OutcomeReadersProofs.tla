------------------------- MODULE OutcomeReadersProofs -------------------------
(***************************************************************************)
(* Proofs about the two readers of the outcome ledger: the summary, for    *)
(* any number of writers at work between its two reads, and the report a   *)
(* refresh returns, for one refresh at a time.                             *)
(***************************************************************************)
EXTENDS OutcomeReport, OutcomeSummary, OutcomeRefreshProofs

-----------------------------------------------------------------------------
(* The summary: what the ledger guarantees.                                *)

(* A line carries the key its own content computes.                        *)
IsNamed(outcome) == outcome.key = <<outcome.artifact.key, outcome.horizon>>

NamedInv ==
    /\ \A outcome \in RowSet(outcomes) : IsNamed(outcome)
    /\ \A w \in Writers : pc[w] = "appending_outcome" => IsNamed(line[w])

(* Empty files and no line.                                                *)
LEMMA NamedInit == Init => NamedInv
BY DEF Init, EmptyFile, NamedInv, RowSet

(* A line is decided upon by measuring, and appended as it was decided.    *)
LEMMA NamedNext ==
    TypeInv /\ NamedInv /\ [Next]_vars => NamedInv'
<1>1. SUFFICES ASSUME TypeInv, NamedInv, [Next]_vars
               PROVE  NamedInv'
  OBVIOUS
<1>2. ASSUME NEW w \in Writers, pc'[w] = "appending_outcome"
      PROVE  IsNamed(line'[w])
  <2>1. CASE pc[w] = "appending_outcome" /\ line'[w] = line[w]
    BY <1>1, <2>1 DEF NamedInv
  <2>2. CASE Measure(w) /\ line'[w] = Measured(w)
    BY <2>2 DEF Measured, OutcomeOf, IsNamed
  <2>3. QED
    BY <1>1, <1>2, <2>1, <2>2, OutcomeLineOrigin
<1>3. ASSUME NEW outcome \in RowSet(outcomes')
      PROVE  IsNamed(outcome)
  BY <1>1, RowsGrow DEF NamedInv
<1>4. \A w \in Writers : (pc[w] = "appending_outcome" => IsNamed(line[w]))'
  BY <1>2 DEF IsNamed
<1>5. (\A outcome \in RowSet(outcomes) : IsNamed(outcome))'
  BY <1>3 DEF IsNamed, RowSet
<1>6. QED
  BY <1>4, <1>5 DEF NamedInv

-----------------------------------------------------------------------------
(* The summary: what its two reads return.                                 *)

KeysApart(S) == \A a, b \in S : a.key = b.key => a = b

(* The rows of a readable file have distinct keys.                         *)
LEMMA ReadableApart ==
    ASSUME NEW f, NoRepeatedKey(f)
    PROVE  KeysApart(RowSet(f))
BY DEF NoRepeatedKey, KeysApart, RowSet

(* A first read holds some of the ledger's claims, none of them twice.     *)
LEMMA FirstReadProperties ==
    ASSUME TypeOK, NEW read \in FirstReads
    PROVE  /\ read \subseteq RowSet(artifacts) /\ read \subseteq Artifacts
           /\ IsFiniteSet(read) /\ KeysApart(read)
<1>1. PICK n \in 0 .. Len(artifacts.rows) :
          NoRepeatedKey(FirstLines(n)) /\ read = RowSet(FirstLines(n))
  BY DEF FirstReads
<1>2. artifacts \in File(Artifacts) /\ artifacts.rows \in Seq(Artifacts)
  BY DEF TypeOK, File
<1>3. PICK part : part = SubSeq(artifacts.rows, 1, n)
  OBVIOUS
<1>4. /\ part \in Seq(Artifacts) /\ DOMAIN part = 1 .. n
      /\ \A i \in DOMAIN part : i \in DOMAIN artifacts.rows /\ part[i] = artifacts.rows[i]
  BY <1>2, <1>3
<1>5. FirstLines(n) = [artifacts EXCEPT !.rows = part]
  BY <1>3 DEF FirstLines
<1>6. FirstLines(n) \in File(Artifacts) /\ FirstLines(n).rows = part
  BY <1>2, <1>4, <1>5 DEF File
<1>7. IsFiniteSet(read)
  BY <1>1, <1>6, FileSize
<1>8. read \subseteq RowSet(artifacts)
  BY <1>1, <1>4, <1>6 DEF RowSet
<1>9. RowSet(artifacts) \subseteq Artifacts
  BY <1>2, RowSetType
<1>10. QED
  BY <1>1, <1>7, <1>8, <1>9, ReadableApart

(* What the proofs about one summary take from the invariants.             *)
LedgerFacts ==
    /\ TypeOK /\ OutcomesRegistered
    /\ \A outcome \in RowSet(outcomes) : IsNamed(outcome) /\ IsProspective(outcome)

(* What an outcome that the second read accepts says of its claim.         *)
LEMMA LoadedOutcome ==
    ASSUME LedgerFacts, NEW read, OutcomesLoad(read), NEW o \in RowSet(outcomes)
    PROVE  /\ o \in Outcomes /\ o.artifact \in read /\ IsEvaluable(o.artifact)
           /\ o.key = <<o.artifact.key, o.horizon>>
           /\ o.key \in Keys(outcomes)
<1>1. RowSet(outcomes) \subseteq Outcomes
  BY RowSetType DEF LedgerFacts, TypeOK
<1>2. o.artifact \in read
  BY DEF OutcomesLoad
<1>3. o.key \in Keys(outcomes)
  BY KeysOfRows
<1>4. QED
  BY <1>1, <1>2, <1>3 DEF LedgerFacts, IsNamed, IsProspective

(* The second read accepts every outcome unless one overtook the first.    *)
LEMMA LoadsUnlessOvertaken ==
    ASSUME LedgerFacts, NEW read, read \subseteq RowSet(artifacts)
    PROVE  OutcomesLoad(read) <=> Readable(outcomes) /\ ~IsOvertaken(read)
<1>1. \A o \in RowSet(outcomes) : o.artifact \in RowSet(artifacts)
  BY DEF LedgerFacts, OutcomesRegistered
<1>2. QED
  BY <1>1 DEF OutcomesLoad, IsOvertaken

(* The outcomes are finitely many, and no two of them measure one pair.    *)
LEMMA SecondReadProperties ==
    ASSUME LedgerFacts, Readable(outcomes)
    PROVE  /\ IsFiniteSet(RowSet(outcomes)) /\ KeysApart(RowSet(outcomes))
           /\ IsFiniteSet(InScope) /\ InScope \subseteq RowSet(outcomes)
<1>1. outcomes \in File(Outcomes)
  BY DEF LedgerFacts, TypeOK
<1>2. PICK rows : rows = RowSet(outcomes)
  OBVIOUS
<1>3. IsFiniteSet(rows)
  BY <1>1, <1>2, FileSize
<1>4. InScope \in SUBSET rows
  BY <1>2 DEF InScope
<1>5. IsFiniteSet(InScope)
  BY <1>3, <1>4, FS_Subset
<1>6. KeysApart(rows)
  BY <1>2, ReadableApart DEF Readable
<1>7. QED
  BY <1>2, <1>3, <1>4, <1>5, <1>6

-----------------------------------------------------------------------------
(* The summary: its groups.                                                *)

EvaluableOf(read, key) == {a \in Registered(read, key) : IsEvaluable(a)}
KeysIn(claims) == {a.key : a \in claims}

(* A coverage key names its specification, and a metric key its group.     *)
LEMMA GroupKeys ==
    /\ \A a, h : CoverageGroupKey(a, h).spec = h
    /\ \A o : MetricGroupKey(o).coverage = CoverageGroupKey(o.artifact, o.horizon)
BY DEF CoverageGroupKey, MetricGroupKey

(* Claims with distinct keys are as many as their keys.                    *)
LEMMA KeysCount ==
    ASSUME NEW claims, IsFiniteSet(claims), KeysApart(claims)
    PROVE  /\ IsFiniteSet(KeysIn(claims))
           /\ Cardinality(KeysIn(claims)) = Cardinality(claims)
           /\ Cardinality(claims) \in Nat
<1>1. PICK keys : keys = KeysIn(claims)
  OBVIOUS
<1>2. PICK f : f = [a \in claims |-> a.key]
  OBVIOUS
<1>3. f \in [claims -> keys]
  BY <1>1, <1>2 DEF KeysIn
<1>4. \A a, b \in claims : f[a] = f[b] => a = b
  BY <1>2 DEF KeysApart
<1>5. \A k \in keys : \E a \in claims : f[a] = k
  BY <1>1, <1>2 DEF KeysIn
<1>6. IsFiniteSet(keys) /\ Cardinality(keys) = Cardinality(claims) /\ Cardinality(claims) \in Nat
  BY <1>3, <1>4, <1>5, SameSize
<1>7. QED
  BY <1>1, <1>6

(* The days of some claims run from the first to the last.                 *)
LEMMA SpanIsOrdered ==
    ASSUME NEW claims \in SUBSET Artifacts, claims # {}
    PROVE  Span(claims).first <= Span(claims).last
<1>1. PICK days : days = {a.timestamp : a \in claims}
  OBVIOUS
<1>2. days \in SUBSET Days /\ days # {}
  BY <1>1 DEF Artifacts
<1>3. Span(claims) = [first |-> Earliest(days), last |-> Latest(days)]
  BY <1>1 DEF Span
<1>4. PICK d : d \in days
  BY <1>2
<1>5. Earliest(days) \in days /\ Latest(days) \in days /\ Earliest(days) <= d /\ d <= Latest(days)
  BY <1>2, <1>4, EarliestProperty, LatestProperty
<1>6. Earliest(days) \in Int /\ Latest(days) \in Int /\ d \in Int
  <2>1. Days \subseteq Int
    BY ConstantsAssumption DEF Days
  <2>2. days \subseteq Int
    BY <1>2, <2>1
  <2>3. QED
    BY <1>4, <1>5, <2>2
<1>7. Earliest(days) <= Latest(days)
  <2>1. PICK low, high : low = Earliest(days) /\ high = Latest(days)
    OBVIOUS
  <2>2. low \in Int /\ high \in Int /\ d \in Int /\ low <= d /\ d <= high
    BY <1>5, <1>6, <2>1
  <2>3. low <= high
    BY <2>2
  <2>4. QED
    BY <2>1, <2>3
<1>8. QED
  BY <1>3, <1>7

(* What one coverage group counts, from a read the outcomes agree with.    *)
LEMMA CompletedAreEvaluable ==
    ASSUME LedgerFacts, NEW read, OutcomesLoad(read), NEW key
    PROVE  Completed(key) \subseteq KeysIn(EvaluableOf(read, key))
<1>1. ASSUME NEW k \in Completed(key)
      PROVE  k \in KeysIn(EvaluableOf(read, key))
  <2>1. PICK o \in InScope : MetricGroupKey(o).coverage = key /\ k = o.artifact.key
    BY <1>1 DEF Completed
  <2>2. o \in RowSet(outcomes)
    BY DEF InScope
  <2>3. CoverageGroupKey(o.artifact, key.spec) = key
    <3>1. key = CoverageGroupKey(o.artifact, o.horizon)
      BY <2>1, GroupKeys, Zenon
    <3>2. key.spec = o.horizon
      BY <3>1, GroupKeys, Zenon
    <3>3. QED
      BY <3>1, <3>2
  <2>4. o.artifact \in read /\ IsEvaluable(o.artifact)
    BY <2>2, LoadedOutcome
  <2>5. o.artifact \in EvaluableOf(read, key)
    BY <2>3, <2>4 DEF EvaluableOf, Registered
  <2>6. QED
    BY <2>1, <2>5 DEF KeysIn
<1>2. QED
  BY <1>1

(* The claims of a group are some of those read, and so are the evaluable. *)
LEMMA RegisteredProperties ==
    ASSUME NEW read, IsFiniteSet(read), KeysApart(read), read \subseteq Artifacts, NEW key
    PROVE  /\ Registered(read, key) \in SUBSET Artifacts /\ Registered(read, key) \subseteq read
           /\ IsFiniteSet(Registered(read, key)) /\ Cardinality(Registered(read, key)) \in Nat
           /\ IsFiniteSet(EvaluableOf(read, key)) /\ Cardinality(EvaluableOf(read, key)) \in Nat
           /\ Cardinality(EvaluableOf(read, key)) <= Cardinality(Registered(read, key))
           /\ KeysApart(EvaluableOf(read, key))
<1>1. PICK claims : claims = Registered(read, key)
  OBVIOUS
<1>2. claims \in SUBSET read
  BY <1>1 DEF Registered
<1>3. IsFiniteSet(claims) /\ Cardinality(claims) \in Nat
  BY <1>2, FS_Subset, FS_CardinalityType
<1>4. PICK some : some = EvaluableOf(read, key)
  OBVIOUS
<1>5. some \in SUBSET claims
  BY <1>1, <1>4 DEF EvaluableOf
<1>6. IsFiniteSet(some) /\ Cardinality(some) \in Nat /\ Cardinality(some) <= Cardinality(claims)
  BY <1>3, <1>5, FS_Subset, FS_CardinalityType
<1>7. KeysApart(some)
  BY <1>2, <1>5 DEF KeysApart
<1>8. QED
  BY <1>1, <1>2, <1>3, <1>4, <1>6, <1>7

LEMMA CoverageGroupFields ==
    ASSUME NEW read, NEW key
    PROVE  /\ CoverageGroup(read, key).registered = Cardinality(Registered(read, key))
           /\ CoverageGroup(read, key).evaluable = Cardinality(EvaluableOf(read, key))
           /\ CoverageGroup(read, key).completed = Cardinality(Completed(key))
           /\ CoverageGroup(read, key).span = Span(Registered(read, key))
BY DEF CoverageGroup, EvaluableOf

LEMMA MetricGroupFields ==
    ASSUME NEW read, NEW key
    PROVE  /\ MetricGroup(read, key).registered = CoverageGroup(read, key.coverage).registered
           /\ MetricGroup(read, key).evaluable = CoverageGroup(read, key.coverage).evaluable
           /\ MetricGroup(read, key).sample = Cardinality(Measurements(key))
           /\ MetricGroup(read, key).span =
                 Span({outcome.artifact : outcome \in Measurements(key)})
BY DEF MetricGroup

(* No coverage group refuses itself.                                       *)
LEMMA CoverageGroupAccepted ==
    ASSUME LedgerFacts, NEW read, OutcomesLoad(read),
           IsFiniteSet(read), KeysApart(read), read \subseteq Artifacts,
           NEW key \in CoverageKeys(read)
    PROVE  IsCoverageGroup(CoverageGroup(read, key))
<1>1. PICK claims, some, done :
          /\ claims = Registered(read, key)
          /\ some = EvaluableOf(read, key)
          /\ done = Completed(key)
  OBVIOUS
<1>2. claims # {}
  <2>1. PICK a \in read, h \in Requested : key = CoverageGroupKey(a, h)
    BY DEF CoverageKeys
  <2>2. a \in Registered(read, key)
    BY <2>1, GroupKeys DEF Registered
  <2>3. QED
    BY <1>1, <2>2
<1>3. /\ claims \in SUBSET Artifacts /\ IsFiniteSet(claims) /\ Cardinality(claims) \in Nat
      /\ IsFiniteSet(some) /\ Cardinality(some) \in Nat /\ KeysApart(some)
      /\ Cardinality(some) <= Cardinality(claims)
  BY <1>1, RegisteredProperties
<1>4. Cardinality(claims) >= 1
  <2>1. Cardinality(claims) # 0
    BY <1>2, <1>3, FS_EmptySet
  <2>2. QED
    BY <1>3, <2>1
<1>5. Cardinality(done) <= Cardinality(some)
  <2>1. PICK keys : keys = KeysIn(some)
    OBVIOUS
  <2>2. done \in SUBSET keys
    BY <1>1, <2>1, CompletedAreEvaluable
  <2>3. IsFiniteSet(keys) /\ Cardinality(keys) = Cardinality(some)
    BY <1>3, <2>1, KeysCount
  <2>4. QED
    BY <2>2, <2>3, FS_Subset
<1>6. Span(claims).first <= Span(claims).last
  BY <1>2, <1>3, SpanIsOrdered
<1>7. QED
  BY <1>1, <1>3, <1>4, <1>5, <1>6, CoverageGroupFields DEF IsCoverageGroup

(* The samples of a metric group are distinct evaluable claims.            *)
LEMMA SamplesAreClaims ==
    ASSUME LedgerFacts, NEW read, OutcomesLoad(read),
           IsFiniteSet(read), KeysApart(read), read \subseteq Artifacts, NEW key
    PROVE  /\ IsFiniteSet(Measurements(key))
           /\ Cardinality(Measurements(key)) \in Nat
           /\ Cardinality(Measurements(key)) <= Cardinality(EvaluableOf(read, key.coverage))
<1>1. PICK samples, some : samples = Measurements(key) /\ some = EvaluableOf(read, key.coverage)
  OBVIOUS
<1>2. PICK f : f = [o \in samples |-> o.artifact]
  OBVIOUS
<1>3. Readable(outcomes)
  BY DEF OutcomesLoad
<1>4. samples \in SUBSET InScope /\ IsFiniteSet(InScope) /\ KeysApart(RowSet(outcomes))
  BY <1>1, <1>3, SecondReadProperties DEF Measurements
<1>5. IsFiniteSet(samples) /\ Cardinality(samples) \in Nat
  BY <1>4, FS_Subset, FS_CardinalityType
<1>6. ASSUME NEW o \in samples
      PROVE  /\ o \in RowSet(outcomes) /\ o.artifact \in some
             /\ o.key = <<o.artifact.key, o.horizon>> /\ o.horizon = key.coverage.spec
  <2>1. o \in RowSet(outcomes) /\ MetricGroupKey(o) = key
    BY <1>1 DEF Measurements, InScope
  <2>2. /\ CoverageGroupKey(o.artifact, o.horizon) = key.coverage
        /\ o.horizon = key.coverage.spec
    <3>1. CoverageGroupKey(o.artifact, o.horizon) = key.coverage
      BY <2>1, GroupKeys, Zenon
    <3>2. QED
      BY <3>1, GroupKeys, Zenon
  <2>3. /\ o.artifact \in read /\ IsEvaluable(o.artifact)
        /\ o.key = <<o.artifact.key, o.horizon>>
    BY <2>1, LoadedOutcome
  <2>4. o.artifact \in EvaluableOf(read, key.coverage)
    BY <2>2, <2>3 DEF EvaluableOf, Registered
  <2>5. QED
    BY <1>1, <2>1, <2>2, <2>3, <2>4
<1>7. f \in [samples -> some]
  BY <1>2, <1>6
<1>8. \A o, p \in samples : f[o] = f[p] => o = p
  BY <1>2, <1>4, <1>6 DEF KeysApart
<1>9. f \in Injection(samples, some)
  BY <1>7, <1>8 DEF Injection, IsInjective
<1>10. IsFiniteSet(some)
  BY <1>1, RegisteredProperties
<1>11. Cardinality(samples) <= Cardinality(some)
  BY <1>9, <1>10, FS_Injection
<1>12. QED
  BY <1>1, <1>5, <1>11

(* No metric group refuses itself, nor lacks its coverage group.           *)
LEMMA MetricGroupAccepted ==
    ASSUME LedgerFacts, NEW read, OutcomesLoad(read),
           IsFiniteSet(read), KeysApart(read), read \subseteq Artifacts,
           NEW key \in MetricKeys
    PROVE  key.coverage \in CoverageKeys(read) /\ IsMetricGroup(MetricGroup(read, key))
<1>1. PICK o \in InScope : key = MetricGroupKey(o)
  BY DEF MetricKeys
<1>2. /\ o \in RowSet(outcomes) /\ o.horizon \in Requested
      /\ key.coverage = CoverageGroupKey(o.artifact, o.horizon)
  BY <1>1, GroupKeys DEF InScope
<1>3. o.artifact \in read
  BY <1>2, LoadedOutcome
<1>4. key.coverage \in CoverageKeys(read)
  BY <1>2, <1>3 DEF CoverageKeys
<1>5. PICK samples, some, claims :
          /\ samples = Measurements(key)
          /\ some = EvaluableOf(read, key.coverage)
          /\ claims = Registered(read, key.coverage)
  OBVIOUS
<1>6. o \in samples
  BY <1>1, <1>5 DEF Measurements
<1>7. /\ IsFiniteSet(samples) /\ Cardinality(samples) \in Nat
      /\ Cardinality(samples) <= Cardinality(some)
  BY <1>5, SamplesAreClaims
<1>8. Cardinality(samples) >= 1
  <2>1. Cardinality(samples) # 0
    BY <1>6, <1>7, FS_EmptySet
  <2>2. QED
    BY <1>7, <2>1
<1>9. Cardinality(some) <= Cardinality(claims)
  BY <1>5, RegisteredProperties
<1>10. PICK measured : measured = {outcome.artifact : outcome \in Measurements(key)}
  OBVIOUS
<1>11. measured \in SUBSET Artifacts /\ measured # {}
  <2>1. \A p \in Measurements(key) : p \in RowSet(outcomes)
    BY DEF Measurements, InScope
  <2>2. \A p \in Measurements(key) : p.artifact \in read
    BY <2>1, LoadedOutcome
  <2>3. o.artifact \in measured
    BY <1>5, <1>6, <1>10
  <2>4. QED
    BY <1>10, <2>2, <2>3
<1>12. Span(measured).first <= Span(measured).last
  BY <1>11, SpanIsOrdered
<1>13. IsMetricGroup(MetricGroup(read, key))
  BY <1>5, <1>7, <1>8, <1>9, <1>10, <1>12, MetricGroupFields, CoverageGroupFields
     DEF IsMetricGroup
<1>14. QED
  BY <1>4, <1>13

-----------------------------------------------------------------------------
(* The summary: its totals.                                                *)

KeysOver(read, h) == {key \in CoverageKeys(read) : key.spec = h}
ClaimsByKey(read, h) == [key \in KeysOver(read, h) |-> Registered(read, key)]
SamplesByKey == [key \in MetricKeys |-> Measurements(key)]

(* The registered total adds up the sizes of the groups' claims.           *)
LEMMA RegisteredIsSum ==
    ASSUME NEW read, NEW h, IsFiniteSet(KeysOver(read, h))
    PROVE  ArtifactsRegistered(read, h) =
              TotalOf(Sizes(ClaimsByKey(read, h), KeysOver(read, h)), KeysOver(read, h))
<1> DEFINE keys == KeysOver(read, h)
           weight == Sizes(ClaimsByKey(read, h), keys)
           Counted(s, rest) ==
               IF s = {} THEN 0
               ELSE CoverageGroup(read, Chosen(s)).registered + rest[s \ {Chosen(s)}]
           Weighed(s, rest) ==
               IF s = {} THEN 0 ELSE weight[Chosen(s)] + rest[s \ {Chosen(s)}]
           IsCount(f) == f = [s \in SUBSET keys |-> Counted(s, f)]
<1>1. ASSUME NEW f, NEW s \in SUBSET keys
      PROVE  Counted(s, f) = Weighed(s, f)
  <2>1. s # {} => Chosen(s) \in s
    BY Zenon DEF Chosen
  <2>2. \A key \in keys : weight[key] = CoverageGroup(read, key).registered
    BY CoverageGroupFields DEF Sizes, ClaimsByKey
  <2>3. s # {} => weight[Chosen(s)] = CoverageGroup(read, Chosen(s)).registered
    BY <2>1, <2>2
  <2>4. QED
    BY <2>3
<1>2. ArtifactsRegistered(read, h) = (CHOOSE f : IsCount(f))[keys]
  BY Zenon DEF ArtifactsRegistered, MapThenSumSet, MapThenFoldSet, Chosen, KeysOver
<1>3. \A f : IsTotal(weight, keys, f) <=> f = [s \in SUBSET keys |-> Weighed(s, f)]
  BY Zenon DEF IsTotal
<1> HIDE DEF Counted, Weighed
<1>4. \A f : IsCount(f) <=> IsTotal(weight, keys, f)
  <2>1. ASSUME NEW f
        PROVE  [s \in SUBSET keys |-> Counted(s, f)] = [s \in SUBSET keys |-> Weighed(s, f)]
    BY <1>1
  <2>2. QED
    BY <1>3, <2>1, Zenon
<1> HIDE DEF IsCount
<1>5. \E f : IsCount(f)
  BY <1>4, TotalExists
<1>6. PICK f : f = (CHOOSE g : IsCount(g)) /\ IsCount(f)
  BY <1>5, Zenon
<1>7. TotalOf(weight, keys) = f[keys]
  BY <1>4, <1>6, TotalIsUnique
<1>8. QED
  BY <1>2, <1>6, <1>7

(* The completed total adds up the sizes of the groups' samples.           *)
LEMMA CompletedIsSum ==
    ASSUME NEW read, IsFiniteSet(MetricKeys)
    PROVE  OutcomesCompleted(read) = TotalOf(Sizes(SamplesByKey, MetricKeys), MetricKeys)
<1> DEFINE weight == Sizes(SamplesByKey, MetricKeys)
           Counted(s, rest) ==
               IF s = {} THEN 0
               ELSE MetricGroup(read, Chosen(s)).sample + rest[s \ {Chosen(s)}]
           Weighed(s, rest) ==
               IF s = {} THEN 0 ELSE weight[Chosen(s)] + rest[s \ {Chosen(s)}]
           IsCount(f) == f = [s \in SUBSET MetricKeys |-> Counted(s, f)]
<1>1. ASSUME NEW f, NEW s \in SUBSET MetricKeys
      PROVE  Counted(s, f) = Weighed(s, f)
  <2>1. s # {} => Chosen(s) \in s
    BY Zenon DEF Chosen
  <2>2. \A key \in MetricKeys : weight[key] = MetricGroup(read, key).sample
    BY MetricGroupFields DEF Sizes, SamplesByKey
  <2>3. s # {} => weight[Chosen(s)] = MetricGroup(read, Chosen(s)).sample
    BY <2>1, <2>2
  <2>4. QED
    BY <2>3
<1>2. OutcomesCompleted(read) = (CHOOSE f : IsCount(f))[MetricKeys]
  BY Zenon DEF OutcomesCompleted, MapThenSumSet, MapThenFoldSet, Chosen
<1>3. \A f : IsTotal(weight, MetricKeys, f) <=>
                f = [s \in SUBSET MetricKeys |-> Weighed(s, f)]
  BY Zenon DEF IsTotal
<1> HIDE DEF Counted, Weighed
<1>4. \A f : IsCount(f) <=> IsTotal(weight, MetricKeys, f)
  <2>1. ASSUME NEW f
        PROVE  [s \in SUBSET MetricKeys |-> Counted(s, f)] =
               [s \in SUBSET MetricKeys |-> Weighed(s, f)]
    BY <1>1
  <2>2. QED
    BY <1>3, <2>1, Zenon
<1> HIDE DEF IsCount
<1>5. \E f : IsCount(f)
  BY <1>4, TotalExists
<1>6. PICK f : f = (CHOOSE g : IsCount(g)) /\ IsCount(f)
  BY <1>5, Zenon
<1>7. TotalOf(weight, MetricKeys) = f[MetricKeys]
  BY <1>4, <1>6, TotalIsUnique
<1>8. QED
  BY <1>2, <1>6, <1>7

(* Under each specification every claim is in one group.                   *)
LEMMA RegisteredReconciles ==
    ASSUME NEW read, IsFiniteSet(read), NEW h \in Requested
    PROVE  ArtifactsRegistered(read, h) = Cardinality(read)
<1>1. PICK keys, piece : keys = KeysOver(read, h) /\ piece = ClaimsByKey(read, h)
  OBVIOUS
<1>2. \A a \in read : CoverageGroupKey(a, h) \in keys
  BY <1>1, GroupKeys DEF KeysOver, CoverageKeys
<1>3. ASSUME NEW key \in keys
      PROVE  key.spec = h /\ \E a \in read : CoverageGroupKey(a, h) = key
  <2>1. key.spec = h /\ \E a \in read, g \in Requested : key = CoverageGroupKey(a, g)
    BY <1>1 DEF KeysOver, CoverageKeys
  <2>2. PICK a \in read, g \in Requested : key = CoverageGroupKey(a, g)
    BY <2>1
  <2>3. g = h
    BY <2>1, <2>2, GroupKeys, Zenon
  <2>4. QED
    BY <2>1, <2>2, <2>3
<1>4. IsFiniteSet(keys)
  <2>1. PICK f : f = [a \in read |-> CoverageGroupKey(a, h)]
    OBVIOUS
  <2>2. f \in Surjection(read, keys)
    BY <1>2, <1>3, <2>1 DEF Surjection
  <2>3. QED
    BY <2>2, FS_Surjection
<1>5. \A key \in keys : piece[key] = {a \in read : CoverageGroupKey(a, h) = key}
  BY <1>1, <1>3 DEF ClaimsByKey, Registered
<1>6. AllFinite(piece, keys)
  <2>1. ASSUME NEW key \in keys
        PROVE  IsFiniteSet(piece[key])
    <3>1. PICK claims : claims = piece[key]
      OBVIOUS
    <3>2. claims \in SUBSET read
      BY <1>5, <3>1
    <3>3. QED
      BY <3>1, <3>2, FS_Subset
  <2>2. QED
    BY <2>1 DEF AllFinite
<1>7. Apart(piece, keys)
  BY <1>5 DEF Apart
<1>8. Joined(piece, keys) = read
  <2>1. \A key \in keys : piece[key] \subseteq read
    BY <1>5
  <2>2. \A a \in read : \E key \in keys : a \in piece[key]
    BY <1>2, <1>5
  <2>3. QED
    BY <2>1, <2>2, Zenon DEF Joined
<1>9. TotalOf(Sizes(piece, keys), keys) = Cardinality(Joined(piece, keys))
  BY <1>4, <1>6, <1>7, SizesAddUp
<1>10. QED
  BY <1>1, <1>4, <1>8, <1>9, RegisteredIsSum

(* Every line in scope is one sample of one group.                         *)
LEMMA CompletedReconciles ==
    ASSUME LedgerFacts, Readable(outcomes), NEW read
    PROVE  OutcomesCompleted(read) = Cardinality(InScope)
<1>1. PICK scope, keys, piece :
          scope = InScope /\ keys = MetricKeys /\ piece = SamplesByKey
  OBVIOUS
<1>2. IsFiniteSet(scope)
  BY <1>1, SecondReadProperties
<1>3. keys = {MetricGroupKey(o) : o \in scope}
  BY <1>1 DEF MetricKeys
<1>4. IsFiniteSet(keys)
  <2>1. PICK f : f = [o \in scope |-> MetricGroupKey(o)]
    OBVIOUS
  <2>2. f \in Surjection(scope, keys)
    BY <1>3, <2>1 DEF Surjection
  <2>3. QED
    BY <1>2, <2>2, FS_Surjection
<1>5. \A key \in keys : piece[key] = {o \in scope : MetricGroupKey(o) = key}
  BY <1>1 DEF SamplesByKey, Measurements
<1>6. AllFinite(piece, keys)
  <2>1. ASSUME NEW key \in keys
        PROVE  IsFiniteSet(piece[key])
    <3>1. PICK samples : samples = piece[key]
      OBVIOUS
    <3>2. samples \in SUBSET scope
      BY <1>5, <3>1
    <3>3. QED
      BY <1>2, <3>1, <3>2, FS_Subset
  <2>2. QED
    BY <2>1 DEF AllFinite
<1>7. Apart(piece, keys)
  BY <1>5 DEF Apart
<1>8. Joined(piece, keys) = scope
  <2>1. \A key \in keys : piece[key] \subseteq scope
    BY <1>5
  <2>2. \A o \in scope : \E key \in keys : o \in piece[key]
    BY <1>3, <1>5
  <2>3. QED
    BY <2>1, <2>2, Zenon DEF Joined
<1>9. TotalOf(Sizes(piece, keys), keys) = Cardinality(Joined(piece, keys))
  BY <1>4, <1>6, <1>7, SizesAddUp
<1>10. QED
  BY <1>1, <1>4, <1>8, <1>9, CompletedIsSum

-----------------------------------------------------------------------------
(* The summary: it reconciles.                                             *)

(* A claim counts as completed if and only if its line is there.           *)
LEMMA CompletedAreMeasured ==
    ASSUME LedgerFacts, NEW read, OutcomesLoad(read), KeysApart(read),
           NEW key \in CoverageKeys(read)
    PROVE  Completed(key) =
              {a.key : a \in {b \in Registered(read, key) : <<b.key, key.spec>> \in Keys(outcomes)}}
<1>1. ASSUME NEW k \in Completed(key)
      PROVE  \E a \in Registered(read, key) :
                 k = a.key /\ <<a.key, key.spec>> \in Keys(outcomes)
  <2>1. PICK o \in InScope : MetricGroupKey(o).coverage = key /\ k = o.artifact.key
    BY <1>1 DEF Completed
  <2>2. o \in RowSet(outcomes)
    BY DEF InScope
  <2>3. key = CoverageGroupKey(o.artifact, o.horizon)
    BY <2>1, GroupKeys, Zenon
  <2>4. key.spec = o.horizon
    BY <2>3, GroupKeys, Zenon
  <2>5. /\ o.artifact \in read /\ o.key \in Keys(outcomes)
        /\ o.key = <<o.artifact.key, o.horizon>>
    BY <2>2, LoadedOutcome
  <2>6. o.artifact \in Registered(read, key)
    BY <2>3, <2>4, <2>5 DEF Registered
  <2>7. QED
    BY <2>1, <2>4, <2>5, <2>6
<1>2. ASSUME NEW b \in Registered(read, key), <<b.key, key.spec>> \in Keys(outcomes)
      PROVE  b.key \in Completed(key)
  <2>1. PICK o \in RowSet(outcomes) : o.key = <<b.key, key.spec>>
    BY <1>2, KeysOfRows
  <2>2. o.artifact \in read /\ o.key = <<o.artifact.key, o.horizon>>
    BY LoadedOutcome
  <2>3. o.artifact.key = b.key /\ o.horizon = key.spec
    BY <2>1, <2>2
  <2>4. b \in read /\ CoverageGroupKey(b, key.spec) = key
    BY DEF Registered
  <2>5. o.artifact = b
    BY <2>2, <2>3, <2>4 DEF KeysApart
  <2>6. key.spec \in Requested
    <3>1. PICK a \in read, h \in Requested : key = CoverageGroupKey(a, h)
      BY DEF CoverageKeys
    <3>2. key.spec = h
      BY <3>1, GroupKeys, Zenon
    <3>3. QED
      BY <3>2
  <2>7. o \in InScope
    BY <2>3, <2>6 DEF InScope
  <2>8. MetricGroupKey(o).coverage = key
    <3>1. MetricGroupKey(o).coverage = CoverageGroupKey(o.artifact, o.horizon)
      BY GroupKeys, Zenon
    <3>2. QED
      BY <2>3, <2>4, <2>5, <3>1
  <2>9. QED
    BY <2>3, <2>7, <2>8 DEF Completed
<1>3. QED
  BY <1>1, <1>2

(* A metric group is there if and only if something was completed.         *)
LEMMA MetricsFollowCompletion ==
    ASSUME NEW key
    PROVE  MetricGroupsFor(key) # {} <=> Completed(key) # {}
<1>1. MetricGroupsFor(key) # {} <=> \E o \in InScope : MetricGroupKey(o).coverage = key
  BY DEF MetricGroupsFor, MetricKeys
<1>2. Completed(key) # {} <=> \E o \in InScope : MetricGroupKey(o).coverage = key
  BY DEF Completed
<1>3. QED
  BY <1>1, <1>2

(* A summary that holds the artifacts of any first read.                   *)
LEMMA SummaryFollows == LedgerFacts => SummaryReconciles
<1>1. SUFFICES ASSUME LedgerFacts PROVE SummaryReconciles
  OBVIOUS
<1>2. ASSUME NEW read \in FirstReads
      PROVE  /\ IsSummarized(read) <=> Readable(outcomes) /\ ~IsOvertaken(read)
             /\ IsSummarized(read) =>
                  /\ \A h \in Requested : ArtifactsRegistered(read, h) = Cardinality(read)
                  /\ OutcomesCompleted(read) = Cardinality(InScope)
                  /\ \A key \in CoverageKeys(read) :
                        /\ Completed(key) =
                              {a.key : a \in {b \in Registered(read, key) :
                                                 <<b.key, key.spec>> \in Keys(outcomes)}}
                        /\ MetricGroupsFor(key) # {} <=> Completed(key) # {}
  <2>1. /\ read \subseteq RowSet(artifacts) /\ read \subseteq Artifacts
        /\ IsFiniteSet(read) /\ KeysApart(read)
    BY <1>1, FirstReadProperties DEF LedgerFacts
  <2>2. OutcomesLoad(read) <=> Readable(outcomes) /\ ~IsOvertaken(read)
    BY <1>1, <2>1, LoadsUnlessOvertaken
  <2>3. OutcomesLoad(read) => IsSummarized(read)
    BY <1>1, <2>1, CoverageGroupAccepted, MetricGroupAccepted DEF IsSummarized
  <2>4. IsSummarized(read) => OutcomesLoad(read)
    BY DEF IsSummarized
  <2>5. \A h \in Requested : ArtifactsRegistered(read, h) = Cardinality(read)
    BY <2>1, RegisteredReconciles
  <2>6. IsSummarized(read) => OutcomesCompleted(read) = Cardinality(InScope)
    BY <1>1, <2>4, CompletedReconciles DEF OutcomesLoad
  <2>7. ASSUME IsSummarized(read), NEW key \in CoverageKeys(read)
        PROVE  /\ Completed(key) =
                     {a.key : a \in {b \in Registered(read, key) :
                                        <<b.key, key.spec>> \in Keys(outcomes)}}
               /\ MetricGroupsFor(key) # {} <=> Completed(key) # {}
    BY <1>1, <2>1, <2>4, <2>7, CompletedAreMeasured, MetricsFollowCompletion
  <2>8. QED
    BY <2>2, <2>3, <2>4, <2>5, <2>6, <2>7
<1>3. QED
  BY <1>2, Zenon DEF SummaryReconciles

(* A summary reads the two files with no lock between (outcomes/summary.py,*)
(* summarize_outcomes), while any number of refreshes write: it is refused *)
(* exactly when a file cannot be read or a claim was registered and        *)
(* measured between the two reads, and one that returns counts every claim *)
(* and every line once.  An outcome line whose claim the first read missed *)
(* is the only way its groups could disagree, because a line carries the   *)
(* key of its own claim, that claim is in the ledger to the last field, and*)
(* was evaluable when it was measured.                                     *)
THEOREM SummariesReconcile == Spec => []SummaryReconciles
<1> DEFINE Inv == TypeInv /\ RegistrationInv /\ HindsightInv /\ NamedInv
<1>1. Init => Inv
  BY TypeInit, RegistrationInit, HindsightInit, NamedInit
<1>2. Inv /\ [Next]_vars => Inv'
  BY TypeNext, RegistrationNext, HindsightNext, NamedNext
<1>3. Inv => SummaryReconciles
  <2>1. Inv => LedgerFacts
    BY DEF TypeInv, RegistrationInv, HindsightInv, NamedInv, LedgerFacts
  <2>2. QED
    BY <2>1, SummaryFollows
<1>4. QED
  BY <1>1, <1>2, <1>3, PTL DEF Spec

-----------------------------------------------------------------------------
(* The report: a measurement by index.                                     *)

(* The bars of a series, in order, the claimed one among them.             *)
LEMMA LocateProperties ==
    ASSUME NEW bars \in Bars, NEW t \in DOMAIN bars
    PROVE  /\ IsFiniteSet(DOMAIN bars) /\ Cardinality(DOMAIN bars) \in Nat
           /\ DOMAIN bars \subseteq Days /\ Days \subseteq Int
           /\ Locate(bars, t) \in 1 .. Cardinality(DOMAIN bars)
           /\ Timestamps(bars)[Locate(bars, t)] = t
           /\ Timestamps(bars) \in Seq(DOMAIN bars)
           /\ Len(Timestamps(bars)) = Cardinality(DOMAIN bars)
           /\ DOMAIN Timestamps(bars) = 1 .. Cardinality(DOMAIN bars)
           /\ \A d \in DOMAIN bars : \E k \in 1 .. Cardinality(DOMAIN bars) :
                 Timestamps(bars)[k] = d
           /\ \A i, j \in 1 .. Cardinality(DOMAIN bars) :
                 i < j => Timestamps(bars)[i] < Timestamps(bars)[j]
<1>1. PICK days : days = DOMAIN bars
  OBVIOUS
<1>2. days \in SUBSET Days
  BY <1>1, BarsProperty
<1>3. Days \subseteq Int
  BY ConstantsAssumption DEF Days
<1>4. IsFiniteSet(days) /\ days \in SUBSET Int
  BY <1>2, <1>3, DaysFinite
<1>5. /\ Cardinality(days) \in Nat
      /\ Ascending(days) \in Seq(days) /\ Len(Ascending(days)) = Cardinality(days)
      /\ DOMAIN Ascending(days) = 1 .. Cardinality(days)
      /\ \A d \in days : \E k \in 1 .. Cardinality(days) : Ascending(days)[k] = d
      /\ \A i, j \in 1 .. Cardinality(days) : i < j => Ascending(days)[i] < Ascending(days)[j]
  BY <1>4, AscendingProperties
<1>6. Timestamps(bars) = Ascending(days)
  BY <1>1 DEF Timestamps
<1>7. \E i \in DOMAIN Timestamps(bars) : Timestamps(bars)[i] = t
  BY <1>1, <1>5, <1>6
<1>8. Locate(bars, t) \in DOMAIN Timestamps(bars) /\ Timestamps(bars)[Locate(bars, t)] = t
  BY <1>7, Zenon DEF Locate
<1>9. QED
  BY <1>1, <1>2, <1>3, <1>4, <1>5, <1>6, <1>8

Stretch(s, i, k) == {s[j] : j \in i + 1 .. k}

IsRising(s, n) ==
    /\ n \in Nat /\ DOMAIN s = 1 .. n
    /\ \A i \in 1 .. n : s[i] \in Int
    /\ \A i, j \in 1 .. n : i < j => s[i] < s[j]

(* The numbers from i + 1 to k are k - i many, and so are the bars there.  *)
LEMMA StretchCount ==
    ASSUME NEW s, NEW n, IsRising(s, n), NEW i \in 1 .. n, NEW k \in i .. n
    PROVE  Cardinality(Stretch(s, i, k)) = k - i
<1>0. i \in Nat /\ k \in Nat /\ n \in Nat /\ i >= 1 /\ i <= k /\ k <= n
  BY DEF IsRising
<1>1. PICK places : places = i + 1 .. k
  OBVIOUS
<1>2. IsFiniteSet(places) /\ Cardinality(places) = k - i
  <2>1. PICK low \in Int : low = i + 1
    BY <1>0
  <2>2. IsFiniteSet(low .. k) /\ Cardinality(low .. k) = IF low > k THEN 0 ELSE k - low + 1
    BY <1>0, FS_Interval
  <2>3. QED
    BY <1>0, <1>1, <2>1, <2>2
<1>3. PICK image : image = {s[j] : j \in places}
  OBVIOUS
<1>4. PICK f : f = [j \in places |-> s[j]]
  OBVIOUS
<1>5. f \in [places -> image]
  BY <1>3, <1>4
<1>6. ASSUME NEW a \in places, NEW b \in places, f[a] = f[b]
      PROVE  a = b
  <2>1. a \in 1 .. n /\ b \in 1 .. n /\ s[a] = s[b] /\ s[a] \in Int /\ s[b] \in Int
    BY <1>0, <1>1, <1>4, <1>6 DEF IsRising
  <2>2. ~(a < b) /\ ~(b < a)
    BY <2>1 DEF IsRising
  <2>3. QED
    BY <2>1, <2>2
<1>7. \A x \in image : \E j \in places : f[j] = x
  BY <1>3, <1>4
<1>8. Cardinality(image) = Cardinality(places)
  BY <1>2, <1>5, <1>6, <1>7, SameSize
<1>9. QED
  BY <1>1, <1>2, <1>3, <1>8 DEF Stretch

(* The bars after the claimed one, and how many there are up to each.      *)
LEMMA LaterByIndex ==
    ASSUME NEW bars \in Bars, NEW t \in DOMAIN bars,
           NEW n, n = Cardinality(DOMAIN bars), NEW s, s = Timestamps(bars),
           NEW i, i = Locate(bars, t)
    PROVE  /\ Later(bars, t) = Stretch(s, i, n)
           /\ Cardinality(Later(bars, t)) = n - i
           /\ \A k \in i + 1 .. n :
                 Cardinality({e \in Later(bars, t) : e <= s[k]}) = k - i
<1>1. /\ n \in Nat /\ DOMAIN s = 1 .. n /\ i \in 1 .. n /\ s[i] = t
      /\ s \in Seq(DOMAIN bars) /\ DOMAIN bars \subseteq Int
      /\ \A a, b \in 1 .. n : a < b => s[a] < s[b]
      /\ \A d \in DOMAIN bars : \E k \in 1 .. n : s[k] = d
  BY LocateProperties
<1>2. \A k \in 1 .. n : s[k] \in DOMAIN bars /\ s[k] \in Int
  BY <1>1
<1>2a. IsRising(s, n)
  BY <1>1, <1>2 DEF IsRising
<1>3. \A k \in 1 .. n : k > i <=> s[k] > t
  <2>1. ASSUME NEW k \in 1 .. n
        PROVE  k > i <=> s[k] > t
    <3>1. s[k] \in Int /\ t \in Int
      BY <1>1, <1>2
    <3>2. CASE k > i
      BY <1>1, <3>1, <3>2
    <3>3. CASE k = i
      BY <1>1, <3>1, <3>3
    <3>4. CASE k < i
      BY <1>1, <3>1, <3>4
    <3>5. QED
      BY <1>1, <3>2, <3>3, <3>4
  <2>2. QED
    BY <2>1
<1>4. \A a, b \in 1 .. n : s[a] <= s[b] <=> a <= b
  <2>1. ASSUME NEW a \in 1 .. n, NEW b \in 1 .. n
        PROVE  s[a] <= s[b] <=> a <= b
    <3>1. s[a] \in Int /\ s[b] \in Int
      BY <1>2
    <3>2. CASE a < b
      BY <1>1, <3>1, <3>2
    <3>3. CASE a = b
      BY <3>1, <3>3
    <3>4. CASE b < a
      BY <1>1, <3>1, <3>4
    <3>5. QED
      BY <3>2, <3>3, <3>4
  <2>2. QED
    BY <2>1
<1>5. Later(bars, t) = Stretch(s, i, n)
  <2>1. \A d \in Later(bars, t) : \E j \in i + 1 .. n : s[j] = d
    BY <1>1, <1>3 DEF Later
  <2>2. \A j \in i + 1 .. n : s[j] \in Later(bars, t)
    BY <1>1, <1>2, <1>3 DEF Later
  <2>3. QED
    BY <2>1, <2>2 DEF Stretch
<1>6. Cardinality(Later(bars, t)) = n - i
  <2>1. n \in i .. n
    BY <1>1
  <2>2. QED
    BY <1>1, <1>2a, <1>5, <2>1, StretchCount
<1>7. ASSUME NEW k \in i + 1 .. n
      PROVE  Cardinality({e \in Later(bars, t) : e <= s[k]}) = k - i
  <2>1. {e \in Later(bars, t) : e <= s[k]} = Stretch(s, i, k)
    <3>1. \A j \in i + 1 .. n : s[j] <= s[k] <=> j <= k
      BY <1>1, <1>4
    <3>2. \A j \in i + 1 .. k : j \in i + 1 .. n /\ s[j] <= s[k]
      BY <1>1, <3>1
    <3>3. \A j \in i + 1 .. n : s[j] <= s[k] => j \in i + 1 .. k
      BY <1>1, <3>1
    <3>4. QED
      BY <1>5, <3>2, <3>3 DEF Stretch
  <2>2. k \in i .. n
    BY <1>1
  <2>3. Cardinality(Stretch(s, i, k)) = k - i
    BY <1>1, <1>2a, <2>2, StretchCount
  <2>4. QED
    BY <2>1, <2>3
<1>8. QED
  BY <1>5, <1>6, <1>7

(* The index arithmetic is the definition of a horizon, for every series,  *)
(* bar and horizon: a forward measurement is evaluated exactly when the    *)
(* horizon is complete, from its first bar to its last, and never describes*)
(* a bar its status says was not reached (_locate and _measure_at of       *)
(* src/evaluation/evaluate.py, the status rules of outcome.py there).      *)
THEOREM MeasuredByIndex ==
    ASSUME NEW bars \in Bars, NEW t \in DOMAIN bars, NEW h \in Nat \ {0},
           NEW m, m = MeasureForward(bars, t, h)
    PROVE  /\ m.status \in {"evaluated", "insufficient_future_data", "no_reference_bar"}
           /\ m.status = "evaluated" <=> IsComplete(bars, t, h)
           /\ IsStatusConsistent(m)
           /\ IsComplete(bars, t, h) =>
                 /\ m.reference = Earliest(HorizonDays(bars, t, h))
                 /\ m.future = Latest(HorizonDays(bars, t, h))
<1>1. PICK n, s, i : n = Cardinality(DOMAIN bars) /\ s = Timestamps(bars) /\ i = Locate(bars, t)
  OBVIOUS
<1>2. /\ n \in Nat /\ DOMAIN s = 1 .. n /\ Len(s) = n /\ i \in 1 .. n /\ s[i] = t
      /\ s \in Seq(DOMAIN bars) /\ DOMAIN bars \subseteq Days /\ Days \subseteq Int
      /\ \A a, b \in 1 .. n : a < b => s[a] < s[b]
  BY <1>1, LocateProperties
<1>3. \A k \in 1 .. n : s[k] \in Days /\ s[k] \in Int /\ s[k] # NoBar
  <2>1. ASSUME NEW k \in 1 .. n
        PROVE  s[k] \in Days
    BY <1>2
  <2>2. \A d \in Days : d # NoBar /\ d \in Int
    BY ConstantsAssumption DEF Days, NoBar
  <2>3. QED
    BY <2>1, <2>2
<1>4. /\ Later(bars, t) = Stretch(s, i, n)
      /\ Cardinality(Later(bars, t)) = n - i
      /\ \A k \in i + 1 .. n : Cardinality({e \in Later(bars, t) : e <= s[k]}) = k - i
  BY <1>1, LaterByIndex
<1>5. IsComplete(bars, t, h) <=> i + h <= n
  BY <1>2, <1>4 DEF IsComplete
<1>6. m = IF i + 1 > n THEN Measurement("no_reference_bar", NoBar, NoBar)
          ELSE IF i + 1 + (h - 1) > n
               THEN Measurement("insufficient_future_data", s[i + 1], NoBar)
               ELSE Measurement("evaluated", s[i + 1], s[i + 1 + (h - 1)])
  BY <1>1, <1>2 DEF MeasureForward, MeasureAt, FutureOffset
<1>7. CASE i + 1 > n
  <2>1. m = [status |-> "no_reference_bar", reference |-> NoBar, future |-> NoBar]
    BY <1>6, <1>7 DEF Measurement
  <2>2. ~IsComplete(bars, t, h)
    BY <1>2, <1>5, <1>7
  <2>3. QED
    BY <2>1, <2>2 DEF IsStatusConsistent
<1>8. CASE i + 1 <= n /\ i + h > n
  <2>1. ~(i + 1 > n) /\ i + 1 + (h - 1) > n /\ i + 1 \in 1 .. n
    BY <1>2, <1>8
  <2>2. m = [status |-> "insufficient_future_data", reference |-> s[i + 1], future |-> NoBar]
    BY <1>6, <2>1 DEF Measurement
  <2>3. ~IsComplete(bars, t, h)
    BY <1>2, <1>5, <1>8
  <2>4. s[i + 1] # NoBar
    BY <1>3, <2>1
  <2>5. QED
    BY <2>2, <2>3, <2>4 DEF IsStatusConsistent
<1>9. CASE i + h <= n
  <2>1. ~(i + 1 > n) /\ ~(i + 1 + (h - 1) > n) /\ i + 1 \in 1 .. n /\ i + 1 + (h - 1) = i + h
        /\ i + h \in 1 .. n
    BY <1>2, <1>9
  <2>2. m = [status |-> "evaluated", reference |-> s[i + 1], future |-> s[i + h]]
    BY <1>6, <2>1 DEF Measurement
  <2>3. s[i + 1] # NoBar /\ s[i + h] # NoBar
    BY <1>3, <2>1
  <2>4. IsComplete(bars, t, h)
    BY <1>5, <1>9
  <2>5. PICK days : days = HorizonDays(bars, t, h)
    OBVIOUS
  <2>6. ASSUME NEW k \in i + 1 .. n
        PROVE  s[k] \in days <=> k <= i + h
    <3>1. s[k] \in Later(bars, t)
      BY <1>4 DEF Stretch
    <3>2. s[k] \in days <=> Cardinality({e \in Later(bars, t) : e <= s[k]}) <= h
      BY <2>5, <3>1 DEF HorizonDays
    <3>3. k \in Int /\ i \in Int /\ h \in Int
      BY <1>2
    <3>4. QED
      BY <1>4, <3>2, <3>3
  <2>7. \A d \in days : \E k \in i + 1 .. i + h : d = s[k]
    <3>1. ASSUME NEW d \in days
          PROVE  \E k \in i + 1 .. i + h : d = s[k]
      <4>1. d \in Later(bars, t)
        BY <2>5 DEF HorizonDays
      <4>2. PICK k \in i + 1 .. n : d = s[k]
        BY <1>4, <4>1 DEF Stretch
      <4>3. k <= i + h
        BY <2>6, <4>2
      <4>4. k \in i + 1 .. i + h
        BY <1>2, <4>2, <4>3
      <4>5. QED
        BY <4>2, <4>4
    <3>2. QED
      BY <3>1
  <2>8. s[i + 1] \in days /\ s[i + h] \in days
    <3>1. i + 1 \in i + 1 .. n /\ i + h \in i + 1 .. n /\ i + 1 <= i + h /\ i + h <= i + h
      BY <1>2, <1>9
    <3>2. QED
      BY <2>6, <3>1
  <2>9. \A d \in days : s[i + 1] <= d /\ d <= s[i + h]
    <3>1. ASSUME NEW d \in days
          PROVE  s[i + 1] <= d /\ d <= s[i + h]
      <4>1. PICK k \in i + 1 .. i + h : d = s[k]
        BY <2>7
      <4>2. k \in 1 .. n /\ s[k] \in Int /\ s[i + 1] \in Int /\ s[i + h] \in Int
        BY <1>2, <1>3, <1>9, <2>1
      <4>3. s[i + 1] <= s[k]
        <5>1. CASE k = i + 1
          BY <4>2, <5>1
        <5>2. CASE i + 1 < k
          BY <1>2, <2>1, <4>2, <5>2
        <5>3. QED
          BY <1>2, <5>1, <5>2
      <4>4. s[k] <= s[i + h]
        <5>1. CASE k = i + h
          BY <4>2, <5>1
        <5>2. CASE k < i + h
          BY <1>2, <2>1, <4>2, <5>2
        <5>3. QED
          BY <1>2, <5>1, <5>2
      <4>5. QED
        BY <4>1, <4>3, <4>4
    <3>2. QED
      BY <3>1
  <2>10. days \in SUBSET Days /\ days # {} /\ days \subseteq Int
    BY <1>2, <2>5, <2>8 DEF HorizonDays, Later
  <2>11. /\ Earliest(days) \in days /\ \A d \in days : Earliest(days) <= d
         /\ Latest(days) \in days /\ \A d \in days : d <= Latest(days)
    BY <2>10, EarliestProperty, LatestProperty
  <2>12. PICK first, last, low, high :
             /\ first = Earliest(days) /\ last = Latest(days)
             /\ low = s[i + 1] /\ high = s[i + h]
    OBVIOUS
  <2>13. /\ first \in Int /\ last \in Int /\ low \in Int /\ high \in Int
         /\ first <= low /\ low <= first /\ last <= high /\ high <= last
    BY <2>8, <2>9, <2>10, <2>11, <2>12
  <2>14. first = low /\ last = high
    BY <2>13
  <2>15. m.reference = Earliest(days) /\ m.future = Latest(days)
    BY <2>2, <2>12, <2>14
  <2>16. IsStatusConsistent(m) /\ m.status = "evaluated"
    BY <2>2, <2>3 DEF IsStatusConsistent
  <2>17. QED
    BY <2>4, <2>5, <2>15, <2>16
<1>10. QED
  BY <1>2, <1>7, <1>8, <1>9

(* The result of tracking a claim that is no hard error contradicts itself *)
(* nowhere, and is evaluated exactly when the claim is due                 *)
(* (evaluate_artifact and TrackingResult of src/outcomes/tracking.py).     *)
THEOREM TrackingResultHolds ==
    ASSUME NEW s \in Snapshots, NEW artifact \in Artifacts, NEW h \in Nat \ {0},
           ~IsHardError(artifact, s), NEW r, r = EvaluateArtifact(artifact, s, h)
    PROVE  /\ IsTrackingResult(r)
           /\ r.status = "evaluated" <=> IsDue(artifact, h, s)
<1>1. PICK m : m = MeasureForward(s.bars, artifact.timestamp, h)
  OBVIOUS
<1>2. s.bars \in Bars
  BY DEF Snapshots
<1>3. r = IF ~IsEvaluable(artifact) THEN Result("ineligible", NoReason, <<>>)
          ELSE IF artifact.source # s.source THEN Result("refused", "source_mismatch", <<>>)
          ELSE IF s.bars[artifact.timestamp] # artifact.fingerprint
               THEN Result("refused", "source_bar_revised", <<>>)
          ELSE IF m.status = "evaluated" THEN Result("evaluated", NoReason, <<m>>)
          ELSE Result("pending", NoReason, <<m>>)
  BY <1>1 DEF EvaluateArtifact
<1>4. CASE ~IsEvaluable(artifact)
  <2>1. r = [status |-> "ineligible", refusal |-> NoReason, measurement |-> <<>>]
    BY <1>3, <1>4 DEF Result
  <2>2. QED
    BY <1>4, <2>1 DEF IsTrackingResult, RefusalReasons, NoReason, IsDue
<1>5. CASE IsEvaluable(artifact) /\ artifact.source # s.source
  <2>1. r = [status |-> "refused", refusal |-> "source_mismatch", measurement |-> <<>>]
    BY <1>3, <1>5 DEF Result
  <2>2. QED
    BY <1>5, <2>1 DEF IsTrackingResult, RefusalReasons, IsDue
<1>6. CASE /\ IsEvaluable(artifact) /\ artifact.source = s.source
           /\ s.bars[artifact.timestamp] # artifact.fingerprint
  <2>1. r = [status |-> "refused", refusal |-> "source_bar_revised", measurement |-> <<>>]
    BY <1>3, <1>6 DEF Result
  <2>2. QED
    BY <1>6, <2>1 DEF IsTrackingResult, RefusalReasons, IsDue
<1>7. CASE /\ IsEvaluable(artifact) /\ artifact.source = s.source
           /\ s.bars[artifact.timestamp] = artifact.fingerprint
  <2>1. artifact.timestamp \in DOMAIN s.bars
    BY <1>7 DEF IsHardError
  <2>2. /\ m.status = "evaluated" <=> IsComplete(s.bars, artifact.timestamp, h)
        /\ IsStatusConsistent(m)
    BY <1>1, <1>2, <2>1, MeasuredByIndex
  <2>3. IsDue(artifact, h, s) <=> m.status = "evaluated"
    BY <1>7, <2>1, <2>2 DEF IsDue
  <2>4. CASE m.status = "evaluated"
    <3>1. r = [status |-> "evaluated", refusal |-> NoReason, measurement |-> <<m>>]
      BY <1>3, <1>7, <2>4 DEF Result
    <3>2. QED
      BY <2>2, <2>3, <2>4, <3>1 DEF IsTrackingResult, RefusalReasons, NoReason
  <2>5. CASE m.status # "evaluated"
    <3>1. r = [status |-> "pending", refusal |-> NoReason, measurement |-> <<m>>]
      BY <1>3, <1>7, <2>5 DEF Result
    <3>2. QED
      BY <2>2, <2>3, <2>5, <3>1 DEF IsTrackingResult, RefusalReasons, NoReason
  <2>6. QED
    BY <2>4, <2>5
<1>8. QED
  BY <1>4, <1>5, <1>6, <1>7

-----------------------------------------------------------------------------
(* The report: the inductive invariant.                                    *)

RegistrationKeys(w) == {r.key : r \in ToSet(report[w].registrations)}

(* The keys of the first n claims of a refresh.                            *)
ClaimKeys(w, n) == {CurrentArtifacts(snap[w])[i].key : i \in 1 .. n}

(* Claims are registered in order, and every registered one is tracked.    *)
RegistrationsFollow(w) ==
    /\ pc[w] \in {"idle", "fetching", "opening"} =>
          report[w] = EmptyReport /\ at[w] = <<1, 1>>
    /\ pc[w] \in {"registering", "appending_artifact"} =>
          /\ report[w].items = <<>>
          /\ at[w][1] <= Len(CurrentArtifacts(snap[w])) + 1
          /\ RegistrationKeys(w) = ClaimKeys(w, at[w][1] - 1)
    /\ Describes(w) => RegistrationKeys(w) = ClaimKeys(w, Len(CurrentArtifacts(snap[w])))
    /\ RegistrationKeys(w) \subseteq Keys([rows |-> held[w]])

Before(p, q) == p[1] < q[1] \/ (p[1] = q[1] /\ p[2] < q[2])

Positions(w)   == (DOMAIN held[w]) \X (DOMAIN Horizons)
Behind(w)      == {p \in Positions(w) : Before(p, at[w])}
PairAt(w, p)   == <<held[w][p[1]].key, Horizons[p[2]]>>
PairsBehind(w) == {PairAt(w, p) : p \in Behind(w)}
ItemKeys(w)    == {item.key : item \in ToSet(report[w].items)}

(* What the index arithmetic finds is what the line says.                  *)
IsIndexed(outcome, s) ==
    LET m == MeasureForward(s.bars, outcome.artifact.timestamp, outcome.horizon) IN
    /\ outcome.evaluated_at = s.built_at
    /\ outcome.reference = m.reference /\ outcome.future = m.future

ItemIsTrue(w, item) ==
    /\ item.status \in {"written", "present"} => Claimed(item)
    /\ item.status = "written" =>
          \E outcome \in RowSet(outcomes) : outcome.key = item.key /\ IsIndexed(outcome, snap[w])

PairIsSettled(w, p) ==
    IsDue(held[w][p[1]], Horizons[p[2]], snap[w]) => PairAt(w, p) \in Keys(outcomes)

(* Pairs are concluded about in order, each once, each truly, and none of  *)
(* those behind is left without a line it is due.                          *)
ItemsFollow(w) ==
    /\ ItemKeys(w) = PairsBehind(w)
    /\ \A i, j \in DOMAIN report[w].items :
          report[w].items[i].key = report[w].items[j].key => i = j
    /\ \A item \in ToSet(report[w].items) : ItemIsTrue(w, item)
    /\ \A p \in Behind(w) : PairIsSettled(w, p)

LineIsDue(w) ==
    /\ at[w][1] <= Len(held[w])
    /\ Due(w) /\ line[w] = Measured(w)

ReportFollows(w) ==
    /\ RegistrationsFollow(w)
    /\ NoRepeatedKey([rows |-> held[w]])
    /\ Describes(w) => ItemsFollow(w)
    /\ pc[w] = "appending_outcome" => LineIsDue(w)

ReportInv == \A w \in Writers : ReportFollows(w)

(* What a report is made of.                                               *)
Verdicts == {"written", "present", "out_of_window",
             "evaluated", "pending", "ineligible", "refused"}
Registrations == [key : ArtifactKeys, status : {"written", "duplicate"}]
Items         == [key : OutcomeKeys, status : Verdicts]
Reports       == [registrations : Seq(Registrations), items : Seq(Items)]

ReportType == report \in [Writers -> Reports]

-----------------------------------------------------------------------------
(* The report: its sequences.                                              *)

(* One more element at the end, and no other.                              *)
LEMMA AppendAddsOne ==
    ASSUME NEW S, NEW s \in Seq(S), NEW x \in S
    PROVE  /\ Append(s, x) \in Seq(S)
           /\ DOMAIN Append(s, x) = DOMAIN s \cup {Len(s) + 1}
           /\ \A i \in DOMAIN s : i \in 1 .. Len(s) /\ Append(s, x)[i] = s[i]
           /\ Len(s) \in Nat /\ Append(s, x)[Len(s) + 1] = x
           /\ ToSet(Append(s, x)) = ToSet(s) \cup {x}
<1>1. /\ Append(s, x) \in Seq(S) /\ Len(s) \in Nat /\ DOMAIN s = 1 .. Len(s)
      /\ DOMAIN Append(s, x) = 1 .. (Len(s) + 1)
      /\ \A i \in 1 .. Len(s) : Append(s, x)[i] = s[i]
      /\ Append(s, x)[Len(s) + 1] = x
  OBVIOUS
<1>2. 1 .. (Len(s) + 1) = 1 .. Len(s) \cup {Len(s) + 1}
  BY <1>1
<1>3. PICK t : t = Append(s, x)
  OBVIOUS
<1>4. \A y \in ToSet(t) : y \in ToSet(s) \cup {x}
  BY <1>1, <1>2, <1>3 DEF ToSet
<1>5. \A y \in ToSet(s) \cup {x} : y \in ToSet(t)
  BY <1>1, <1>2, <1>3 DEF ToSet
<1>6. QED
  BY <1>1, <1>2, <1>3, <1>4, <1>5

(* Putting an item on the result changes nothing else of any report.       *)
LEMMA ConcludesChanges ==
    ASSUME ReportType, NEW w \in Writers, NEW status, Concludes(w, status),
           OutcomeItem(w, status) \in Items
    PROVE  /\ ReportType'
           /\ report'[w].registrations = report[w].registrations
           /\ report'[w].items = Append(report[w].items, OutcomeItem(w, status))
           /\ report[w].items \in Seq(Items)
<1>1. PICK item : item = OutcomeItem(w, status)
  OBVIOUS
<1>2. report' = [report EXCEPT ![w].items = Append(@, item)]
  BY <1>1 DEF Concludes
<1>3. report[w] \in Reports
  BY DEF ReportType
<1>4. Append(report[w].items, item) \in Seq(Items)
  BY <1>1, <1>3 DEF Reports
<1>5. PICK longer \in Seq(Items) : longer = Append(report[w].items, item)
  BY <1>4
<1>6. report' = [report EXCEPT ![w] = [report[w] EXCEPT !.items = longer]]
  BY <1>2, <1>5
<1>7. [report[w] EXCEPT !.items = longer] \in Reports
  BY <1>3 DEF Reports
<1>8. ReportType'
  BY <1>6, <1>7 DEF ReportType
<1>9. report'[w] = [report[w] EXCEPT !.items = longer]
  BY <1>6 DEF ReportType
<1>10. QED
  BY <1>1, <1>3, <1>5, <1>8, <1>9 DEF Reports

LEMMA RegistersChanges ==
    ASSUME ReportType, NEW w \in Writers, NEW status \in {"written", "duplicate"},
           Registers(w, status), Claim(w).key \in ArtifactKeys
    PROVE  /\ ReportType'
           /\ report'[w].items = report[w].items
           /\ report'[w].registrations =
                 Append(report[w].registrations, Registration(Claim(w), status))
           /\ report[w].registrations \in Seq(Registrations)
           /\ Registration(Claim(w), status) \in Registrations
<1>1. PICK entry : entry = Registration(Claim(w), status)
  OBVIOUS
<1>1a. entry \in Registrations
  BY <1>1 DEF Registration, Registrations
<1>2. report' = [report EXCEPT ![w].registrations = Append(@, entry)]
  BY <1>1 DEF Registers
<1>3. report[w] \in Reports
  BY DEF ReportType
<1>4. Append(report[w].registrations, entry) \in Seq(Registrations)
  BY <1>1a, <1>3 DEF Reports
<1>5. PICK longer \in Seq(Registrations) : longer = Append(report[w].registrations, entry)
  BY <1>4
<1>6. report' = [report EXCEPT ![w] = [report[w] EXCEPT !.registrations = longer]]
  BY <1>2, <1>5
<1>7. [report[w] EXCEPT !.registrations = longer] \in Reports
  BY <1>3 DEF Reports
<1>8. ReportType'
  BY <1>6, <1>7 DEF ReportType
<1>9. report'[w] = [report[w] EXCEPT !.registrations = longer]
  BY <1>6 DEF ReportType
<1>10. QED
  BY <1>1, <1>1a, <1>3, <1>5, <1>8, <1>9 DEF Reports

-----------------------------------------------------------------------------
(* The report: its order.                                                  *)

(* The next position comes after this one and after nothing else new.      *)
LEMMA NextIsNext ==
    ASSUME NEW q \in (Nat \ {0}) \X DOMAIN Horizons,
           NEW p \in (Nat \ {0}) \X DOMAIN Horizons
    PROVE  Before(p, NextItem(q)) <=> Before(p, q) \/ p = q
<1>1. /\ q[1] \in Nat /\ p[1] \in Nat /\ q[2] \in Nat /\ p[2] \in Nat
      /\ 1 <= q[2] /\ q[2] <= Len(Horizons) /\ 1 <= p[2] /\ p[2] <= Len(Horizons)
      /\ Len(Horizons) \in Nat
      /\ p = q <=> p[1] = q[1] /\ p[2] = q[2]
  <2>1. Horizons \in Seq(Nat \ {0})
    BY ConstantsAssumption
  <2>2. PICK n \in Nat : n = Len(Horizons) /\ DOMAIN Horizons = 1 .. n
    BY <2>1
  <2>3. q[2] \in 1 .. n /\ p[2] \in 1 .. n /\ q[1] \in Nat /\ p[1] \in Nat
    BY <2>2
  <2>4. p = <<p[1], p[2]>> /\ q = <<q[1], q[2]>>
    OBVIOUS
  <2>5. p = q <=> p[1] = q[1] /\ p[2] = q[2]
    BY <2>4
  <2>6. QED
    BY <2>2, <2>3, <2>5
<1>2. CASE q[2] < Len(Horizons)
  <2>1. NextItem(q) = <<q[1], q[2] + 1>>
    BY <1>2 DEF NextItem
  <2>2. Before(p, NextItem(q)) <=> p[1] < q[1] \/ (p[1] = q[1] /\ p[2] < q[2] + 1)
    BY <2>1 DEF Before
  <2>3. QED
    BY <1>1, <2>2 DEF Before
<1>3. CASE ~(q[2] < Len(Horizons))
  <2>1. NextItem(q) = <<q[1] + 1, 1>>
    BY <1>3 DEF NextItem
  <2>2. Before(p, NextItem(q)) <=> p[1] < q[1] + 1 \/ (p[1] = q[1] + 1 /\ p[2] < 1)
    BY <2>1 DEF Before
  <2>3. QED
    BY <1>1, <1>3, <2>2 DEF Before
<1>4. QED
  BY <1>2, <1>3

(* Distinct positions are about distinct pairs.                            *)
LEMMA PairsApart ==
    ASSUME TypeOK, NEW w \in Writers, NoRepeatedKey([rows |-> held[w]]),
           NEW p \in Positions(w), NEW q \in Positions(w), PairAt(w, p) = PairAt(w, q)
    PROVE  p = q
<1>1. p[1] \in DOMAIN held[w] /\ q[1] \in DOMAIN held[w]
  BY DEF Positions
<1>2. p[2] \in DOMAIN Horizons /\ q[2] \in DOMAIN Horizons
  BY DEF Positions
<1>3. held[w][p[1]].key = held[w][q[1]].key /\ Horizons[p[2]] = Horizons[q[2]]
  BY DEF PairAt
<1>4. p[1] = q[1]
  BY <1>1, <1>3 DEF NoRepeatedKey
<1>5. p[2] = q[2]
  BY <1>2, <1>3, ConstantsAssumption
<1>6. p = <<p[1], p[2]>> /\ q = <<q[1], q[2]>>
  BY DEF Positions
<1>7. QED
  BY <1>4, <1>5, <1>6

(* Every position is one of the type the positions have.                   *)
LEMMA PositionsType ==
    ASSUME TypeOK, NEW w \in Writers
    PROVE  /\ Positions(w) \subseteq (Nat \ {0}) \X DOMAIN Horizons
           /\ at[w] \in (Nat \ {0}) \X DOMAIN Horizons
           /\ at[w][1] <= Len(held[w]) => at[w] \in Positions(w)
<1>1. held[w] \in Seq(Artifacts) /\ at[w] \in (Nat \ {0}) \X DOMAIN Horizons
  BY DEF TypeOK
<1>2. DOMAIN held[w] = 1 .. Len(held[w]) /\ Len(held[w]) \in Nat
  BY <1>1
<1>3. at[w][1] \in Nat \ {0} /\ at[w][2] \in DOMAIN Horizons /\ at[w] = <<at[w][1], at[w][2]>>
  BY <1>1
<1>4. at[w][1] <= Len(held[w]) => at[w][1] \in DOMAIN held[w]
  BY <1>2, <1>3
<1>5. QED
  BY <1>1, <1>2, <1>3, <1>4 DEF Positions

-----------------------------------------------------------------------------
(* The report: what an item does to it.                                    *)

(* A conclusion about the pair at hand, true when it is made, keeps the    *)
(* items a true account of everything behind the next position.            *)
LEMMA ItemsAdvance ==
    ASSUME TypeOK, ReportType, NEW w \in Writers, NEW status, Concludes(w, status),
           OutcomeItem(w, status) \in Items,
           at[w][1] <= Len(held[w]), NoRepeatedKey([rows |-> held[w]]),
           ItemsFollow(w), RowSet(outcomes) \subseteq RowSet(outcomes'),
           at'[w] = NextItem(at[w]), held'[w] = held[w], snap'[w] = snap[w],
           NEW item, item = OutcomeItem(w, status), ItemIsTrue(w, item)',
           NEW here, here = at[w], PairIsSettled(w, here)'
    PROVE  ItemsFollow(w)'
<1>2. /\ here \in Positions(w) /\ here \in (Nat \ {0}) \X DOMAIN Horizons
      /\ Positions(w) \subseteq (Nat \ {0}) \X DOMAIN Horizons
  BY PositionsType
<1>3. Behind(w)' = Behind(w) \cup {here}
  <2>0. at'[w] = NextItem(here) /\ Positions(w)' = Positions(w)
    BY DEF Positions
  <2>1. Behind(w)' = {p \in Positions(w) : Before(p, NextItem(here))}
    BY <2>0 DEF Behind
  <2>2. \A p \in Positions(w) : Before(p, NextItem(here)) <=> Before(p, here) \/ p = here
    BY <1>2, NextIsNext
  <2>3. Behind(w) = {p \in Positions(w) : Before(p, here)}
    BY DEF Behind
  <2>4. QED
    BY <1>2, <2>1, <2>2, <2>3
<1>4. here \notin Behind(w)
  <2>1. ~Before(here, here)
    <3>1. Horizons \in Seq(Nat \ {0})
      BY ConstantsAssumption
    <3>2. PICK n \in Nat : DOMAIN Horizons = 1 .. n
      BY <3>1
    <3>3. here[1] \in Nat /\ here[2] \in 1 .. n
      BY <1>2, <3>2
    <3>4. QED
      BY <3>3 DEF Before
  <2>2. here = at[w]
    OBVIOUS
  <2>3. \A p \in Behind(w) : Before(p, here)
    BY <2>2 DEF Behind
  <2>4. QED
    BY <2>1, <2>3
<1>5. \A p : PairAt(w, p)' = PairAt(w, p)
  BY DEF PairAt
<1>6. item.key = PairAt(w, here)
  BY DEF OutcomeItem, Item, ItemHorizon, PairAt
<1>7a. PICK old \in Seq(Items) : old = report[w].items
  BY ConcludesChanges
<1>7. PICK longer : old = report[w].items /\ longer = Append(old, item)
  BY <1>7a
<1>8. report'[w].items = longer
  BY <1>7, ConcludesChanges
<1>9. /\ DOMAIN longer = DOMAIN old \cup {Len(old) + 1}
      /\ \A i \in DOMAIN old : i \in 1 .. Len(old) /\ longer[i] = old[i]
      /\ Len(old) \in Nat /\ longer[Len(old) + 1] = item /\ ToSet(longer) = ToSet(old) \cup {item}
  BY <1>7, AppendAddsOne
<1>10. /\ {i.key : i \in ToSet(old)} = PairsBehind(w)
       /\ \A i, j \in DOMAIN old : old[i].key = old[j].key => i = j
       /\ \A i \in ToSet(old) : ItemIsTrue(w, i)
       /\ \A p \in Behind(w) : PairIsSettled(w, p)
  BY <1>7 DEF ItemsFollow, ItemKeys
<1>11. ItemKeys(w)' = PairsBehind(w)'
  <2>1. ItemKeys(w)' = {i.key : i \in ToSet(longer)}
    BY <1>8 DEF ItemKeys
  <2>2. {i.key : i \in ToSet(longer)} = PairsBehind(w) \cup {PairAt(w, here)}
    BY <1>6, <1>9, <1>10
  <2>3. PairsBehind(w)' = {PairAt(w, p) : p \in Behind(w)'}
    BY <1>5 DEF PairsBehind
  <2>4. PairsBehind(w)' = PairsBehind(w) \cup {PairAt(w, here)}
    BY <1>3, <2>3 DEF PairsBehind
  <2>5. QED
    BY <2>1, <2>2, <2>4
<1>12. \A i \in DOMAIN old : old[i].key # item.key
  <2>1. ASSUME NEW i \in DOMAIN old, old[i].key = item.key
        PROVE  FALSE
    <3>1a. old[i] \in ToSet(old)
      BY DEF ToSet
    <3>1. old[i].key \in {k.key : k \in ToSet(old)}
      BY <3>1a
    <3>1b. old[i].key \in PairsBehind(w)
      BY <1>10, <3>1
    <3>2. PICK p \in Behind(w) : PairAt(w, p) = PairAt(w, here)
      BY <1>6, <2>1, <3>1b DEF PairsBehind
    <3>3. p \in Positions(w)
      BY DEF Behind
    <3>4. p = here
      BY <1>2, <3>2, <3>3, PairsApart
    <3>5. QED
      BY <1>4, <3>4
  <2>2. QED
    BY <2>1
<1>13. \A i, j \in DOMAIN longer : longer[i].key = longer[j].key => i = j
  BY <1>9, <1>10, <1>12
<1>14. \A i \in ToSet(longer) : ItemIsTrue(w, i)'
  <2>1. ASSUME NEW i, ItemIsTrue(w, i)
        PROVE  ItemIsTrue(w, i)'
    BY <2>1 DEF ItemIsTrue, Claimed
  <2>2. QED
    BY <1>9, <1>10, <2>1
<1>15. \A p \in Behind(w)' : PairIsSettled(w, p)'
  <2>1. ASSUME NEW p, PairIsSettled(w, p)
        PROVE  PairIsSettled(w, p)'
    <3>1. Keys(outcomes) \subseteq Keys(outcomes')
      BY KeysOfRows
    <3>2. QED
      BY <1>5, <2>1, <3>1 DEF PairIsSettled
  <2>2. QED
    BY <1>3, <1>10, <2>1
<1>16. QED
  BY <1>8, <1>11, <1>13, <1>14, <1>15 DEF ItemsFollow

(* Nothing that a refresh tells changes while another line is written.     *)
LEMMA ItemsStay ==
    ASSUME NEW w \in Writers, ItemsFollow(w), RowSet(outcomes) \subseteq RowSet(outcomes'),
           at'[w] = at[w], held'[w] = held[w], snap'[w] = snap[w], report'[w] = report[w]
    PROVE  ItemsFollow(w)'
<1>1. Behind(w)' = Behind(w) /\ \A p : PairAt(w, p)' = PairAt(w, p)
  BY DEF Behind, Positions, PairAt
<1>2. ItemKeys(w)' = PairsBehind(w)'
  BY <1>1 DEF ItemsFollow, ItemKeys, PairsBehind
<1>3. \A i \in ToSet(report[w].items) : ItemIsTrue(w, i)'
  BY DEF ItemsFollow, ItemIsTrue, Claimed
<1>4. ASSUME NEW p \in Behind(w)
      PROVE  PairIsSettled(w, p)'
  <2>1. Keys(outcomes) \subseteq Keys(outcomes')
    BY KeysOfRows
  <2>2. QED
    BY <1>1, <2>1 DEF ItemsFollow, PairIsSettled
<1>5. QED
  BY <1>1, <1>2, <1>3, <1>4 DEF ItemsFollow

-----------------------------------------------------------------------------
(* The report: the steps that end a refresh, or write no line on it.       *)

(* A refresh that is over tells nothing.                                   *)
LEMMA OverKeeps ==
    ASSUME TypeOK, ReportType, NEW w \in Writers, Over(w)
    PROVE  ReportType' /\ ReportFollows(w)'
<1>1. Stop(w)
  BY DEF Over, OpenRaises, OfferRaises, ReadPresentRaises, MeasureRaises, Finish, Fault,
         ArtifactCutShort, OutcomeCutShort, Killed
<1>2. pc'[w] = "idle" /\ held'[w] = <<>> /\ at'[w] = <<1, 1>>
  BY <1>1 DEF Stop, TypeOK
<1>3. report' = [report EXCEPT ![w] = EmptyReport]
  BY DEF Over
<1>4. EmptyReport \in Reports
  BY DEF EmptyReport, Reports
<1>5. ReportType' /\ report'[w] = EmptyReport
  BY <1>3, <1>4 DEF ReportType
<1>6. RegistrationKeys(w)' = {}
  <2>1. report'[w].registrations = <<>>
    BY <1>5 DEF EmptyReport
  <2>2. QED
    BY <2>1 DEF RegistrationKeys, ToSet
<1>7. RegistrationsFollow(w)'
  BY <1>2, <1>5, <1>6 DEF RegistrationsFollow, Describes
<1>8. NoRepeatedKey([rows |-> held'[w]])
  BY <1>2 DEF NoRepeatedKey
<1>9. QED
  BY <1>2, <1>5, <1>7, <1>8 DEF ReportFollows, Describes, NoRepeatedKey

(* A step that changes nothing a refresh knows changes nothing it tells.   *)
LEMMA QuietKeeps ==
    ASSUME NEW w \in Writers, ReportType, ReportFollows(w),
           RowSet(outcomes) \subseteq RowSet(outcomes'), UNCHANGED <<local, report>>
    PROVE  ReportType' /\ ReportFollows(w)'
<1>1. /\ pc' = pc /\ snap' = snap /\ held' = held /\ at' = at /\ line' = line
      /\ report' = report
  BY DEF local
<1>2. ReportType'
  BY <1>1 DEF ReportType
<1>3. RegistrationsFollow(w)'
  <2>1. RegistrationKeys(w)' = RegistrationKeys(w)
    BY <1>1, Zenon DEF RegistrationKeys
  <2>2. ClaimKeys(w, at[w][1] - 1)' = ClaimKeys(w, at[w][1] - 1)
    BY <1>1, Zenon DEF ClaimKeys
  <2>3. ClaimKeys(w, Len(CurrentArtifacts(snap[w])))' =
        ClaimKeys(w, Len(CurrentArtifacts(snap[w])))
    BY <1>1, Zenon DEF ClaimKeys
  <2>4. Keys([rows |-> held[w]])' = Keys([rows |-> held[w]])
    BY <1>1, Zenon DEF Keys
  <2>5. RegistrationsFollow(w)
    BY DEF ReportFollows
  <2>6. QED
    BY <1>1, <2>1, <2>2, <2>3, <2>4, <2>5 DEF RegistrationsFollow, Describes
<1>4. NoRepeatedKey([rows |-> held[w]])'
  BY <1>1 DEF ReportFollows, NoRepeatedKey
<1>5. Describes(w)' => ItemsFollow(w)'
  BY <1>1, ItemsStay DEF ReportFollows, Describes
<1>6. pc'[w] = "appending_outcome" => LineIsDue(w)'
  <2>1. Item(w)' = Item(w) /\ ItemHorizon(w)' = ItemHorizon(w)
    BY <1>1 DEF Item, ItemHorizon
  <2>2. Due(w)' = Due(w) /\ Measured(w)' = Measured(w)
    BY <1>1, <2>1, Zenon DEF Due, Measured
  <2>3. LineIsDue(w)' = LineIsDue(w)
    BY <1>1, <2>2, Zenon DEF LineIsDue
  <2>4. QED
    BY <1>1, <2>3 DEF ReportFollows
<1>7. QED
  BY <1>2, <1>3, <1>4, <1>5, <1>6 DEF ReportFollows

(* Before the ledger is read there is nothing to tell, and what is read    *)
(* then has distinct keys.                                                 *)
LEMMA OpeningKeeps ==
    ASSUME TypeOK, ReportType, NEW w \in Writers, ReportFollows(w),
           Begin(w) \/ Fetch(w) \/ Open(w), UNCHANGED report
    PROVE  ReportFollows(w)'
<1>1. /\ pc[w] \in {"idle", "fetching", "opening"}
      /\ pc'[w] \in {"fetching", "opening", "registering"}
      /\ at' = at /\ (pc'[w] = "registering" => Open(w))
  BY DEF Begin, Fetch, Open, Goto, TypeOK
<1>2. report[w] = EmptyReport /\ at[w] = <<1, 1>> /\ report'[w] = EmptyReport
  BY <1>1 DEF ReportFollows, RegistrationsFollow
<1>3. RegistrationKeys(w)' = {} /\ report'[w].items = <<>>
  <2>1. report'[w].registrations = <<>> /\ report'[w].items = <<>>
    BY <1>2 DEF EmptyReport
  <2>2. QED
    BY <2>1 DEF RegistrationKeys, ToSet
<1>4. RegistrationsFollow(w)'
  <2>1. ASSUME pc'[w] = "registering"
        PROVE  /\ at'[w][1] <= Len(CurrentArtifacts(snap'[w])) + 1
               /\ ClaimKeys(w, at[w][1] - 1)' = {}
    <3>1. snap'[w] = snap[w] /\ snap[w] \in Snapshots
      BY <1>1, <2>1 DEF Open, TypeOK
    <3>2. CurrentArtifacts(snap[w]) \in Seq(Artifacts)
      BY <3>1, CurrentArtifactsType
    <3>3. PICK n \in Nat : n = Len(CurrentArtifacts(snap[w]))
      BY <3>2
    <3>4. at'[w][1] = 1 /\ 1 <= n + 1 /\ 1 .. (1 - 1) = {}
      BY <1>1, <1>2
    <3>5. ClaimKeys(w, at[w][1] - 1)' = {}
      BY <3>4 DEF ClaimKeys
    <3>6. QED
      BY <3>1, <3>3, <3>4, <3>5
  <2>2. QED
    BY <1>1, <1>2, <1>3, <2>1 DEF RegistrationsFollow, Describes
<1>5. NoRepeatedKey([rows |-> held'[w]])
  <2>1. CASE Open(w)
    <3>1. held'[w] = artifacts.rows /\ NoRepeatedKey(artifacts)
      BY <2>1 DEF Open, TypeOK, Readable
    <3>2. QED
      BY <3>1 DEF NoRepeatedKey
  <2>2. CASE Begin(w) \/ Fetch(w)
    <3>1. held' = held
      BY <2>2 DEF Begin, Fetch
    <3>2. QED
      BY <3>1 DEF ReportFollows
  <2>3. QED
    BY <2>1, <2>2
<1>6. QED
  BY <1>1, <1>4, <1>5 DEF ReportFollows, Describes, NoRepeatedKey

-----------------------------------------------------------------------------
(* The report: the registrations.                                          *)

(* What is registered stays registered while the refresh works on.         *)
LEMMA RegistrationsStay ==
    ASSUME NEW w \in Writers, RegistrationsFollow(w),
           snap'[w] = snap[w], held'[w] = held[w],
           report'[w].registrations = report[w].registrations,
           \/ Describes(w) /\ Describes(w)'
           \/ /\ pc[w] \in {"registering", "appending_artifact"}
              /\ pc'[w] \in {"registering", "appending_artifact"}
              /\ at'[w] = at[w] /\ report'[w].items = report[w].items
    PROVE  RegistrationsFollow(w)'
<1>1. RegistrationKeys(w)' = RegistrationKeys(w)
  BY Zenon DEF RegistrationKeys
<1>2. ClaimKeys(w, Len(CurrentArtifacts(snap[w])))' = ClaimKeys(w, Len(CurrentArtifacts(snap[w])))
  BY Zenon DEF ClaimKeys
<1>3. Keys([rows |-> held[w]])' = Keys([rows |-> held[w]])
  BY Zenon DEF Keys
<1>4. RegistrationKeys(w)' \subseteq Keys([rows |-> held[w]])'
  BY <1>1, <1>3 DEF RegistrationsFollow
<1>5. CASE Describes(w) /\ Describes(w)'
  BY <1>1, <1>2, <1>4, <1>5 DEF RegistrationsFollow, Describes
<1>6. CASE /\ pc[w] \in {"registering", "appending_artifact"}
           /\ pc'[w] \in {"registering", "appending_artifact"}
           /\ at'[w] = at[w] /\ report'[w].items = report[w].items
  <2>1. ClaimKeys(w, at[w][1] - 1)' = ClaimKeys(w, at[w][1] - 1)
    BY <1>6, Zenon DEF ClaimKeys
  <2>2. QED
    BY <1>1, <1>4, <1>6, <2>1 DEF RegistrationsFollow, Describes
<1>7. QED
  BY <1>5, <1>6

(* A claim that was registered is tracked, once.                           *)
LEMMA TrackedProperties ==
    ASSUME TypeOK, NEW w \in Writers, at[w][1] <= Len(CurrentArtifacts(snap[w])),
           NoRepeatedKey([rows |-> held[w]])
    PROVE  /\ NoRepeatedKey([rows |-> Tracked(w)])
           /\ Keys([rows |-> held[w]]) \subseteq Keys([rows |-> Tracked(w)])
           /\ Claim(w).key \in Keys([rows |-> Tracked(w)])
<1>1. PICK mine, offered : mine = held[w] /\ offered = Offered(w)
  OBVIOUS
<1>2. mine \in Seq(Artifacts) /\ offered \in Artifacts /\ offered.key = Claim(w).key
  BY <1>1, OfferedProperties DEF TypeOK
<1>3. \A i, j \in DOMAIN mine : mine[i].key = mine[j].key => i = j
  BY <1>1 DEF NoRepeatedKey
<1>4. CASE HeldBy(w, Claim(w).key) = {}
  <2>1. PICK longer : longer = Append(mine, offered)
    OBVIOUS
  <2>2. Tracked(w) = longer
    BY <1>1, <1>4, <2>1 DEF Tracked
  <2>3. /\ DOMAIN longer = DOMAIN mine \cup {Len(mine) + 1}
        /\ \A i \in DOMAIN mine : i \in 1 .. Len(mine) /\ longer[i] = mine[i]
        /\ Len(mine) \in Nat /\ longer[Len(mine) + 1] = offered
    BY <1>2, <2>1, AppendAddsOne
  <2>4. \A i \in DOMAIN mine : mine[i].key # offered.key
    BY <1>1, <1>2, <1>4 DEF HeldBy, RowSet
  <2>5. \A i, j \in DOMAIN longer : longer[i].key = longer[j].key => i = j
    BY <1>3, <2>3, <2>4
  <2>6. offered.key \in Keys([rows |-> longer])
    BY <2>3 DEF Keys
  <2>7. Keys([rows |-> mine]) \subseteq Keys([rows |-> longer])
    BY <2>3 DEF Keys
  <2>8. NoRepeatedKey([rows |-> longer])
    BY <2>5 DEF NoRepeatedKey
  <2>9. QED
    BY <1>1, <1>2, <2>2, <2>6, <2>7, <2>8
<1>5. CASE HeldBy(w, Claim(w).key) # {}
  <2>1. Tracked(w) = held[w]
    BY <1>5 DEF Tracked
  <2>2. PICK i \in DOMAIN mine : mine[i].key = Claim(w).key
    BY <1>1, <1>5 DEF HeldBy, RowSet
  <2>3. Claim(w).key \in Keys([rows |-> mine])
    BY <2>2 DEF Keys
  <2>4. QED
    BY <1>1, <2>1, <2>3
<1>6. QED
  BY <1>4, <1>5

(* A registration, of the next claim in order.                             *)
LEMMA RegisteringKeeps ==
    ASSUME TypeOK, ReportType, NEW w \in Writers, ReportFollows(w),
           at[w][1] <= Len(CurrentArtifacts(snap[w])),
           pc[w] \in {"registering", "appending_artifact"},
           pc'[w] = "registering", snap'[w] = snap[w], held'[w] = Tracked(w),
           at'[w] = <<at[w][1] + 1, 1>>,
           NEW status \in {"written", "duplicate"}, Registers(w, status)
    PROVE  ReportType' /\ ReportFollows(w)'
<1>1. PICK n, claims : n = at[w][1] /\ claims = CurrentArtifacts(snap[w])
  OBVIOUS
<1>2. claims \in Seq(Artifacts) /\ n \in Nat \ {0} /\ n <= Len(claims)
  BY <1>1, CurrentArtifactsType DEF TypeOK
<1>2a. PICK size \in Nat : size = Len(claims)
  BY <1>2
<1>3. Claim(w) = claims[n] /\ Claim(w) \in Artifacts /\ Claim(w).key \in ArtifactKeys
  <2>1. Claim(w) \in Artifacts
    BY OfferedProperties
  <2>2. QED
    BY <1>1, <2>1 DEF Claim, Artifacts
<1>4. PICK old \in Seq(Registrations) : old = report[w].registrations
  BY <1>3, RegistersChanges
<1>5. PICK entry \in Registrations : entry = Registration(Claim(w), status)
  BY <1>3, RegistersChanges
<1>6. /\ ReportType' /\ report'[w].items = report[w].items
      /\ report'[w].registrations = Append(old, entry)
  BY <1>3, <1>4, <1>5, RegistersChanges
<1>7. RegistrationKeys(w)' = RegistrationKeys(w) \cup {Claim(w).key}
  <2>1. ToSet(Append(old, entry)) = ToSet(old) \cup {entry}
    BY AppendAddsOne
  <2>2. entry.key = Claim(w).key
    BY <1>5 DEF Registration
  <2>3. RegistrationKeys(w)' = {r.key : r \in ToSet(Append(old, entry))}
    BY <1>6 DEF RegistrationKeys
  <2>4. RegistrationKeys(w) = {r.key : r \in ToSet(old)}
    BY <1>4 DEF RegistrationKeys
  <2>5. QED
    BY <2>1, <2>2, <2>3, <2>4
<1>8. ClaimKeys(w, at[w][1] - 1)' = ClaimKeys(w, n - 1) \cup {Claim(w).key}
  <2>1. at'[w][1] - 1 = n
    BY <1>1, <1>2
  <2>2. ClaimKeys(w, at[w][1] - 1)' = {claims[i].key : i \in 1 .. n}
    BY <1>1, <2>1 DEF ClaimKeys
  <2>3. ClaimKeys(w, n - 1) = {claims[i].key : i \in 1 .. (n - 1)}
    BY <1>1 DEF ClaimKeys
  <2>4. 1 .. n = 1 .. (n - 1) \cup {n}
    BY <1>2
  <2>5. QED
    BY <1>3, <2>2, <2>3, <2>4
<1>9. RegistrationKeys(w) = ClaimKeys(w, n - 1) /\ report[w].items = <<>>
  BY <1>1 DEF ReportFollows, RegistrationsFollow
<1>10. /\ NoRepeatedKey([rows |-> Tracked(w)])
       /\ Keys([rows |-> held[w]]) \subseteq Keys([rows |-> Tracked(w)])
       /\ Claim(w).key \in Keys([rows |-> Tracked(w)])
  BY TrackedProperties DEF ReportFollows
<1>11. RegistrationKeys(w)' \subseteq Keys([rows |-> held[w]])'
  <2>1. RegistrationKeys(w) \subseteq Keys([rows |-> held[w]])
    BY DEF ReportFollows, RegistrationsFollow
  <2>2. Keys([rows |-> held[w]])' = Keys([rows |-> Tracked(w)])
    BY DEF Keys
  <2>3. QED
    BY <1>7, <1>10, <2>1, <2>2
<1>12. at'[w][1] <= Len(CurrentArtifacts(snap'[w])) + 1
  <2>1. at'[w][1] = n + 1 /\ Len(CurrentArtifacts(snap'[w])) = size
    BY <1>1, <1>2a
  <2>2. n + 1 <= size + 1
    BY <1>2, <1>2a
  <2>3. QED
    BY <2>1, <2>2
<1>13. RegistrationsFollow(w)'
  BY <1>6, <1>7, <1>8, <1>9, <1>11, <1>12 DEF RegistrationsFollow, Describes
<1>14. NoRepeatedKey([rows |-> held[w]])'
  BY <1>10 DEF NoRepeatedKey
<1>15. QED
  BY <1>6, <1>13, <1>14 DEF ReportFollows, Describes

(* Every claim is registered and nothing is concluded about yet.           *)
LEMMA ReadPresentKeeps ==
    ASSUME TypeOK, ReportType, NEW w \in Writers, ReportFollows(w), ReadPresent(w),
           UNCHANGED report
    PROVE  ReportFollows(w)'
<1>1. /\ pc[w] = "registering" /\ pc'[w] = "measuring" /\ at'[w] = <<1, 1>>
      /\ snap' = snap /\ held' = held /\ report' = report
      /\ ~(at[w][1] <= Len(CurrentArtifacts(snap[w])))
  BY DEF ReadPresent, Goto, HasClaim, TypeOK
<1>2. PICK n, claims : n = at[w][1] /\ claims = CurrentArtifacts(snap[w])
  OBVIOUS
<1>3. PICK size \in Nat : size = Len(claims)
  <2>1. claims \in Seq(Artifacts)
    BY <1>2, CurrentArtifactsType DEF TypeOK
  <2>2. QED
    BY <2>1
<1>4. /\ n \in Nat /\ n <= size + 1 /\ ~(n <= size)
      /\ RegistrationKeys(w) = ClaimKeys(w, n - 1)
      /\ report[w].items = <<>> /\ RegistrationKeys(w) \subseteq Keys([rows |-> held[w]])
  BY <1>1, <1>2, <1>3 DEF ReportFollows, RegistrationsFollow, TypeOK
<1>5. n - 1 = size
  BY <1>4
<1>6. RegistrationKeys(w)' = ClaimKeys(w, Len(CurrentArtifacts(snap[w])))'
  <2>1. RegistrationKeys(w)' = RegistrationKeys(w)
    BY <1>1, Zenon DEF RegistrationKeys
  <2>2. ClaimKeys(w, Len(CurrentArtifacts(snap[w])))' = {claims[i].key : i \in 1 .. size}
    BY <1>1, <1>2, <1>3 DEF ClaimKeys
  <2>3. ClaimKeys(w, n - 1) = {claims[i].key : i \in 1 .. size}
    BY <1>2, <1>5 DEF ClaimKeys
  <2>4. QED
    BY <1>4, <2>1, <2>2, <2>3
<1>7. RegistrationKeys(w)' \subseteq Keys([rows |-> held[w]])'
  BY <1>1, <1>4 DEF RegistrationKeys, Keys
<1>8. RegistrationsFollow(w)'
  BY <1>1, <1>6, <1>7 DEF RegistrationsFollow
<1>9. NoRepeatedKey([rows |-> held[w]])'
  BY <1>1 DEF ReportFollows, NoRepeatedKey
<1>10. Behind(w)' = {}
  <2>1. held'[w] \in Seq(Artifacts) /\ Horizons \in Seq(Nat \ {0})
    BY <1>1, ConstantsAssumption DEF TypeOK
  <2>2. PICK k \in Nat, l \in Nat : DOMAIN held'[w] = 1 .. k /\ DOMAIN Horizons = 1 .. l
    BY <2>1
  <2>3. \A p \in (1 .. k) \X (1 .. l) : ~(p[1] < 1 \/ (p[1] = 1 /\ p[2] < 1))
    OBVIOUS
  <2>4. QED
    BY <1>1, <2>2, <2>3 DEF Behind, Positions, Before
<1>11. ItemsFollow(w)'
  <2>1. report'[w].items = <<>>
    BY <1>1, <1>4
  <2>2. ToSet(report'[w].items) = {} /\ DOMAIN report'[w].items = {}
    BY <2>1 DEF ToSet
  <2>3. ItemKeys(w)' = {} /\ PairsBehind(w)' = {}
    BY <1>10, <2>2 DEF ItemKeys, PairsBehind
  <2>4. QED
    BY <1>10, <2>2, <2>3 DEF ItemsFollow
<1>12. QED
  BY <1>1, <1>8, <1>9, <1>11 DEF ReportFollows

-----------------------------------------------------------------------------
(* The report: the conclusions.                                            *)

(* The pair at hand is one that a report can hold.                         *)
LEMMA ItemProperties ==
    ASSUME TypeOK, NEW w \in Writers, at[w][1] <= Len(held[w])
    PROVE  /\ Item(w) \in Artifacts /\ Item(w).key \in ArtifactKeys
           /\ ItemHorizon(w) \in HorizonSet /\ ItemHorizon(w) \in Nat \ {0}
           /\ Item(w) = held[w][at[w][1]] /\ ItemHorizon(w) = Horizons[at[w][2]]
           /\ \A status \in Verdicts : OutcomeItem(w, status) \in Items
<1>1. at[w] \in Positions(w) /\ held[w] \in Seq(Artifacts)
  BY PositionsType DEF TypeOK
<1>2. at[w][1] \in DOMAIN held[w] /\ at[w][2] \in DOMAIN Horizons
  BY <1>1 DEF Positions
<1>3. Item(w) \in Artifacts /\ Item(w).key \in ArtifactKeys
  <2>1. Item(w) \in Artifacts
    BY <1>1, <1>2 DEF Item
  <2>2. QED
    BY <2>1 DEF Artifacts
<1>4. ItemHorizon(w) \in HorizonSet /\ ItemHorizon(w) \in Nat \ {0}
  BY <1>2, ConstantsAssumption DEF ItemHorizon, HorizonSet
<1>5. <<Item(w).key, ItemHorizon(w)>> \in OutcomeKeys
  BY <1>3, <1>4 DEF OutcomeKeys
<1>6. \A status \in Verdicts : OutcomeItem(w, status) \in Items
  BY <1>5 DEF OutcomeItem, Items
<1>7. QED
  BY <1>3, <1>4, <1>6 DEF Item, ItemHorizon

(* What is due is inside the window, so only a held line leaves it alone.  *)
LEMMA DueIsExamined ==
    ASSUME NEW artifact \in Artifacts, NEW h, NEW s \in Snapshots, NEW known,
           IsDue(artifact, h, s), ~IsExamined(artifact, h, s, known)
    PROVE  <<artifact.key, h>> \in known
<1>1. artifact.timestamp \in DOMAIN s.bars
  BY DEF IsDue
<1>2. artifact.timestamp \in Int
  <2>1. artifact.timestamp \in Days
    BY DEF Artifacts
  <2>2. QED
    BY <2>1, ConstantsAssumption DEF Days
<1>3. ~\A d \in DOMAIN s.bars : artifact.timestamp < d
  BY <1>1, <1>2
<1>4. QED
  BY <1>3 DEF IsExamined

(* A line measured from the snapshot is the one the index finds.           *)
LEMMA MeasuredIsIndexed ==
    ASSUME TypeOK, NEW w \in Writers, at[w][1] <= Len(held[w]), Due(w)
    PROVE  /\ IsIndexed(Measured(w), snap[w])
           /\ Measured(w).key = <<Item(w).key, ItemHorizon(w)>>
<1>1. PICK artifact, h, s : artifact = Item(w) /\ h = ItemHorizon(w) /\ s = snap[w]
  OBVIOUS
<1>2. artifact \in Artifacts /\ h \in Nat \ {0} /\ s \in Snapshots /\ s.bars \in Bars
  BY <1>1, ItemProperties DEF TypeOK, Snapshots
<1>3. artifact.timestamp \in DOMAIN s.bars /\ IsComplete(s.bars, artifact.timestamp, h)
  BY <1>1 DEF Due, IsDue
<1>4. PICK o : o = OutcomeOf(artifact, s, h)
  OBVIOUS
<1>5. o = Measured(w)
  BY <1>1, <1>4 DEF Measured
<1>6. /\ o.key = <<artifact.key, h>> /\ o.artifact = artifact /\ o.horizon = h
      /\ o.evaluated_at = s.built_at
      /\ o.reference = Earliest(HorizonDays(s.bars, artifact.timestamp, h))
      /\ o.future = Latest(HorizonDays(s.bars, artifact.timestamp, h))
  BY <1>4 DEF OutcomeOf
<1>7. PICK m : m = MeasureForward(s.bars, artifact.timestamp, h)
  OBVIOUS
<1>8. o.reference = m.reference /\ o.future = m.future
  BY <1>2, <1>3, <1>6, <1>7, MeasuredByIndex
<1>9. IsIndexed(o, s)
  BY <1>6, <1>7, <1>8 DEF IsIndexed
<1>10. QED
  BY <1>1, <1>5, <1>6, <1>9

(* Nothing to write: the line is there, or the claim is not due.           *)
LEMMA PassConcludes ==
    ASSUME TypeOK, BeliefsAreDurable, ReportType, NEW w \in Writers, ReportFollows(w),
           Pass(w), Concludes(w, ItemStatus(w))
    PROVE  ReportType' /\ ReportFollows(w)'
<1>1. /\ pc[w] = "measuring" /\ at[w][1] <= Len(held[w]) /\ ~(Examined(w) /\ Due(w))
      /\ at'[w] = NextItem(at[w]) /\ pc' = pc /\ snap' = snap /\ held' = held
      /\ outcomes' = outcomes
  BY DEF Pass, HasItem, files, TypeOK
<1>2. /\ Item(w) \in Artifacts /\ Item(w) = held[w][at[w][1]]
      /\ ItemHorizon(w) = Horizons[at[w][2]]
      /\ \A status \in Verdicts : OutcomeItem(w, status) \in Items
  BY <1>1, ItemProperties
<1>3. PICK key : key = <<Item(w).key, ItemHorizon(w)>>
  OBVIOUS
<1>4. PICK status : status = ItemStatus(w)
  OBVIOUS
<1>5. /\ status \in Verdicts /\ status # "written"
      /\ status = "present" => key \in present[w]
  <2>1. EvaluateArtifact(Item(w), snap[w], ItemHorizon(w)).status
           \in {"evaluated", "pending", "ineligible", "refused"}
    BY DEF EvaluateArtifact, Result
  <2>2. status = IF key \in present[w] THEN "present"
                 ELSE IF ~Examined(w) THEN "out_of_window"
                 ELSE EvaluateArtifact(Item(w), snap[w], ItemHorizon(w)).status
    BY <1>1, <1>3, <1>4 DEF ItemStatus
  <2>3. QED
    BY <2>1, <2>2 DEF Verdicts
<1>6. PICK item : item = OutcomeItem(w, status)
  OBVIOUS
<1>7. item \in Items /\ item.key = key /\ item.status = status
  BY <1>2, <1>3, <1>5, <1>6 DEF OutcomeItem
<1>8. present[w] \subseteq Keys(outcomes)
  BY DEF BeliefsAreDurable
<1>9. ItemIsTrue(w, item)'
  <2>1. status = "present" => key \in {o.key : o \in RowSet(outcomes)}
    BY <1>5, <1>8, KeysOfRows
  <2>2. status = "present" => Claimed(item)'
    BY <1>1, <1>7, <2>1 DEF Claimed
  <2>3. QED
    BY <1>5, <1>7, <2>2 DEF ItemIsTrue
<1>10. PICK here : here = at[w]
  OBVIOUS
<1>11. PairIsSettled(w, here)'
  <2>1. ASSUME IsDue(held[w][here[1]], Horizons[here[2]], snap[w])
        PROVE  PairAt(w, here) \in Keys(outcomes)
    <3>1. Due(w)
      BY <1>2, <1>10, <2>1 DEF Due
    <3>2. IsDue(Item(w), ItemHorizon(w), snap[w]) /\ snap[w] \in Snapshots
          /\ ~IsExamined(Item(w), ItemHorizon(w), snap[w], present[w])
      BY <1>1, <3>1 DEF Due, Examined, TypeOK
    <3>3. key \in present[w]
      BY <1>2, <1>3, <3>2, DueIsExamined
    <3>4. PairAt(w, here) = key
      BY <1>2, <1>3, <1>10 DEF PairAt
    <3>5. QED
      BY <1>8, <3>3, <3>4
  <2>2. PairAt(w, here)' = PairAt(w, here)
    BY <1>1 DEF PairAt
  <2>3. QED
    BY <1>1, <2>1, <2>2 DEF PairIsSettled
<1>12. Concludes(w, status) /\ ItemsFollow(w) /\ NoRepeatedKey([rows |-> held[w]])
  BY <1>1, <1>4 DEF ReportFollows, Describes
<1>13. ItemsFollow(w)'
  BY <1>1, <1>6, <1>7, <1>9, <1>10, <1>11, <1>12, ItemsAdvance
<1>14. ReportType' /\ report'[w].registrations = report[w].registrations
  BY <1>6, <1>7, <1>12, ConcludesChanges
<1>15. RegistrationsFollow(w)'
  BY <1>1, <1>14, RegistrationsStay DEF ReportFollows, Describes
<1>16. QED
  BY <1>1, <1>12, <1>13, <1>14, <1>15 DEF ReportFollows, NoRepeatedKey

(* Another writer's equal line is there.                                   *)
LEMMA DuplicateConcludes ==
    ASSUME TypeOK, ReportType, NEW w \in Writers, ReportFollows(w),
           MeasureDuplicate(w), Concludes(w, ItemStatus(w))
    PROVE  ReportType' /\ ReportFollows(w)'
<1>1. /\ pc[w] = "measuring" /\ at[w][1] <= Len(held[w]) /\ Examined(w) /\ Due(w)
      /\ Measured(w) \in RowSet(outcomes)
      /\ at'[w] = NextItem(at[w]) /\ pc' = pc /\ snap' = snap /\ held' = held
      /\ outcomes' = outcomes
  BY DEF MeasureDuplicate, HasItem, Evaluated, files, TypeOK
<1>2. \A status \in Verdicts : OutcomeItem(w, status) \in Items
  BY <1>1, ItemProperties
<1>3. PICK key : key = <<Item(w).key, ItemHorizon(w)>>
  OBVIOUS
<1>4. PICK status : status = ItemStatus(w)
  OBVIOUS
<1>5. status = "present" /\ status \in Verdicts
  BY <1>1, <1>4 DEF ItemStatus, Verdicts
<1>6. PICK item : item = OutcomeItem(w, status)
  OBVIOUS
<1>7. item \in Items /\ item.key = key /\ item.status = "present"
  BY <1>2, <1>3, <1>5, <1>6 DEF OutcomeItem
<1>8. Measured(w).key = key
  BY <1>1, <1>3, MeasuredIsIndexed
<1>9. ItemIsTrue(w, item)'
  <2>1. Claimed(item)'
    BY <1>1, <1>7, <1>8 DEF Claimed
  <2>2. QED
    BY <1>7, <2>1 DEF ItemIsTrue
<1>10. PICK here : here = at[w]
  OBVIOUS
<1>11. PairIsSettled(w, here)'
  <2>1. PairAt(w, here)' = key
    BY <1>1, <1>3, <1>10, ItemProperties DEF PairAt
  <2>2. key \in Keys(outcomes)
    BY <1>1, <1>8, KeysOfRows
  <2>3. QED
    BY <1>1, <2>1, <2>2 DEF PairIsSettled
<1>12. Concludes(w, status) /\ ItemsFollow(w) /\ NoRepeatedKey([rows |-> held[w]])
  BY <1>1, <1>4 DEF ReportFollows, Describes
<1>13. ItemsFollow(w)'
  BY <1>1, <1>6, <1>7, <1>9, <1>10, <1>11, <1>12, ItemsAdvance
<1>14. ReportType' /\ report'[w].registrations = report[w].registrations
  BY <1>6, <1>7, <1>12, ConcludesChanges
<1>15. RegistrationsFollow(w)'
  BY <1>1, <1>14, RegistrationsStay DEF ReportFollows, Describes
<1>16. QED
  BY <1>1, <1>12, <1>13, <1>14, <1>15 DEF ReportFollows, NoRepeatedKey

(* The line is decided upon.                                               *)
LEMMA MeasureKeeps ==
    ASSUME TypeOK, ReportType, NEW w \in Writers, ReportFollows(w), Measure(w), UNCHANGED report
    PROVE  ReportFollows(w)'
<1>1. /\ pc[w] = "measuring" /\ pc'[w] = "appending_outcome"
      /\ at[w][1] <= Len(held[w]) /\ Due(w) /\ line'[w] = Measured(w)
      /\ at' = at /\ snap' = snap /\ held' = held /\ outcomes' = outcomes /\ report' = report
  BY DEF Measure, HasItem, Evaluated, Goto, files, TypeOK
<1>2. RegistrationsFollow(w)'
  BY <1>1, RegistrationsStay DEF ReportFollows, Describes
<1>3. ItemsFollow(w)'
  BY <1>1, ItemsStay DEF ReportFollows, Describes
<1>4. LineIsDue(w)'
  <2>1. Item(w)' = Item(w) /\ ItemHorizon(w)' = ItemHorizon(w)
    BY <1>1 DEF Item, ItemHorizon
  <2>2. Due(w)' = Due(w) /\ Measured(w)' = Measured(w)
    BY <1>1, <2>1, Zenon DEF Due, Measured
  <2>3. QED
    BY <1>1, <2>2 DEF LineIsDue
<1>5. NoRepeatedKey([rows |-> held[w]])'
  BY <1>1 DEF ReportFollows, NoRepeatedKey
<1>6. QED
  BY <1>1, <1>2, <1>3, <1>4, <1>5 DEF ReportFollows

(* The line is on the disk.                                                *)
LEMMA WrittenConcludes ==
    ASSUME TypeOK, TypeInv, LoneInv, ReportType, NEW w \in Writers, ReportFollows(w),
           AppendOutcome(w), Concludes(w, "written")
    PROVE  ReportType' /\ ReportFollows(w)'
<1>1. /\ pc[w] = "appending_outcome" /\ pc'[w] = "measuring" /\ outcomes.tail = "clean"
      /\ at'[w] = NextItem(at[w]) /\ snap' = snap /\ held' = held
      /\ outcomes' = Appended(outcomes, line[w])
  BY DEF AppendOutcome, Goto, TypeOK, LoneInv
<1>2. at[w][1] <= Len(held[w]) /\ Due(w) /\ line[w] = Measured(w) /\ line[w] \in Outcomes
  BY <1>1 DEF ReportFollows, LineIsDue, TypeInv, Fits
<1>3. RowSet(outcomes) \subseteq RowSet(outcomes') /\ line[w] \in RowSet(outcomes')
  BY <1>1, <1>2, AppendedProperties DEF TypeOK
<1>4. PICK key : key = <<Item(w).key, ItemHorizon(w)>>
  OBVIOUS
<1>5. IsIndexed(line[w], snap[w]) /\ line[w].key = key
  BY <1>2, <1>4, MeasuredIsIndexed
<1>6. PICK status \in Verdicts : status = "written"
  BY DEF Verdicts
<1>7. PICK item : item = OutcomeItem(w, status)
  OBVIOUS
<1>8. item \in Items /\ item.key = key /\ item.status = status
  BY <1>2, <1>4, <1>6, <1>7, ItemProperties DEF OutcomeItem
<1>9. ItemIsTrue(w, item)'
  <2>1. \E outcome \in RowSet(outcomes') : outcome.key = key /\ IsIndexed(outcome, snap[w])
    BY <1>3, <1>5
  <2>2. Claimed(item)'
    BY <1>8, <2>1 DEF Claimed
  <2>3. QED
    BY <1>1, <1>8, <2>1, <2>2 DEF ItemIsTrue
<1>10. PICK here : here = at[w]
  OBVIOUS
<1>11. PairIsSettled(w, here)'
  <2>1. PairAt(w, here)' = key
    BY <1>1, <1>2, <1>4, <1>10, ItemProperties DEF PairAt
  <2>2. key \in Keys(outcomes')
    BY <1>3, <1>5, KeysOfRows
  <2>3. QED
    BY <2>1, <2>2 DEF PairIsSettled
<1>12. Concludes(w, status) /\ ItemsFollow(w) /\ NoRepeatedKey([rows |-> held[w]])
  BY <1>1, <1>6 DEF ReportFollows, Describes
<1>13. ItemsFollow(w)'
  BY <1>1, <1>2, <1>3, <1>7, <1>8, <1>9, <1>10, <1>11, <1>12, ItemsAdvance
<1>14. ReportType' /\ report'[w].registrations = report[w].registrations
  BY <1>7, <1>8, <1>12, ConcludesChanges
<1>15. RegistrationsFollow(w)'
  BY <1>1, <1>14, RegistrationsStay DEF ReportFollows, Describes
<1>16. QED
  BY <1>1, <1>12, <1>13, <1>14, <1>15 DEF ReportFollows, NoRepeatedKey

-----------------------------------------------------------------------------
(* The report: it is true.                                                 *)

(* A report is written by the steps of a refresh.                          *)
LEMMA ReportStepIsStep == [ReportNext]_<<vars, report>> => [Next]_vars
<1>1. ASSUME ReportNext PROVE Next
  <2>1. \A w \in Writers : Reporting(w) \/ Silent(w) \/ Over(w) => Begin(w) \/ Step(w) \/ Fault(w)
    BY DEF Reporting, Silent, Over, Step
  <2>2. QED
    BY <1>1, <2>1 DEF ReportNext, Next
<1>2. QED
  BY <1>1

LEMMA ReportStarts == ReportInit => ReportType /\ ReportInv
<1>1. SUFFICES ASSUME ReportInit PROVE ReportType /\ ReportInv
  OBVIOUS
<1>2. EmptyReport \in Reports
  BY DEF EmptyReport, Reports
<1>3. report = [w \in Writers |-> EmptyReport] /\ Init
  BY <1>1 DEF ReportInit
<1>4. ReportType
  BY <1>2, <1>3 DEF ReportType
<1>5. ASSUME NEW w \in Writers PROVE ReportFollows(w)
  <2>1. /\ report[w] = EmptyReport /\ pc[w] = "idle" /\ held[w] = <<>> /\ at[w] = <<1, 1>>
    BY <1>3 DEF Init
  <2>2. RegistrationKeys(w) = {}
    <3>1. report[w].registrations = <<>>
      BY <2>1 DEF EmptyReport
    <3>2. QED
      BY <3>1 DEF RegistrationKeys, ToSet
  <2>3. NoRepeatedKey([rows |-> held[w]])
    BY <2>1 DEF NoRepeatedKey
  <2>4. QED
    BY <2>1, <2>2, <2>3 DEF ReportFollows, RegistrationsFollow, Describes
<1>6. QED
  BY <1>4, <1>5 DEF ReportInv

(* One refresh at a time: every step keeps its report true.                *)
LEMMA ReportStepKeeps ==
    ASSUME SingleWriter, TypeInv, LoneInv, ReportType, ReportInv,
           [ReportNext]_<<vars, report>>
    PROVE  ReportType' /\ ReportInv'
<1>1. TypeOK /\ BeliefsAreDurable /\ \A w \in Writers : ReportFollows(w)
  BY DEF TypeInv, LoneInv, ReportInv
<1>2. RowSet(outcomes) \subseteq RowSet(outcomes')
  BY ReportStepIsStep, RowsGrow
<1>3. ASSUME UNCHANGED <<local, report>>
      PROVE  ReportType' /\ ReportInv'
  <2>1. \A w \in Writers : ReportType' /\ ReportFollows(w)'
    BY <1>1, <1>2, <1>3, QuietKeeps
  <2>2. ReportType'
    BY <1>3 DEF ReportType
  <2>3. QED
    BY <2>1, <2>2 DEF ReportInv
<1>4. ASSUME NEW w \in Writers, ReportType', ReportFollows(w)'
      PROVE  ReportType' /\ ReportInv'
  <2>1. \A v \in Writers : v = w
    BY DEF SingleWriter
  <2>2. ASSUME NEW v \in Writers PROVE ReportFollows(v)'
    BY <1>4, <2>1
  <2>3. QED
    BY <1>4, <2>2 DEF ReportInv
<1>5. CASE UNCHANGED <<vars, report>>
  BY <1>3, <1>5 DEF vars
<1>6. CASE Vendor /\ UNCHANGED report
  BY <1>3, <1>6, TypeVendorStep DEF local
<1>7. ASSUME NEW w \in Writers, Over(w)
      PROVE  ReportType' /\ ReportInv'
  BY <1>1, <1>4, <1>7, OverKeeps
<1>8. ASSUME NEW w \in Writers, Silent(w)
      PROVE  ReportType' /\ ReportInv'
  <2>1. report' = report
    BY <1>8 DEF Silent
  <2>2. ReportType'
    BY <2>1 DEF ReportType
  <2>3. CASE Begin(w) \/ Fetch(w) \/ Open(w)
    BY <1>1, <1>4, <2>1, <2>2, <2>3, OpeningKeeps
  <2>4. CASE OfferNew(w)
    <3>1. /\ pc[w] = "registering" /\ pc'[w] = "appending_artifact"
          /\ at' = at /\ snap' = snap /\ held' = held
      BY <1>1, <2>4 DEF OfferNew, HasClaim, Goto, TypeOK
    <3>2. RegistrationsFollow(w)'
      BY <1>1, <2>1, <3>1, RegistrationsStay DEF ReportFollows
    <3>3. NoRepeatedKey([rows |-> held[w]])'
      BY <1>1, <3>1 DEF ReportFollows, NoRepeatedKey
    <3>4. ReportFollows(w)'
      BY <3>1, <3>2, <3>3 DEF ReportFollows, Describes
    <3>5. QED
      BY <1>4, <2>2, <3>4
  <2>5. CASE ReadPresent(w)
    BY <1>1, <1>4, <2>1, <2>2, <2>5, ReadPresentKeeps
  <2>6. CASE Measure(w)
    BY <1>1, <1>4, <2>1, <2>2, <2>6, MeasureKeeps
  <2>7. QED
    BY <1>8, <2>3, <2>4, <2>5, <2>6 DEF Silent
<1>9. ASSUME NEW w \in Writers, Reporting(w)
      PROVE  ReportType' /\ ReportInv'
  <2>1. CASE AppendArtifact(w) /\ Registers(w, "written")
    <3>1. at[w][1] <= Len(CurrentArtifacts(snap[w]))
      BY <2>1 DEF AppendArtifact, TypeInv, Fits
    <3>2. /\ pc[w] = "appending_artifact" /\ pc'[w] = "registering"
          /\ snap'[w] = snap[w] /\ held'[w] = Tracked(w) /\ at'[w] = <<at[w][1] + 1, 1>>
      BY <1>1, <2>1 DEF AppendArtifact, NextClaim, Goto, TypeOK
    <3>3. ReportType' /\ ReportFollows(w)'
      BY <1>1, <2>1, <3>1, <3>2, RegisteringKeeps
    <3>4. QED
      BY <1>4, <3>3
  <2>2. CASE OfferDuplicate(w) /\ Registers(w, "duplicate")
    <3>1. /\ at[w][1] <= Len(CurrentArtifacts(snap[w]))
          /\ pc[w] = "registering" /\ pc'[w] = "registering"
          /\ snap'[w] = snap[w] /\ held'[w] = Tracked(w) /\ at'[w] = <<at[w][1] + 1, 1>>
      BY <1>1, <2>2 DEF OfferDuplicate, HasClaim, NextClaim, TypeOK
    <3>2. ReportType' /\ ReportFollows(w)'
      BY <1>1, <2>2, <3>1, RegisteringKeeps
    <3>3. QED
      BY <1>4, <3>2
  <2>3. CASE Pass(w) /\ Concludes(w, ItemStatus(w))
    BY <1>1, <1>4, <2>3, PassConcludes
  <2>4. CASE MeasureDuplicate(w) /\ Concludes(w, ItemStatus(w))
    BY <1>1, <1>4, <2>4, DuplicateConcludes
  <2>5. CASE AppendOutcome(w) /\ Concludes(w, "written")
    BY <1>1, <1>4, <2>5, WrittenConcludes
  <2>6. QED
    BY <1>9, <2>1, <2>2, <2>3, <2>4, <2>5 DEF Reporting
<1>10. QED
  BY <1>5, <1>6, <1>7, <1>8, <1>9 DEF ReportNext

(* Once nothing is left to do, everything is behind, and as many claims    *)
(* were tracked as were held.                                              *)
LEMMA NothingLeft ==
    ASSUME TypeOK, NEW w \in Writers, ReportFollows(w), pc[w] = "measuring", ~HasItem(w)
    PROVE  /\ ItemKeys(w) = PairsOf(w)
           /\ ArtifactsTracked(report[w].items) = Len(held[w])
           /\ \A artifact \in RowSet([rows |-> held[w]]), h \in HorizonSet :
                 IsDue(artifact, h, snap[w]) => <<artifact.key, h>> \in Keys(outcomes)
<1>1. PICK mine : mine = held[w]
  OBVIOUS
<1>2. mine \in Seq(Artifacts) /\ DOMAIN mine = 1 .. Len(mine) /\ Len(mine) \in Nat
  BY <1>1 DEF TypeOK
<1>3. ~(at[w][1] <= Len(mine)) /\ at[w][1] \in Nat
  BY <1>1 DEF HasItem, TypeOK
<1>4. ItemsFollow(w) /\ NoRepeatedKey([rows |-> mine])
  BY <1>1 DEF ReportFollows, Describes
<1>5. Behind(w) = Positions(w)
  <2>1. \A p \in Positions(w) : p[1] \in 1 .. Len(mine)
    BY <1>1, <1>2 DEF Positions
  <2>2. \A p \in Positions(w) : Before(p, at[w])
    BY <1>2, <1>3, <2>1 DEF Before
  <2>3. QED
    BY <2>2 DEF Behind
<1>6. /\ \A i \in DOMAIN mine, j \in DOMAIN Horizons : <<i, j>> \in Positions(w)
      /\ \A p \in Positions(w) : p[1] \in DOMAIN mine /\ p[2] \in DOMAIN Horizons
  BY <1>1 DEF Positions
<1>7. ItemKeys(w) = PairsOf(w)
  <2>1. ItemKeys(w) = {PairAt(w, p) : p \in Positions(w)}
    BY <1>4, <1>5 DEF ItemsFollow, PairsBehind
  <2>2. ASSUME NEW p \in Positions(w)
        PROVE  PairAt(w, p) \in PairsOf(w)
    <3>1. mine[p[1]] \in RowSet([rows |-> mine]) /\ Horizons[p[2]] \in HorizonSet
      BY <1>6 DEF RowSet, HorizonSet
    <3>2. QED
      BY <1>1, <3>1 DEF PairAt, PairsOf
  <2>3. ASSUME NEW pair \in PairsOf(w)
        PROVE  \E p \in Positions(w) : pair = PairAt(w, p)
    <3>1. PICK artifact \in RowSet([rows |-> mine]), h \in HorizonSet : pair = <<artifact.key, h>>
      BY <1>1 DEF PairsOf
    <3>2. PICK i \in DOMAIN mine : artifact = mine[i]
      BY DEF RowSet
    <3>3. PICK j \in DOMAIN Horizons : h = Horizons[j]
      BY DEF HorizonSet
    <3>4. PICK p \in Positions(w) : p = <<i, j>>
      BY <1>6
    <3>5. pair = PairAt(w, p)
      BY <1>1, <3>1, <3>2, <3>3, <3>4 DEF PairAt
    <3>6. QED
      BY <3>5
  <2>4. QED
    BY <2>1, <2>2, <2>3
<1>8. ASSUME NEW artifact \in RowSet([rows |-> held[w]]), NEW h \in HorizonSet,
             IsDue(artifact, h, snap[w])
      PROVE  <<artifact.key, h>> \in Keys(outcomes)
  <2>1. PICK i \in DOMAIN mine : artifact = mine[i]
    BY <1>1 DEF RowSet
  <2>2. PICK j \in DOMAIN Horizons : h = Horizons[j]
    BY DEF HorizonSet
  <2>3. PICK p \in Positions(w) : p = <<i, j>>
    BY <1>6
  <2>4. PairIsSettled(w, p)
    BY <1>4, <1>5 DEF ItemsFollow
  <2>5. PairAt(w, p) \in Keys(outcomes)
    BY <1>1, <1>8, <2>1, <2>2, <2>3, <2>4 DEF PairIsSettled
  <2>6. QED
    BY <1>1, <2>1, <2>2, <2>3, <2>5 DEF PairAt
<1>9. ArtifactsTracked(report[w].items) = Len(mine)
  <2>1. PICK rows : rows = RowSet([rows |-> mine])
    OBVIOUS
  <2>2. PICK file : file = [rows |-> mine, tail |-> "clean"]
    OBVIOUS
  <2>3. file \in File(Artifacts) /\ RowSet(file) = rows /\ NoRepeatedKey(file)
    BY <1>2, <1>4, <2>1, <2>2 DEF File, Tails, RowSet, NoRepeatedKey
  <2>4. IsFiniteSet(rows) /\ Cardinality(rows) = Len(mine)
    <3>1. file.rows = mine
      BY <2>2
    <3>2. QED
      BY <2>3, <3>1, FileSize
  <2>5. KeysApart(rows)
    BY <2>3, ReadableApart
  <2>6. Cardinality(KeysIn(rows)) = Len(mine)
    BY <2>4, <2>5, KeysCount
  <2>7. {report[w].items[i].key[1] : i \in DOMAIN report[w].items} = KeysIn(rows)
    <3>1. PICK items : items = report[w].items
      OBVIOUS
    <3>2. \A i \in DOMAIN items : items[i].key \in PairsOf(w)
      <4>1. \A i \in DOMAIN items : items[i] \in ToSet(items)
        BY DEF ToSet
      <4>2. \A i \in DOMAIN items : items[i].key \in ItemKeys(w)
        BY <3>1, <4>1 DEF ItemKeys
      <4>3. QED
        BY <1>7, <4>2
    <3>3. \A i \in DOMAIN items : items[i].key[1] \in KeysIn(rows)
      <4>1. \A pair \in PairsOf(w) : pair[1] \in KeysIn(rows)
        BY <1>1, <2>1 DEF PairsOf, KeysIn
      <4>2. QED
        BY <3>2, <4>1
    <3>4. ASSUME NEW key \in KeysIn(rows)
          PROVE  \E i \in DOMAIN items : items[i].key[1] = key
      <4>1. PICK artifact \in rows : artifact.key = key
        BY DEF KeysIn
      <4>2. 1 \in DOMAIN Horizons
        BY ConstantsAssumption
      <4>3. PICK h \in HorizonSet : h = Horizons[1]
        BY <4>2 DEF HorizonSet
      <4>4. <<key, h>> \in PairsOf(w)
        BY <1>1, <2>1, <4>1 DEF PairsOf
      <4>5. <<key, h>> \in ItemKeys(w)
        BY <1>7, <4>4
      <4>6. PICK i \in DOMAIN items : items[i].key = <<key, h>>
        BY <3>1, <4>5 DEF ItemKeys, ToSet
      <4>7. QED
        BY <4>6
    <3>5. {items[i].key[1] : i \in DOMAIN items} = KeysIn(rows)
      BY <3>3, <3>4
    <3>6. QED
      BY <3>1, <3>5
  <2>8. QED
    BY <2>6, <2>7 DEF ArtifactsTracked
<1>10. QED
  BY <1>1, <1>7, <1>8, <1>9

(* What a refresh has said so far is what the ledger holds.                *)
LEMMA ReportHolds ==
    ASSUME TypeOK, BeliefsAreDurable, ReportType, ReportInv
    PROVE  ReportIsTrue
<1>1. ASSUME NEW w \in Writers, Describes(w),
             NEW s, s = snap[w], NEW items, items = report[w].items,
             NEW keys, keys = [i \in DOMAIN items |-> items[i].key]
      PROVE  /\ {r.key : r \in ToSet(report[w].registrations)} =
                   {claim.key : claim \in RowSet([rows |-> CurrentArtifacts(s)])}
             /\ \A r \in ToSet(report[w].registrations) :
                   r.key \in Keys(artifacts) /\ \E h \in HorizonSet : <<r.key, h>> \in PairsOf(w)
             /\ IsInjective(keys) /\ ToSet(keys) \subseteq PairsOf(w)
             /\ \A item \in ToSet(items) :
                   /\ item.status \in {"written", "present"} => Claimed(item)
                   /\ item.status = "written" =>
                         \E outcome \in RowSet(outcomes) :
                             outcome.key = item.key /\ IsIndexed(outcome, s)
             /\ ~HasItem(w) /\ pc[w] = "measuring" =>
                   /\ ToSet(keys) = PairsOf(w)
                   /\ ArtifactsTracked(items) = Len(held[w])
                   /\ \A artifact \in RowSet([rows |-> held[w]]), h \in HorizonSet :
                         IsDue(artifact, h, s) => <<artifact.key, h>> \in Keys(outcomes)
             /\ HasItem(w) /\ Examined(w) /\ ~HardError(w) =>
                   /\ IsTrackingResult(EvaluateArtifact(Item(w), s, ItemHorizon(w)))
                   /\ EvaluateArtifact(Item(w), s, ItemHorizon(w)).status = "evaluated" <=> Due(w)
  <2>1. ReportFollows(w) /\ RegistrationsFollow(w) /\ ItemsFollow(w)
    BY <1>1 DEF ReportInv, ReportFollows
  <2>2. {r.key : r \in ToSet(report[w].registrations)} =
           {claim.key : claim \in RowSet([rows |-> CurrentArtifacts(s)])}
    <3>1. PICK claims : claims = CurrentArtifacts(s)
      OBVIOUS
    <3>2. claims \in Seq(Artifacts)
      BY <1>1, <3>1, CurrentArtifactsType DEF TypeOK
    <3>3. RegistrationKeys(w) = {claims[i].key : i \in 1 .. Len(claims)}
      BY <1>1, <2>1, <3>1 DEF RegistrationsFollow, ClaimKeys
    <3>4. {claim.key : claim \in RowSet([rows |-> claims])} =
             {claims[i].key : i \in 1 .. Len(claims)}
      BY <3>2 DEF RowSet
    <3>5. QED
      BY <3>1, <3>3, <3>4 DEF RegistrationKeys
  <2>3. ASSUME NEW r \in ToSet(report[w].registrations)
        PROVE  r.key \in Keys(artifacts) /\ \E h \in HorizonSet : <<r.key, h>> \in PairsOf(w)
    <3>1. PICK i \in DOMAIN held[w] : held[w][i].key = r.key
      <4>1. r.key \in Keys([rows |-> held[w]])
        BY <2>1 DEF RegistrationsFollow, RegistrationKeys
      <4>2. QED
        BY <4>1 DEF Keys
    <3>2. PICK artifact \in RowSet([rows |-> held[w]]) : artifact.key = r.key
      BY <3>1 DEF RowSet
    <3>3. artifact \in RowSet(artifacts)
      BY DEF BeliefsAreDurable
    <3>4. r.key \in Keys(artifacts)
      BY <3>2, <3>3, KeysOfRows
    <3>5. PICK h \in HorizonSet : TRUE
      BY ConstantsAssumption DEF HorizonSet
    <3>6. <<artifact.key, h>> \in PairsOf(w)
      BY DEF PairsOf
    <3>7. QED
      BY <3>2, <3>4, <3>6
  <2>4. IsInjective(keys) /\ ToSet(keys) = ItemKeys(w)
    <3>1. \A i, j \in DOMAIN items : items[i].key = items[j].key => i = j
      BY <1>1, <2>1 DEF ItemsFollow
    <3>2. DOMAIN keys = DOMAIN items /\ \A i \in DOMAIN items : keys[i] = items[i].key
      BY <1>1
    <3>3. IsInjective(keys)
      BY <3>1, <3>2 DEF IsInjective
    <3>4. ItemKeys(w) = {item.key : item \in ToSet(items)}
      BY <1>1 DEF ItemKeys
    <3>5. ToSet(keys) = {item.key : item \in ToSet(items)}
      BY <3>2 DEF ToSet
    <3>6. QED
      BY <3>3, <3>4, <3>5
  <2>5. ToSet(keys) \subseteq PairsOf(w)
    <3>1. ASSUME NEW p \in Positions(w)
          PROVE  PairAt(w, p) \in PairsOf(w)
      <4>1. p[1] \in DOMAIN held[w] /\ p[2] \in DOMAIN Horizons
        BY DEF Positions
      <4>2. held[w][p[1]] \in RowSet([rows |-> held[w]]) /\ Horizons[p[2]] \in HorizonSet
        BY <4>1 DEF RowSet, HorizonSet
      <4>3. QED
        BY <4>2 DEF PairAt, PairsOf
    <3>2. PairsBehind(w) \subseteq PairsOf(w)
      BY <3>1 DEF PairsBehind, Behind
    <3>3. QED
      BY <2>1, <2>4, <3>2 DEF ItemsFollow
  <2>6. \A item \in ToSet(items) :
           /\ item.status \in {"written", "present"} => Claimed(item)
           /\ item.status = "written" =>
                 \E outcome \in RowSet(outcomes) : outcome.key = item.key /\ IsIndexed(outcome, s)
    BY <1>1, <2>1 DEF ItemsFollow, ItemIsTrue
  <2>7. ~HasItem(w) /\ pc[w] = "measuring" =>
           /\ ToSet(keys) = PairsOf(w)
           /\ ArtifactsTracked(items) = Len(held[w])
           /\ \A artifact \in RowSet([rows |-> held[w]]), h \in HorizonSet :
                 IsDue(artifact, h, s) => <<artifact.key, h>> \in Keys(outcomes)
    BY <1>1, <2>1, <2>4, NothingLeft
  <2>8. HasItem(w) /\ Examined(w) /\ ~HardError(w) =>
           /\ IsTrackingResult(EvaluateArtifact(Item(w), s, ItemHorizon(w)))
           /\ EvaluateArtifact(Item(w), s, ItemHorizon(w)).status = "evaluated" <=> Due(w)
    <3>1. SUFFICES ASSUME HasItem(w), ~HardError(w)
                   PROVE  /\ IsTrackingResult(EvaluateArtifact(Item(w), s, ItemHorizon(w)))
                          /\ EvaluateArtifact(Item(w), s, ItemHorizon(w)).status = "evaluated"
                                <=> Due(w)
      OBVIOUS
    <3>2. Item(w) \in Artifacts /\ ItemHorizon(w) \in Nat \ {0} /\ s \in Snapshots
      BY <1>1, <3>1, ItemProperties DEF HasItem, TypeOK
    <3>3. PICK artifact, h, r :
              /\ artifact = Item(w) /\ h = ItemHorizon(w)
              /\ r = EvaluateArtifact(Item(w), s, ItemHorizon(w))
      OBVIOUS
    <3>4. ~IsHardError(artifact, s)
      BY <1>1, <3>1, <3>3 DEF HardError
    <3>5. IsTrackingResult(r) /\ (r.status = "evaluated" <=> IsDue(artifact, h, s))
      BY <3>2, <3>3, <3>4, TrackingResultHolds
    <3>6. Due(w) <=> IsDue(artifact, h, s)
      BY <1>1, <3>3 DEF Due
    <3>7. QED
      BY <3>3, <3>5, <3>6
  <2>9. QED
    BY <2>2, <2>3, <2>4, <2>5, <2>6, <2>7, <2>8
<1>2. QED
  BY <1>1, Zenon DEF ReportIsTrue, IsIndexed

(* What the operator is told is what the ledger holds, for one refresh at a*)
(* time (application/outcomes.py, OutcomeRefreshResult): every current     *)
(* claim is registered, durable and tracked; each pair of a claim and a    *)
(* specification is concluded about once, in order; "written" and "present"*)
(* are said only of lines on the disk, "written" only of one that carries  *)
(* this refresh's clock and the bars the index arithmetic finds, however   *)
(* long the series and the horizon; and a refresh that is through has left *)
(* nothing without its line that its series could complete.  The keys of   *)
(* the claims held must be distinct for a pair to be concluded about once, *)
(* which is what the one read of the artifacts refuses to do without.      *)
THEOREM ReportsAreTrue ==
    ASSUME SingleWriter
    PROVE  ReportSpec => []ReportIsTrue
<1> DEFINE Inv == TypeInv /\ LoneInv /\ ReportType /\ ReportInv
<1>1. ReportInit => Inv
  BY TypeInit, LoneInit, ReportStarts DEF ReportInit
<1>2. Inv /\ [ReportNext]_<<vars, report>> => Inv'
  <2>1. SUFFICES ASSUME TypeInv, LoneInv, ReportType, ReportInv, [ReportNext]_<<vars, report>>
                 PROVE  Inv'
    OBVIOUS
  <2>2. [Next]_vars
    BY <2>1, ReportStepIsStep
  <2>3. TypeInv' /\ LoneInv'
    BY <2>1, <2>2, TypeNext, LoneNext
  <2>4. ReportType' /\ ReportInv'
    BY <2>1, ReportStepKeeps
  <2>5. QED
    BY <2>3, <2>4
<1>3. Inv => ReportIsTrue
  BY ReportHolds DEF TypeInv, LoneInv
<1>4. QED
  BY <1>1, <1>2, <1>3, PTL DEF ReportSpec
=============================================================================
