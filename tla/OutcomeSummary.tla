---------------------------- MODULE OutcomeSummary ----------------------------
(***************************************************************************)
(* outcomes/summary.py (summarize_outcomes) over the live ledger of        *)
(* OutcomeRefresh: how far each producer's claims have been measured.  The *)
(* summary reads the artifacts, then the outcomes, and no lock is held in  *)
(* between, so the writers may run in the middle of it.  It writes nothing *)
(* and needs no variable: what it read first, at whatever moment, is a     *)
(* prefix of the lines that are there when it reads the outcomes.          *)
(*                                                                         *)
(* The statistics of the forward returns are left out: they are arithmetic *)
(* on one group's samples, and no guard but their finiteness reads them.   *)
(***************************************************************************)
EXTENDS OutcomeRefresh, FiniteSetsExt

CONSTANT Requested    \* the specifications asked for: a set of horizons

IsRequest(specs) == specs # {} /\ specs \subseteq HorizonSet

ASSUME RequestedAssumption == IsRequest(Requested)

(* outcomes/models.py: every outcome this build writes carries version 1.*)
EvaluationVersion == 1

FirstLines(n) == [artifacts EXCEPT !.rows = SubSeq(@, 1, n)]

(* What the first read of a summary that is under way may have returned; a *)
(* first read that raises leaves nothing.                                  *)
FirstReads ==
    {RowSet(FirstLines(n)) : n \in {m \in 0 .. Len(artifacts.rows) : NoRepeatedKey(FirstLines(m))}}

-----------------------------------------------------------------------------
(* What the summary makes of the outcomes as they are now, having held the *)
(* artifacts of its first read.                                            *)

(* Seeded fault: an outcome of a claim the first read missed is let in.    *)
OutcomesLoadOrphans(read) ==
    /\ Readable(outcomes)
    /\ \A outcome \in RowSet(outcomes), artifact \in read :
          artifact.key = outcome.artifact.key => artifact = outcome.artifact

(* Each outcome embeds a claim the first read returned, to the last field. *)
OutcomesLoad(read) ==
    /\ Readable(outcomes)
    /\ \A outcome \in RowSet(outcomes) : outcome.artifact \in read

InScope == {outcome \in RowSet(outcomes) : outcome.horizon \in Requested}

ProducerKey(artifact) == artifact.producer

CoverageGroupKey(artifact, horizon) ==
    [spec     |-> horizon,
     producer |-> ProducerKey(artifact),
     state    |-> artifact.state,
     source   |-> artifact.source]

MetricGroupKey(outcome) ==
    [coverage           |-> CoverageGroupKey(outcome.artifact, outcome.horizon),
     evaluation_version |-> EvaluationVersion]

CoverageKeys(read) == {CoverageGroupKey(a, h) : a \in read, h \in Requested}
MetricKeys   == {MetricGroupKey(outcome) : outcome \in InScope}

Registered(read, key) == {a \in read : CoverageGroupKey(a, key.spec) = key}
Measurements(key)   == {outcome \in InScope : MetricGroupKey(outcome) = key}

(* Claims, not records: one measured twice is completed once.              *)
Completed(key) ==
    {outcome.artifact.key : outcome \in
        {o \in InScope : MetricGroupKey(o).coverage = key}}

Span(claims) ==
    LET days == {a.timestamp : a \in claims} IN [first |-> Earliest(days), last |-> Latest(days)]

CoverageGroup(read, key) ==
    [key        |-> key,
     registered |-> Cardinality(Registered(read, key)),
     evaluable  |-> Cardinality({a \in Registered(read, key) : IsEvaluable(a)}),
     completed  |-> Cardinality(Completed(key)),
     span       |-> Span(Registered(read, key))]

MetricGroup(read, key) ==
    [key        |-> key,
     registered |-> CoverageGroup(read, key.coverage).registered,
     evaluable  |-> CoverageGroup(read, key.coverage).evaluable,
     sample     |-> Cardinality(Measurements(key)),
     span       |-> Span({outcome.artifact : outcome \in Measurements(key)})]

(* What the two groups refuse to be.                                       *)
IsCoverageGroup(group) ==
    /\ 1 <= group.registered
    /\ group.completed <= group.evaluable /\ group.evaluable <= group.registered
    /\ group.span.first <= group.span.last

IsMetricGroup(group) ==
    /\ 1 <= group.sample
    /\ group.sample <= group.evaluable /\ group.evaluable <= group.registered
    /\ group.span.first <= group.span.last

(* The summary returns; otherwise it raises, from the second read or from  *)
(* one of the groups (a metric group without its coverage group included). *)
IsSummarized(read) ==
    /\ OutcomesLoad(read)
    /\ \A key \in CoverageKeys(read) : IsCoverageGroup(CoverageGroup(read, key))
    /\ \A key \in MetricKeys :
          key.coverage \in CoverageKeys(read) /\ IsMetricGroup(MetricGroup(read, key))

(* The totals, all derived from the groups.                                *)
ArtifactsRegistered(read, horizon) ==
    MapThenSumSet(LAMBDA key : CoverageGroup(read, key).registered,
                  {key \in CoverageKeys(read) : key.spec = horizon})

OutcomesCompleted(read) ==
    MapThenSumSet(LAMBDA key : MetricGroup(read, key).sample, MetricKeys)

MetricGroupsFor(key) == {m \in MetricKeys : m.coverage = key}

-----------------------------------------------------------------------------
(* Properties.                                                             *)

(* A claim was registered, and measured, since the first read.             *)
IsOvertaken(read) ==
    \E outcome \in RowSet(outcomes) : outcome.artifact \in RowSet(artifacts) \ read

(* Two reads without a lock, two writers in between: a summary is refused  *)
(* exactly when the outcomes cannot be read or a claim was registered and  *)
(* measured between the reads (never because a claim's content changed     *)
(* under it, nor by one of its own groups), and one that returns           *)
(* reconciles with the ledger: under each specification the groups count   *)
(* every claim of the first read once, a claim counts as completed if and  *)
(* only if its outcome line is there, and every such line is one sample.   *)
SummaryReconciles ==
    \A read \in FirstReads :
        /\ IsSummarized(read) <=> Readable(outcomes) /\ ~IsOvertaken(read)
        /\ IsSummarized(read) =>
              /\ \A h \in Requested : ArtifactsRegistered(read, h) = Cardinality(read)
              /\ OutcomesCompleted(read) = Cardinality(InScope)
              /\ \A key \in CoverageKeys(read) :
                    /\ Completed(key) =
                          {a.key : a \in {b \in Registered(read, key) :
                                             <<b.key, key.spec>> \in Keys(outcomes)}}
                    /\ MetricGroupsFor(key) # {} <=> Completed(key) # {}
=============================================================================
