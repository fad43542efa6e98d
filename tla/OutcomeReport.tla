---------------------------- MODULE OutcomeReport -----------------------------
(***************************************************************************)
(* What a refresh tells its caller (application/outcomes.py,               *)
(* OutcomeRefreshResult): one registration per current claim and one item  *)
(* per tracked claim and specification, over OutcomeRefresh.  The status   *)
(* of an item is worked out the way the code does it: the forward          *)
(* measurement counts bars by index (evaluation/evaluate.py), the tracking *)
(* result names what it found (outcomes/tracking.py), and the refresh      *)
(* turns the ledger's verdict into an item.                                *)
(***************************************************************************)
EXTENDS OutcomeRefresh, Ranking, SequencesExt

VARIABLE report     \* what each running refresh has put on its result

NoBar    == -1      \* a timestamp a measurement does not carry
NoReason == "none"  \* a refusal a result does not carry

-----------------------------------------------------------------------------
(* The forward measurement of a market point, by index.                    *)

Timestamps(bars) == Ascending(DOMAIN bars)

(* The exact bar of the point, never the nearest one.                      *)
Locate(bars, t) == CHOOSE i \in DOMAIN Timestamps(bars) : Timestamps(bars)[i] = t

(* The reference bar is bar one of the horizon.                            *)
FutureOffset(horizon) == horizon - 1

Measurement(status, reference, future) ==
    [status |-> status, reference |-> reference, future |-> future]

(* Seeded fault: the reference bar is not counted into the horizon.        *)
MeasureAtLate(bars, i, horizon) ==
    LET stamps    == Timestamps(bars)
        reference == i + 1
        future    == reference + horizon IN
    IF reference > Len(stamps) THEN Measurement("no_reference_bar", NoBar, NoBar)
    ELSE IF future > Len(stamps)
         THEN Measurement("insufficient_future_data", stamps[reference], NoBar)
         ELSE Measurement("evaluated", stamps[reference], stamps[future])

MeasureAt(bars, i, horizon) ==
    LET stamps    == Timestamps(bars)
        reference == i + 1
        future    == reference + FutureOffset(horizon) IN
    IF reference > Len(stamps) THEN Measurement("no_reference_bar", NoBar, NoBar)
    ELSE IF future > Len(stamps)
         THEN Measurement("insufficient_future_data", stamps[reference], NoBar)
         ELSE Measurement("evaluated", stamps[reference], stamps[future])

MeasureForward(bars, t, horizon) == MeasureAt(bars, Locate(bars, t), horizon)

(* A measurement describes no bar its own status says was never reached.   *)
IsStatusConsistent(m) ==
    CASE m.status = "evaluated"                -> m.reference # NoBar /\ m.future # NoBar
      [] m.status = "insufficient_future_data" -> m.reference # NoBar /\ m.future = NoBar
      [] m.status = "no_reference_bar"         -> m.reference = NoBar /\ m.future = NoBar

-----------------------------------------------------------------------------
(* The tracking result of a claim.                                         *)

RefusalReasons == {"source_mismatch", "source_bar_revised"}

Result(status, refusal, measurement) ==
    [status |-> status, refusal |-> refusal, measurement |-> measurement]

(* Revision outranks pending: the claim's premise is gone either way.      *)
EvaluateArtifact(artifact, s, horizon) ==
    LET m == MeasureForward(s.bars, artifact.timestamp, horizon) IN
    IF ~IsEvaluable(artifact) THEN Result("ineligible", NoReason, <<>>)
    ELSE IF artifact.source # s.source THEN Result("refused", "source_mismatch", <<>>)
    ELSE IF s.bars[artifact.timestamp] # artifact.fingerprint
         THEN Result("refused", "source_bar_revised", <<>>)
    ELSE IF m.status = "evaluated" THEN Result("evaluated", NoReason, <<m>>)
    ELSE Result("pending", NoReason, <<m>>)

(* What a result must and must not carry, by its status.                   *)
IsTrackingResult(r) ==
    /\ r.status \in {"evaluated", "pending", "ineligible", "refused"}
    /\ r.status = "refused" <=> r.refusal \in RefusalReasons
    /\ r.status \in {"evaluated", "pending"} <=> r.measurement # <<>>
    /\ r.measurement # <<>> =>
          /\ IsStatusConsistent(r.measurement[1])
          /\ r.status = "evaluated" <=> r.measurement[1].status = "evaluated"

-----------------------------------------------------------------------------
(* The refresh's result.                                                   *)

EmptyReport == [registrations |-> <<>>, items |-> <<>>]

Registration(claim, status) == [key |-> claim.key, status |-> status]

OutcomeItem(w, status) ==
    [key |-> <<Item(w).key, ItemHorizon(w)>>, status |-> status]

(* The conclusion about a pair for which nothing is appended.  One that    *)
(* another writer has measured in the meantime, alike, is present.         *)
ItemStatus(w) ==
    IF <<Item(w).key, ItemHorizon(w)>> \in present[w] \/ (Examined(w) /\ Due(w))
    THEN "present"
    ELSE IF ~Examined(w) THEN "out_of_window"
    ELSE EvaluateArtifact(Item(w), snap[w], ItemHorizon(w)).status

ArtifactsTracked(items) == Cardinality({items[i].key[1] : i \in DOMAIN items})

(* "Whether this result came from exactly this snapshot's refresh."        *)
Describes(w) == pc[w] \in {"measuring", "appending_outcome"}

Registers(w, status) ==
    report' = [report EXCEPT ![w].registrations = Append(@, Registration(Claim(w), status))]

Concludes(w, status) ==
    report' = [report EXCEPT ![w].items = Append(@, OutcomeItem(w, status))]

(* Every step of a refresh with what it puts on the result; a refresh that *)
(* raises or dies reports nothing.                                         *)
Reporting(w) ==
    \/ AppendArtifact(w) /\ Registers(w, "written")
    \/ OfferDuplicate(w) /\ Registers(w, "duplicate")
    \/ (Pass(w) \/ MeasureDuplicate(w)) /\ Concludes(w, ItemStatus(w))
    \/ AppendOutcome(w) /\ Concludes(w, "written")

Silent(w) ==
    /\ Begin(w) \/ Fetch(w) \/ Open(w) \/ OfferNew(w) \/ ReadPresent(w) \/ Measure(w)
    /\ UNCHANGED report

Over(w) ==
    /\ \/ OpenRaises(w) \/ OfferRaises(w) \/ ReadPresentRaises(w) \/ MeasureRaises(w)
       \/ Finish(w) \/ Fault(w)
    /\ report' = [report EXCEPT ![w] = EmptyReport]

ReportInit == Init /\ report = [w \in Writers |-> EmptyReport]

ReportNext ==
    \/ \E w \in Writers : Reporting(w) \/ Silent(w) \/ Over(w)
    \/ Vendor /\ UNCHANGED report

ReportSpec == ReportInit /\ [][ReportNext]_<<vars, report>>

-----------------------------------------------------------------------------
(* Properties.                                                             *)

PairsOf(w) ==
    {<<artifact.key, h>> : artifact \in RowSet([rows |-> held[w]]), h \in HorizonSet}

Claimed(item) ==
    \E outcome \in RowSet(outcomes) : outcome.key = item.key

(* What the operator is told is what the ledger holds.  Of a refresh that  *)
(* is measuring or done: no tracking result contradicts its own status;    *)
(* every current claim is registered, durable and tracked; each pair is    *)
(* concluded about once, in order; an outcome is reported as written or    *)
(* present only if its line is on the disk, and as written only if this    *)
(* refresh's clock is on it and its window is the one the index arithmetic *)
(* finds; and when the last item is done nothing the series could complete *)
(* is left without its line.                                               *)
ReportIsTrue ==
    \A w \in Writers : Describes(w) =>
        LET s     == snap[w]
            items == report[w].items
            keys  == [i \in DOMAIN items |-> items[i].key] IN
        /\ {r.key : r \in ToSet(report[w].registrations)} =
              {claim.key : claim \in RowSet([rows |-> CurrentArtifacts(s)])}
        /\ \A r \in ToSet(report[w].registrations) :
              r.key \in Keys(artifacts) /\ \E h \in HorizonSet : <<r.key, h>> \in PairsOf(w)
        /\ IsInjective(keys) /\ ToSet(keys) \subseteq PairsOf(w)
        /\ \A item \in ToSet(items) :
              /\ item.status \in {"written", "present"} => Claimed(item)
              /\ item.status = "written" =>
                    \E outcome \in RowSet(outcomes) :
                        LET m == MeasureForward(s.bars, outcome.artifact.timestamp,
                                                outcome.horizon) IN
                        /\ outcome.key = item.key
                        /\ outcome.evaluated_at = s.built_at
                        /\ outcome.reference = m.reference /\ outcome.future = m.future
        /\ ~HasItem(w) /\ pc[w] = "measuring" =>
              /\ ToSet(keys) = PairsOf(w)
              /\ ArtifactsTracked(items) = Len(held[w])
              /\ \A artifact \in RowSet([rows |-> held[w]]), h \in HorizonSet :
                    IsDue(artifact, h, s) => <<artifact.key, h>> \in Keys(outcomes)
        /\ HasItem(w) /\ Examined(w) /\ ~HardError(w) =>
              LET r == EvaluateArtifact(Item(w), s, ItemHorizon(w)) IN
              /\ IsTrackingResult(r)
              /\ r.status = "evaluated" <=> Due(w)
=============================================================================
