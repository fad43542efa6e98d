-------------------------------- MODULE Scanner --------------------------------
(* The market scan (src/scanner, src/application/scanner.py): one symbol     *)
(* after another, each researched on its own, a failure recorded as a row of *)
(* its own.  And the configuration file that names the universes to scan.    *)
(* Pure definitions; the scan itself runs in DashboardSession.               *)
EXTENDS ResearchSnapshot, Ranking

CONSTANTS
    NoUniverse,         \* what is chosen when there is nothing to choose
    Absent, Unreadable  \* a configuration file that is not there, or is damaged

CategoryOrder == << "unanimous_directional", "directional_with_neutral",
                    "conflicted", "neutral", "not_assessable" >>
ErrorCodes == {"provider_unavailable", "data_quality", "symbol_mismatch",
               "request_invalid", "unexpected"}
NoError == "no error"
Undetermined == "undetermined"

(* The shape of the evidence behind an assessment; direction plays no part.  *)
CategoryFor(assessment) ==
    CASE assessment = NoAssessment -> "not_assessable"
      [] OTHER ->
            CASE assessment.state = "insufficient_data" -> "not_assessable"
              [] assessment.state \in {"conflicted", "neutral"} -> assessment.state
              [] OTHER -> IF assessment.reasons
                                \cap {"unanimous_bullish", "unanimous_bearish"} # {}
                          THEN "unanimous_directional"
                          ELSE "directional_with_neutral"

EligibilityFor(snapshot) ==
    IF snapshot.assessment = NoAssessment THEN "no_data"
    ELSE IF snapshot.assessment.state = "insufficient_data"
         THEN "insufficient_evidence"
         ELSE "eligible"

ErrorFor(kind) ==
    CASE kind = "provider" -> "provider_unavailable"
      [] kind = "data_quality" -> "data_quality"
      [] kind = "domain" -> "symbol_mismatch"
      [] kind = "request" -> "request_invalid"
      [] OTHER -> "unexpected"

(* One row of a scan.  A failed symbol has no eligibility: whether it could  *)
(* be researched was never answered.  A symbol without a finding keeps its   *)
(* state and its counts and loses its reasons.                               *)
ResultFor(snapshot) ==
    LET eligibility == EligibilityFor(snapshot)
        assessed    == snapshot.assessment # NoAssessment
    IN  [symbol |-> snapshot.symbol, eligibility |-> eligibility, error |-> NoError,
         category |-> IF eligibility = "eligible" THEN CategoryFor(snapshot.assessment)
                      ELSE "not_assessable",
         classifying |-> IF assessed THEN Sufficient(snapshot.assessment.counts) ELSE 0,
         latest |-> snapshot.latest, cutoff |-> snapshot.builtAt]

(* Seeded fault: a failed symbol is counted as one without data.             *)
ErrorResultNoData(symbol, code, moment) ==
    [symbol |-> symbol, eligibility |-> "no_data", error |-> code,
     category |-> "not_assessable", classifying |-> 0,
     latest |-> NoBars, cutoff |-> moment]

ErrorResult(symbol, code, moment) ==
    [symbol |-> symbol, eligibility |-> Undetermined, error |-> code,
     category |-> "not_assessable", classifying |-> 0,
     latest |-> NoBars, cutoff |-> moment]

(* The outcome of one symbol, isolated from every other.                     *)
ScanOne(symbol, interval, answer, moment) ==
    IF BuildFails(symbol, answer)
    THEN ErrorResult(symbol, ErrorFor(BuildFailure(symbol, answer)), moment)
    ELSE ResultFor(BuiltSnapshot(symbol, interval, answer, moment))

IsEligible(row) == row.eligibility = "eligible"
Count(rows, field, values) == Cardinality({i \in DOMAIN rows : rows[i][field] \in values})

Counters(rows, total) ==
    [total        |-> total,
     completed    |-> Len(rows),
     eligible     |-> Count(rows, "eligibility", {"eligible"}),
     no_data      |-> Count(rows, "eligibility", {"no_data"}),
     insufficient |-> Count(rows, "eligibility", {"insufficient_evidence"}),
     failed       |-> Count(rows, "error", ErrorCodes),
     provider     |-> Count(rows, "error", {"provider_unavailable"})]

(* A scan is judged by operational errors alone.                             *)
StatusFor(rows) ==
    LET failed == Count(rows, "error", ErrorCodes)
    IN  IF failed = 0 THEN "all_ok"
        ELSE IF failed = Len(rows) THEN "all_failed"
        ELSE "partial"

(* The record of a completed scan; one that would end before it began is     *)
(* refused.                                                                  *)
RefusesScan(startedAt, completedAt) == completedAt < startedAt
ScanSnapshot(universe, rows, startedAt, completedAt) ==
    [universe |-> universe, startedAt |-> startedAt, completedAt |-> completedAt,
     results |-> rows, counters |-> Counters(rows, Len(universe.symbols)),
     status |-> StatusFor(rows)]
-----------------------------------------------------------------------------
(* The order assessable rows are presented in: category, then how many       *)
(* hypotheses classified, then the latest bar, then the symbol; rows that    *)
(* tie stay in the order of the scan.                                        *)
CategoryRank(category) ==
    CHOOSE i \in DOMAIN CategoryOrder : CategoryOrder[i] = category
SymbolRank(universe, symbol) ==
    CHOOSE i \in DOMAIN universe.symbols : universe.symbols[i] = symbol
RankKey(universe, row) ==
    << CategoryRank(row.category), 0 - row.classifying,
       IF row.latest = NoBars THEN 0 ELSE 0 - row.latest,
       SymbolRank(universe, row.symbol) >>
Precedes(left, right) ==
    \E i \in DOMAIN left :
        /\ left[i] < right[i]
        /\ \A j \in 1 .. i - 1 : left[j] = right[j]
IsBefore(universe, rows, i, j) ==
    \/ Precedes(RankKey(universe, rows[i]), RankKey(universe, rows[j]))
    \/ RankKey(universe, rows[i]) = RankKey(universe, rows[j]) /\ i < j
OrderedRows(scan) ==
    LET rows     == scan.results
        eligible == {i \in DOMAIN rows : IsEligible(rows[i])}
        before   == {p \in eligible \X eligible :
                        IsBefore(scan.universe, rows, p[1], p[2])}
    IN  [k \in 1 .. Cardinality(eligible) |-> rows[Ranked(eligible, before)[k]]]
-----------------------------------------------------------------------------
(* The configuration file.  A raw symbol is a name as somebody wrote it:     *)
(* plainly, in another case, or so that it cannot be normalized.             *)
Spellings == {"plain", "other case", "unusable"}
IsUsable(raw) == raw.spelling # "unusable"
NormalizedSymbols(symbolOrder, raws) ==
    LET wanted == {i \in DOMAIN symbolOrder :
                      \E j \in DOMAIN raws : raws[j].name = symbolOrder[i]}
    IN  [k \in 1 .. Cardinality(wanted) |-> symbolOrder[Ascending(wanted)[k]]]

(* One entry of the file becomes a universe with its symbols normalized,     *)
(* without duplicates and sorted, or voids the whole file.                   *)
EntryFails(entry) ==
    \/ entry.symbols = <<>>
    \/ \E i \in DOMAIN entry.symbols : ~IsUsable(entry.symbols[i])
BuildUniverse(symbolOrder, entry) ==
    [id |-> entry.id, enabled |-> entry.enabled,
     symbols |-> NormalizedSymbols(symbolOrder, entry.symbols)]

(* A file lists its universes.                                               *)
IsFile(file) == file \in {Absent, Unreadable} \/ DOMAIN file = 1 .. Len(file)

(* An absent file is an empty configuration; one that cannot be read in      *)
(* full is refused as a whole.                                               *)
ConfigurationFails(file) ==
    CASE file = Unreadable -> TRUE
      [] file = Absent -> FALSE
      [] OTHER -> \/ \E i \in DOMAIN file : EntryFails(file[i])
                  \/ ~IsInjective([i \in DOMAIN file |-> file[i].id])
Configuration(symbolOrder, file) ==
    IF file = Absent THEN <<>>
    ELSE [i \in DOMAIN file |-> BuildUniverse(symbolOrder, file[i])]

(* Where the enabled universes are.                                          *)
Enabled(configuration) == {i \in DOMAIN configuration : configuration[i].enabled}

(* The universe a stored choice stands for: the first enabled one when the   *)
(* choice vanished or was switched off in a reload.                          *)
ChosenUniverse(configuration, chosenId) ==
    LET enabled == Enabled(configuration)
        named   == {i \in enabled : configuration[i].id = chosenId}
    IN  IF enabled = {} THEN NoUniverse
        ELSE IF named # {} THEN configuration[CHOOSE i \in named : TRUE]
        ELSE configuration[CHOOSE i \in enabled : \A j \in enabled : i <= j]
=============================================================================
