--------------------------- MODULE ValidationEngine ---------------------------
(***************************************************************************)
(* The arithmetic of the future validation                                 *)
(* (src/research/future_validation_engine.py over the definition of        *)
(* src/research/future_validation.py): what may be opened and when, and    *)
(* what an opened snapshot answers.  Nothing here has a state.             *)
(*                                                                         *)
(* Time is counted in days; the bar of day b settles at b + 1.  A return   *)
(* is an integer: only its order and the signs of differences of means and *)
(* medians are ever used, so a mean is kept as a sum and a count, and a    *)
(* median as its double.  A claim's key is <<symbol, hypothesis, bar>>, an *)
(* outcome's <<claim key, horizon>>.                                       *)
(***************************************************************************)
EXTENDS Integers, Sequences, FiniteSets, SequencesExt, Ranking

CONSTANTS
    PrimarySymbols,      \* each has a category of its own
    SecondarySymbols,    \* described only
    Primary,             \* the hypothesis that is validated
    Hypotheses,          \* it and the secondary ones
    PrimaryState,        \* the state whose returns are compared
    PrimaryHorizon,      \* bars ahead
    Horizons,            \* every horizon that is measured
    MinimumMonths,       \* E1, in units of time since activation
    ForcedMonths,        \* F
    MinimumMatured,      \* E2, per primary symbol
    MinimumEpisodes,     \* adequacy
    Reference,           \* per primary symbol, the signs of the frozen deltas
    Analyses,            \* the secondary analyses
    YearOf(_)            \* the calendar year of a bar

IsDefinition ==
    /\ IsFiniteSet(PrimarySymbols) /\ IsFiniteSet(SecondarySymbols)
    /\ IsFiniteSet(Hypotheses) /\ IsFiniteSet(Horizons)
    /\ PrimarySymbols # {}
    /\ PrimarySymbols \cap SecondarySymbols = {}
    /\ Primary \in Hypotheses
    /\ PrimaryHorizon \in Horizons
    /\ Horizons \subseteq Nat \ {0}
    /\ {MinimumMonths, ForcedMonths, MinimumMatured, MinimumEpisodes} \subseteq Nat
    /\ ForcedMonths >= MinimumMonths
    /\ \A a \in Analyses : /\ a.symbols \subseteq PrimarySymbols \cup SecondarySymbols
                          /\ a.hypotheses \subseteq Hypotheses
                          /\ a.horizons \subseteq Horizons
                          /\ a.view \in {"cell", "episode_start", "by_year", "coverage"}
    /\ Reference \in [PrimarySymbols -> [mean : {-1, 1}, median : {-1, 1}]]

ASSUME DefinitionAssumption == IsDefinition

Symbols == PrimarySymbols \cup SecondarySymbols

Null == -1

Largest(S) == IF S = {} THEN Null ELSE CHOOSE x \in S : \A y \in S : y <= x

-----------------------------------------------------------------------------
(* Level 1: keys and bars, never a state and never a value.                *)

Settles(bar) == bar + 1

IsReserved(bar, activated_at) == Settles(bar) <= activated_at

(* Claims that count: not excluded, and settled after activation.          *)
Legitimate(e) ==
    {c \in e.claims : c.key \notin e.excluded /\ ~IsReserved(c.bar, e.activated_at)}

PopulationClaims(e, symbol, hypothesis) ==
    {c \in Legitimate(e) : c.symbol = symbol /\ c.hypothesis = hypothesis}

(* The evidence clock: any symbol, any producer.                           *)
EvidenceThrough(e) == Largest({Settles(c.bar) : c \in Legitimate(e)})

MaturedKeys(e, horizon) ==
    {o.claim : o \in {p \in e.outcomes : p.horizon = horizon /\ p.key \notin e.excluded}}

(* Population claims of the primary hypothesis with a primary outcome.     *)
Matured(e, symbol) ==
    {c \in PopulationClaims(e, symbol, Primary) : c.key \in MaturedKeys(e, PrimaryHorizon)}

Cutoff(e, symbol) == Largest({c.bar : c \in Matured(e, symbol)})

Elapsed(e, months) ==
    EvidenceThrough(e) # Null /\ EvidenceThrough(e) >= e.activated_at + months

(* Seeded fault: only claims in the primary state count.                   *)
StopRulePeeking(e) ==
    [through |-> EvidenceThrough(e),
     e1 |-> Elapsed(e, MinimumMonths),
     e2 |-> \A s \in PrimarySymbols :
               Cardinality({c \in Matured(e, s) : c.state = PrimaryState}) >= MinimumMatured,
     f  |-> Elapsed(e, ForcedMonths)]

StopRule(e) ==
    [through |-> EvidenceThrough(e),
     e1 |-> Elapsed(e, MinimumMonths),
     e2 |-> \A s \in PrimarySymbols : Cardinality(Matured(e, s)) >= MinimumMatured,
     f  |-> Elapsed(e, ForcedMonths)]

IsDue(stop) == (stop.e1 /\ stop.e2) \/ stop.f

-----------------------------------------------------------------------------
(* The session sequence of a symbol: one position per bar that any         *)
(* producer claimed or a run recorded as missed, up to the cutoff.         *)

Registered(e, symbol) == {c.bar : c \in {d \in e.claims : d.symbol = symbol}}

Missed(e, symbol) ==
    {b \in e.missed[symbol] \ Registered(e, symbol) :
        ~IsReserved(b, e.activated_at) /\ b <= Cutoff(e, symbol)}

(* Seeded fault: a claim that is excluded leaves no position.              *)
PositionsOfLegitimate(e, symbol) ==
    LET cutoff == Cutoff(e, symbol)
        bars == {c.bar : c \in {d \in Legitimate(e) : d.symbol = symbol}}
    IN  Ascending({b \in bars \cup e.missed[symbol] :
                      ~IsReserved(b, e.activated_at) /\ b <= cutoff})

Positions(e, symbol) ==
    LET cutoff == Cutoff(e, symbol) IN
    Ascending({b \in Registered(e, symbol) \cup e.missed[symbol] :
                  ~IsReserved(b, e.activated_at) /\ b <= cutoff})

(* At each position the claim's state and its value, if it has them.       *)
NoPosition == [state |-> "none", matured |-> FALSE, value |-> 0]

PositionOf(e, symbol, hypothesis, horizon, bar) ==
    LET found == {c \in PopulationClaims(e, symbol, hypothesis) : c.bar = bar} IN
    IF found = {} THEN NoPosition
    ELSE LET c == CHOOSE d \in found : TRUE
             measured == {o \in e.outcomes : /\ o.claim = c.key
                                             /\ o.horizon = horizon
                                             /\ o.key \notin e.excluded}
         IN  [state   |-> c.state,
              matured |-> measured # {},
              value   |-> IF measured = {} THEN 0
                          ELSE (CHOOSE o \in measured : TRUE).value]

SequenceOver(e, symbol, hypothesis, horizon, bars) ==
    [i \in DOMAIN bars |-> PositionOf(e, symbol, hypothesis, horizon, bars[i])]

SessionSequence(e, symbol, hypothesis, horizon) ==
    SequenceOver(e, symbol, hypothesis, horizon, Positions(e, symbol))

(* The reference bar follows the claimed bar, the future bar is no earlier.*)
HasIntegrity(e, symbol, hypothesis, horizon) ==
    \A c \in PopulationClaims(e, symbol, hypothesis) :
        c.bar <= Cutoff(e, symbol) =>
            \A o \in e.outcomes :
                (o.claim = c.key /\ o.horizon = horizon /\ o.key \notin e.excluded)
                    => c.bar < o.reference /\ o.reference <= o.future

-----------------------------------------------------------------------------
(* Statistics of a sequence of values.                                     *)

Total(values) ==
    LET sum[n \in 0 .. Len(values)] == IF n = 0 THEN 0 ELSE sum[n - 1] + values[n]
    IN  sum[Len(values)]

(* Twice the median: the two middle values, or the middle one twice.       *)
DoubleMedian(values) ==
    LET n == Len(values)
        sorted == SortSeq(values, <)
    IN  sorted[(n + 1) \div 2] + sorted[n \div 2 + 1]

Stats(values) ==
    IF values = <<>>
    THEN [count |-> 0, total |-> 0, median |-> 0]
    ELSE [count |-> Len(values), total |-> Total(values), median |-> DoubleMedian(values)]

IsMember(position, state) == position.matured /\ position.state = state

Members(sequence, state) == {i \in DOMAIN sequence : IsMember(sequence[i], state)}

Matched(sequence) == {i \in DOMAIN sequence : sequence[i].matured}

(* Maximal runs of members, adjacency being that of positions.             *)
EpisodeStarts(members) == {i \in members : i - 1 \notin members}

ValuesOf(sequence, members) ==
    [n \in 1 .. Cardinality(members) |-> sequence[Ascending(members)[n]].value]

(* The state's group beside the matched group, state ignored.              *)
DescribeCell(sequence, state) ==
    [stats    |-> Stats(ValuesOf(sequence, Members(sequence, state))),
     matched  |-> Stats(ValuesOf(sequence, Matched(sequence))),
     episodes |-> Cardinality(EpisodeStarts(Members(sequence, state))),
     matched_episodes |-> Cardinality(EpisodeStarts(Matched(sequence)))]

EpisodeStartValues(sequence, state) ==
    ValuesOf(sequence, EpisodeStarts(Members(sequence, state)))

-----------------------------------------------------------------------------
(* Categories.                                                             *)

Sign(x) == IF x > 0 THEN 1 ELSE IF x < 0 THEN -1 ELSE 0

(* Undefined when the state has no value; its group is part of the matched.*)
MeanSign(cell) ==
    IF cell.stats.count = 0 THEN 0
    ELSE Sign(cell.stats.total * cell.matched.count - cell.matched.total * cell.stats.count)

MedianSign(cell) ==
    IF cell.stats.count = 0 THEN 0 ELSE Sign(cell.stats.median - cell.matched.median)

SignRelation(sign, reference) ==
    IF sign = 0 THEN "zero_or_undefined"
    ELSE IF sign = reference THEN "same_sign" ELSE "opposite_sign"

Classify(valid, adequate, mean, median) ==
    IF ~valid THEN "invalid"
    ELSE IF ~adequate THEN "inconclusive"
    ELSE IF mean = "same_sign" /\ median = "same_sign" THEN "consistent"
    ELSE IF mean = "opposite_sign" /\ median = "opposite_sign" THEN "reversed"
    ELSE "mixed"

Categories == {"invalid", "inconclusive", "consistent", "reversed", "mixed"}

PrimaryCell(e, symbol) ==
    DescribeCell(SessionSequence(e, symbol, Primary, PrimaryHorizon), PrimaryState)

Category(e, symbol) ==
    LET cell == PrimaryCell(e, symbol) IN
    Classify(HasIntegrity(e, symbol, Primary, PrimaryHorizon),
             cell.episodes >= MinimumEpisodes,
             SignRelation(MeanSign(cell), Reference[symbol].mean),
             SignRelation(MedianSign(cell), Reference[symbol].median))

-----------------------------------------------------------------------------
(* Secondary analyses: described, never read by Category.                  *)

Years(bars) == {YearOf(bars[i]) : i \in DOMAIN bars}

ByYear(e, symbol, hypothesis, horizon, state) ==
    LET bars == Positions(e, symbol) IN
    [year \in Years(bars) |->
        DescribeCell(SequenceOver(e, symbol, hypothesis, horizon,
                                  SelectSeq(bars, LAMBDA b : YearOf(b) = year)),
                     state)]

(* Coverage at or before the cutoff: nothing later can change a number.    *)
Coverage(e, symbol) ==
    LET mine == {c \in e.claims : c.symbol = symbol /\ c.hypothesis = Primary}
        upto == {c \in PopulationClaims(e, symbol, Primary) : c.bar <= Cutoff(e, symbol)}
        insufficient == {c \in upto : c.state = "insufficient"}
        matured == {c \in upto : c.key \in MaturedKeys(e, PrimaryHorizon)}
    IN  [reserved     |-> Cardinality({c \in mine : IsReserved(c.bar, e.activated_at)}),
         excluded     |-> Cardinality({c \in mine : /\ c.key \in e.excluded
                                                    /\ ~IsReserved(c.bar, e.activated_at)
                                                    /\ c.bar <= Cutoff(e, symbol)}),
         population   |-> Cardinality(upto),
         insufficient |-> Cardinality(insufficient),
         matured      |-> Cardinality(matured),
         unmatured    |-> Cardinality(upto) - Cardinality(matured) - Cardinality(insufficient),
         missed       |-> Cardinality(Missed(e, symbol))]

SecondaryRow(e, view, symbol, hypothesis, horizon, state) ==
    LET sequence == SessionSequence(e, symbol, hypothesis, horizon) IN
    CASE view = "episode_start" -> Stats(EpisodeStartValues(sequence, state))
      [] view = "by_year"       -> ByYear(e, symbol, hypothesis, horizon, state)
      [] OTHER                  -> DescribeCell(sequence, state)

Secondary(e) ==
    [a \in Analyses |->
        [symbol \in a.symbols |->
            IF a.view = "coverage" THEN Coverage(e, symbol)
            ELSE [row \in a.hypotheses \X a.horizons \X a.states |->
                     SecondaryRow(e, a.view, symbol, row[1], row[2], row[3])]]]

-----------------------------------------------------------------------------
(* The result: a function of the frozen evidence and the unlock.           *)
BuildResult(e, unlock) ==
    [categories |-> [s \in PrimarySymbols |-> Category(e, s)],
     primary    |-> [s \in PrimarySymbols |-> PrimaryCell(e, s)],
     secondary  |-> Secondary(e),
     unlock     |-> unlock]
=============================================================================
