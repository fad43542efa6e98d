SPECIFICATION Spec
CONSTANTS
    PrimarySymbols = {"SPY"}
    SecondarySymbols = {"TLT"}
    Primary = "trend"
    Hypotheses = {"trend", "momentum"}
    PrimaryState = "bullish"
    PrimaryHorizon = 1
    Horizons = {1}
    MinimumMonths = 2
    ForcedMonths = 5
    MinimumMatured = 2
    MinimumEpisodes = 1
    Reference <- MCReference
    Analyses <- MCAnalyses
    YearOf <- MCYearOf
    r1 = r1
    r2 = r2
    Runners = {r1, r2}
    ActivatedAt = 0
    StatesOf <- MCStatesOf
    ValuesAt <- MCValuesAt
    Universe <- MCUniverse
    Producers <- MCProducers
    Budgets <- MCBudgets
INVARIANTS
    TypeOK
    MissedSessionsSplitEpisodes
    StopRuleIsBlind
PROPERTIES
    ImplementsOpening
CHECK_DEADLOCK FALSE
