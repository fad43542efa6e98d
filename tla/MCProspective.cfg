SPECIFICATION Spec
CONSTANTS
    Universe <- MCOneSymbol
    ClaimsPerTail = 2
    DayLength = 3
    WindowTicks <- MCFirstTwoTicks
    Weekend = {}
    MaxSpan = 5
    Tolerance = 1
    Collectors = {c1, c2}
    MaxTime = 7
    Environments <- MCEnvironments
    MaxRuns = 2
SYMMETRY MCSymmetry
INVARIANTS
    TypeOK
    HealthIsTrue
    OwnClaimsAreProspective
    MissedStaysMissed
    ForeignIsNeverPrimary
    InvalidIsFinal
    SpacedDeathsOnlyDegrade
    CompletedRunsSurviveClockSteps
PROPERTIES
    TornLogFreezes
CHECK_DEADLOCK FALSE
