SPECIFICATION Spec
CONSTANTS
    Universe <- MCOneSymbol
    ClaimsPerTail = 2
    DayLength = 5
    WindowTicks <- MCFourTicks
    Weekend = {}
    MaxSpan = 5
    Tolerance = 1
    Collectors = {c1}
    MaxTime = 9
    Environments <- MCDeaths
    MaxRuns = 2
INVARIANTS
    DeathsOnlyDegrade
CHECK_DEADLOCK FALSE
