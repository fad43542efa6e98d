SPECIFICATION MCSpec
CONSTANTS
    Symbols = {"s1", "s2"}
    Amounts = {1, 2, 3}
    MaxNotionalPerPosition = 2
    MaxTotalNotional = 3
    MaxOpenPositions = 2
    AllowDuplicateSymbol = FALSE
    MaxTime = 3
    MaxClockSteps = 1
    MaxMinted = 8
    Intervals = {"1d"}
    ScanInterval = "1d"
    NoAmount = NoAmount
    NotYet = NotYet
    NoBars = NoBars
    NoAssessment = NoAssessment
    NoUniverse = NoUniverse
    Absent = Absent
    Unreadable = Unreadable
    None = None
    SymbolOrder <- MCSymbolOrder
    Panels <- MCPanels
INVARIANTS
    ShownBelongsToSnapshot
    ScanIsWhole
    LimitsHold
    EachIntentActsOnce
PROPERTIES
    HistoryIsKept
CHECK_DEADLOCK FALSE
