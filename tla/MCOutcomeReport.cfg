SPECIFICATION ReportSpec
CONSTANTS
    Writers = {w1}
    Producers <- MCProducers
    Horizons <- MCHorizons
    Sources = {"yahoo", "other"}
    Contents = {a, b}
    States = {a, b, "classified", "insufficient"}
    Insufficient = "insufficient"
    Classify <- MCClassify
    WindowDays = 3
    MaxDay = 3
    MaxVendorEdits = 1
    MaxClockSteps = 0
    MaxFaults = 1
SYMMETRY ContentSymmetry
INVARIANTS
    TypeOK
    OneLinePerKey
    ReportIsTrue
    OutcomesProspective
    BeliefsAreDurable
PROPERTIES
    DamageIsFinal
    ImplementsBook
CHECK_DEADLOCK FALSE
