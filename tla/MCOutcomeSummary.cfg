SPECIFICATION Spec
CONSTANTS
    Writers = {w1, w2}
    Producers <- MCProducers
    Horizons <- MCHorizons
    Sources = {"yahoo", "other"}
    Contents = {"a"}
    States = {"a", "insufficient"}
    Insufficient = "insufficient"
    Classify <- MCClassify
    WindowDays = 2
    MaxDay = 2
    MaxVendorEdits = 1
    MaxClockSteps = 0
    MaxFaults = 0
    Requested = {1}
SYMMETRY WriterSymmetry
INVARIANTS
    OutcomesRegistered
    SummaryReconciles
CHECK_DEADLOCK FALSE
