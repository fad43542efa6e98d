SPECIFICATION FairSpec
CONSTANTS
    Writers = {w1}
    Producers <- MCProducers
    Horizons <- MCOneHorizon
    Sources = {"yahoo"}
    Contents = {a}
    States = {a, "classified", "insufficient"}
    Insufficient = "insufficient"
    Classify <- MCClassify
    WindowDays = 2
    MaxDay = 2
    MaxVendorEdits = 1
    MaxClockSteps = 1
    MaxFaults = 1
PROPERTIES
    PartialRefreshResumes
CHECK_DEADLOCK FALSE
