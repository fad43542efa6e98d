SPECIFICATION Spec
CONSTANTS
    Sessions = {s1}
    Endpoints <- MCEndpoints
    Configurations <- MCConfigurations
    Documents <- MCDocuments
    Malformed <- MCMalformed
    Entries <- MCEntries
    MaxEntries = 2
    Skew = 0
    MaxTime = 1
    MaxPublications = 1
    MaxEdits = 1
    MaxFaults = 1
    MaxRefreshes = 3
INVARIANTS
    TypeOK
    CheckpointNeverAhead
    HealthyMeansStored
    OneHistoryPerItem
PROPERTIES
    ReplayIsStable
    PastAnswersNeverGrow
    DamageFreezes
CHECK_DEADLOCK FALSE
