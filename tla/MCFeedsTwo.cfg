SPECIFICATION Spec
CONSTANTS
    Sessions = {s1, s2}
    Endpoints <- MCOneEndpoint
    Configurations <- MCWidened
    Documents <- MCTwoDocuments
    Malformed <- MCNone
    Entries <- MCTwoEntries
    MaxEntries = 2
    Skew = 0
    MaxTime = 1
    MaxPublications = 1
    MaxEdits = 0
    MaxFaults = 1
    MaxRefreshes = 2
SYMMETRY MCSymmetry
INVARIANTS
    CheckpointNeverAhead
    HealthyMeansStored
CHECK_DEADLOCK FALSE
