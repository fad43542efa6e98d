SPECIFICATION Spec
CONSTANTS
    Sessions = {s1}
    Endpoints <- MCOneEndpoint
    Configurations <- MCWidened
    Documents <- MCTwoDocuments
    Malformed <- MCNone
    Entries <- MCTwoEntries
    MaxEntries = 2
    Skew = 0
    MaxTime = 1
    MaxPublications = 1
    MaxEdits = 0
    MaxFaults = 1
    MaxRefreshes = 3
INVARIANTS
    FailedWriteFetchesUnconditionally
CHECK_DEADLOCK FALSE
