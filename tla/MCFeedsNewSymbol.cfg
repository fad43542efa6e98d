SPECIFICATION Spec
CONSTANTS
    Sessions = {s1}
    Endpoints <- MCOneEndpoint
    Configurations <- MCWidened
    Documents <- MCTwoDocuments
    Malformed <- MCNone
    Entries <- MCTwoEntries
    MaxEntries = 2
    Skew = 0
    MaxTime = 1
    MaxPublications = 1
    MaxEdits = 1
    MaxFaults = 0
    MaxRefreshes = 2
INVARIANTS
    NewSymbolIsAssociated
CHECK_DEADLOCK FALSE
