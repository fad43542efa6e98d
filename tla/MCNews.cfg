SPECIFICATION Spec
CONSTANTS
    None = None
    Unlisted = Unlisted
    A = A
    B = B
    c = c
    d = d
    i = i
    j = j
    p = p
    q = q
    x = x
    y = y
    Symbols <- MCSymbols
    Registrants <- MCRegistrants
    Ids <- MCIds
    Urls <- MCUrls
    Texts <- MCTexts
    Skew = 1
    MaxTime = 3
    Environments <- MCEnvironments
INVARIANTS
    NothingIsLostUncounted
    HistoriesAreWhole
    VerifiedMeansRegistrant
CHECK_DEADLOCK FALSE
