SPECIFICATION ServiceFairSpec
CONSTANTS
    Callers = {c1, c2}
    Keys <- MCKeys
    Ttls = {1, 2}
    MayCancel = FALSE
    MaxClock = 1
    MaxVersion = 1
    MaxGen = 1
    Listed <- MCListed
    Resettable <- MCResettable
    SuccessTtl = 2
    ErrorTtl = 1
    Credits = 1
    MaxListings = 1
INVARIANTS ResetIsVisible ResetSpendsOnce
PROPERTIES FailedResetKeepsCache EveryRequestEnds
