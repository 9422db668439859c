SPECIFICATION FairSpec
CONSTANTS
    Callers = {c1, c2, c3}
    Keys = {k1}
    Ttls = {1}
    MayCancel = TRUE
    MaxClock = 1
    MaxVersion = 1
    MaxGen = 1
INVARIANTS NoStaleRead SingleFlight NoOrphanedWaiter
PROPERTIES KeepsPromise
