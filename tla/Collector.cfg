SPECIFICATION FairSpec
CONSTANTS
    Procs = {p1, p2}
    Records <- MCRecords
    Timestamp <- MCTimestamp
    Malformed <- MCMalformed
    PopCount = 2
    MaxPublished = 3
INVARIANT SuccessMeansStored
PROPERTIES CountIsNewRows BatchIsAtomic PopIsSettled
