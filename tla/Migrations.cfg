CONSTANTS
    a1 = a1
    a2 = a2
    b1 = b1
    k1 = k1
    None = None
    Contents <- OldDatabases
    MaxCrashes = 2
SPECIFICATION FairSpec
INVARIANTS TypeOK NothingLost ServesWhatWasThere RefusedAfterCrash
PROPERTY ComesUp
