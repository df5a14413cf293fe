CONSTANTS
    u1 = u1
    u2 = u2
    u3 = u3
    d1 = d1
    d2 = d2
    Upload = {u1, u2}
    Deletion = {d1}
    Form <- MixedForms
    Name = {"a", "b"}
    MaxCode = 2
    Settings <- Either
    MaxFaults = 1
    OnS3 = FALSE
    Chunks = 2
    NoFile = NoFile
    NoRow = NoRow
    NoName = NoName
SPECIFICATION FairSpec
INVARIANTS TypeOK ArtifactIntact NoOrphanArtifact PlayOutcomeRecorded
PROPERTIES EveryRequestEnds
CHECK_DEADLOCK FALSE
