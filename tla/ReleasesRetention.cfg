CONSTANTS
    u1 = u1
    u2 = u2
    u3 = u3
    d1 = d1
    d2 = d2
    Upload = {u1, u2, u3}
    Deletion = {d1}
    Form <- AutoForms
    Name = {"a", "b"}
    MaxCode = 3
    Settings <- HubWide
    MaxFaults = 0
    OnS3 = TRUE
    Chunks = 1
    NoFile = NoFile
    NoRow = NoRow
    NoName = NoName
SPECIFICATION Spec
INVARIANTS NoOrphanArtifact RetentionBound
PROPERTIES HeadNeverLowered PlayReleasesKept ImplementsCatalog
SYMMETRY Symmetry
CHECK_DEADLOCK FALSE
