CONSTANTS
    u1 = u1
    u2 = u2
    u3 = u3
    d1 = d1
    d2 = d2
    Upload = {u1, u2}
    Deletion = {}
    Form <- AutoForms
    Name = {"a", "b"}
    MaxCode = 2
    Settings <- HubWide
    MaxFaults = 0
    OnS3 = FALSE
    Chunks = 2
    NoFile = NoFile
    NoRow = NoRow
    NoName = NoName
SPECIFICATION Spec
INVARIANTS ArtifactAlwaysIntact
CHECK_DEADLOCK FALSE
