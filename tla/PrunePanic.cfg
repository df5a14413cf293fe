CONSTANTS
    u1 = u1
    u2 = u2
    u3 = u3
    d1 = d1
    d2 = d2
    Upload = {u1, u2}
    Deletion = {d1}
    Form <- AutoForms
    Name = {"a", "b"}
    MaxCode = 2
    Settings <- KeepTwo
    MaxFaults = 0
    OnS3 = FALSE
    Chunks = 1
    NoFile = NoFile
    NoRow = NoRow
    NoName = NoName
SPECIFICATION Spec
INVARIANTS PruningReturns
CHECK_DEADLOCK FALSE
