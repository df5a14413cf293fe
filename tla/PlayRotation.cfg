CONSTANTS
    w1 = w1
    w2 = w2
    w3 = w3
    p1 = p1
    p2 = p2
    e1 = e1
    e2 = e2
    s1 = s1
    Worker = {w1}
    Platform = {p1}
    Email = {e1, e2}
    MaxId = 2
    Secret = {s1}
    ForeignKeys = {TRUE}
    NoEmail = NoEmail
    NoPlatform = NoPlatform
SPECIFICATION Spec
INVARIANTS NeverOnWithoutAccount
