CONSTANTS
    r1 = r1
    a1 = a1
    a2 = a2
    u1 = u1
    w1 = w1
    f1 = f1
    s1 = s1
    k1 = k1
    Register = {r1}
    Add = {a1, a2}
    Upload = {u1}
    Wipe = {w1}
    Fetch = {f1}
    Save = {s1}
    Fields = 2
    Secret = {k1}
    Target <- AllAndroid
    Envs <- TwoEnvs
    MaxFaults = 1
    MaxRestarts = 1
    NameBytes <- NameLengths
    NoSecret = NoSecret
    NoKey = NoKey
    NoRow = NoRow
    Unset = Unset
SPECIFICATION FairSpec
INVARIANTS TypeOK KeyFitsPasswords OpensUnderItsSecret OneGenerator NameFromOneSave GeneratedOpens
PROPERTIES KeyReplaced AndroidGetsKey
CHECK_DEADLOCK FALSE
