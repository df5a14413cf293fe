CONSTANTS
    s1 = s1
    s2 = s2
    l1 = l1
    o1 = o1
    f1 = f1
    c1 = c1
    Setup = {s1, s2}
    Login = {l1}
    Logout = {o1}
    Form = {f1}
    Call = {c1}
    TTL = 1
    MaxTime = 2
    MaxFaults = 1
    MaxCrashes = 1
    NoPassword = NoPassword
    Guess = Guess
    NoSession = NoSession
    NoToken = NoToken
SPECIFICATION Spec
INVARIANTS TypeOK NothingBeforeSetup SessionsEarned ShownTokensWork
PROPERTIES PasswordSettled EndedStaysOut
CHECK_DEADLOCK FALSE
