CONSTANTS
    p1 = p1
    i1 = i1
    v1 = v1
    old1 = old1
    n1 = n1
    n2 = n2
    g1 = g1
    Push = {p1}
    Invite = {i1}
    View = {v1}
    Old = {old1}
    Channel <- Channels
    Version = {n1, n2}
    Extension <- Extensions
    Group = {g1}
    Console = Console
    MaxFaulted = 1
    NoTrack = NoTrack
    NoForm = NoForm
    NoVersion = NoVersion
SPECIFICATION Spec
INVARIANTS TypeOK OkMeansLanded FailedMeansNotLanded EditsClosed FailsOnlyByFault
PROPERTIES TestersKept
