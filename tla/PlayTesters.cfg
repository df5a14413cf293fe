CONSTANTS
    p1 = p1
    i1 = i1
    v1 = v1
    old1 = old1
    n1 = n1
    n2 = n2
    g1 = g1
    Push = {p1}
    Invite = {}
    View = {}
    Old = {}
    Channel <- Spellings
    Version = {n1, n2}
    Extension <- Extensions
    Group = {g1}
    Console = Console
    MaxFaulted = 1
    NoTrack = NoTrack
    NoForm = NoForm
    NoVersion = NoVersion
SPECIFICATION Spec
INVARIANTS GroupsOnlyOnClosedTracks
