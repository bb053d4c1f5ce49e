SPECIFICATION MCFairSpec
CONSTANTS
    h1 = h1
    h2 = h2
    a = a
    b = b
    c = c
    s1 = s1
    Runs = {r1, r2}
    Sources = {a, b, c}
    Hosts = {h1, h2}
    HostOf <- MCHostOf
    ShortIds = {s1}
    ShortId <- MCShortId
    MaxFailures = 1
    MaxIncrement = 1
    None = None
INVARIANTS
    TypeOK
    OneHostPerShortId
    InstallationWhole
    BucketKept
PROPERTIES
    RunEnds
\* Every run has ended: nothing is left to do.
CHECK_DEADLOCK FALSE
