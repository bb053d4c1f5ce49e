SPECIFICATION FairSpec
CONSTANTS
    Apps = {a1, a2}
    Deployments = {d1, d2}
    Handlers = {h1, h2}
    ShortIds = {s1, s2}
    Stamps = {1, 2}
    CreatingTimeout = 1
    MaxClock = 4
    None = None
INVARIANTS
    AppShortIdUnique
PROPERTIES
    ImplementsGate
    DeployingEnds
\* Every client has been served: nothing is left to do.
CHECK_DEADLOCK FALSE
