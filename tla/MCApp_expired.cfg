SPECIFICATION Spec
CONSTANTS
    Apps = {a1}
    Deployments = {d1}
    Handlers = {h1}
    ShortIds = {s1}
    Stamps = {1}
    CreatingTimeout = 1
    MaxClock = 3
    None = None
SYMMETRY MCSymmetry
INVARIANTS
    ExpiredMeansNotStarted
\* Every client has been served: nothing is left to do.
CHECK_DEADLOCK FALSE
