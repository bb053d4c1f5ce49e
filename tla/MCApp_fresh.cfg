SPECIFICATION Spec
CONSTANTS
    Apps = {a1}
    Deployments = {d1, d2}
    Handlers = {h1, h2}
    ShortIds = {s1}
    Stamps = {1, 2}
    CreatingTimeout = 1
    MaxClock = 2
    None = None
SYMMETRY MCSymmetry
PROPERTIES
    PlanIsFresh
\* Every client has been served: nothing is left to do.
CHECK_DEADLOCK FALSE
