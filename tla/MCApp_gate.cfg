SPECIFICATION Spec
CONSTANTS
    Apps = {a1}
    Deployments = {d1, d2, d3}
    Handlers = {h1, h2, h3}
    ShortIds = {s1}
    Stamps = {1, 2, 3}
    CreatingTimeout = 0
    MaxClock = 2
    None = None
SYMMETRY MCSymmetry
INVARIANTS
    TypeOK
    IndInv
    PlanBuiltOnPredecessor
    AtMostOneExecution
    OverlapOnlyIfGivenUp
PROPERTIES
    CancelledAppIsFrozen
\* Every client has been served: nothing is left to do.
CHECK_DEADLOCK FALSE
