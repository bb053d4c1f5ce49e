SPECIFICATION FairSpec
CONSTANTS
    svc = svc
    acc = acc
    lay = lay
    res = res
    oth = oth
    Steps = {svc, acc, lay, res, oth}
    Kind <- MCKind
    ServiceOf <- MCServiceOf
    Plan <- MCPlan
    MaxTries = 2
    MaxLost = 2
    Main = Main
    None = None
INVARIANTS
    TypeOK
    IndInv
    FinishedHasElement
    UrlKnown
PROPERTIES
    RecordedAccountStays
    ImplementsPlan
    ExecutionEnds
\* The execution has ended and nothing is in flight.
CHECK_DEADLOCK FALSE
