SPECIFICATION MCSpec
CONSTANTS
    Deployments = {d1, d2, d3}
    Pollers = {p1, p2}
    Ends = {"SUCCEEDED", "STATE_UNSPECIFIED"}
    MaxCrashes = 1
    None = None
SYMMETRY MCSymmetry
INVARIANTS
    TypeOK
    IndInv
    OneDeployingUnlessLate
    DeployingNeverSkipped
    SkippedForNewer
    DeployingIsCurrent
PROPERTIES
    OutcomeIsFinal
    PollsAreAtomic
\* Every deployment has been put and has ended: nothing is left to do.
CHECK_DEADLOCK FALSE
