SPECIFICATION FairSpec
CONSTANTS
    Deployments = {d1, d2}
    Pollers = {p1}
    Ends = {"SUCCEEDED", "FAILED"}
    MaxCrashes = 1
    None = None
PROPERTIES
    FailureIsSeen
\* Every deployment has been put and has ended: nothing is left to do.
CHECK_DEADLOCK FALSE
