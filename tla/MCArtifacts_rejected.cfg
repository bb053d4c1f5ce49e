SPECIFICATION MCSpec
CONSTANTS
    Calls = {c1, c2}
    Files = {f1, f2}
    Contents = {v1, v2}
    Garbage = Garbage
    None = None
INVARIANTS
    RejectedOnlyIfDifferent
\* Every call has been made and every job has ended: nothing is left to do.
CHECK_DEADLOCK FALSE
