------------------------- MODULE MCDeploymentQueue -------------------------
(* Small instances of DeploymentQueue. *)
EXTENDS QueueAtomic, TLC

\* Calls differ by nothing but their names.
MCSymmetry == Permutations(Deployments) \cup Permutations(Pollers)

\* Two kinds of reachable states to start from.  An app whose first deployments
\* are PENDING, and no call left to die: the last is put behind them.
MCQueued(d1, d2) ==
    LET queued == {d1, d2}
        at == [d \in Deployments |-> IF d = d1 THEN 1 ELSE IF d = d2 THEN 2 ELSE 0]
    IN  /\ app = [state |-> "CREATED", deploying |-> None, architecture |-> None]
        /\ deployment = [d \in Deployments |-> IF d \in queued
                THEN [state |-> "PENDING", createdAt |-> at[d], execution |-> TRUE]
                ELSE None]
        /\ execution = [d \in Deployments |-> IF d \in queued THEN "ACTIVE" ELSE None]
        /\ put = [d \in Deployments |->
                [pc |-> IF d \in queued THEN "done" ELSE "stamp", createdAt |-> at[d]]]
        /\ now = 2
        /\ crashes = MaxCrashes

\* A new app, and one call of putDeployment that has died: it does nothing.
MCNew(d1) ==
    /\ app = None
    /\ deployment = [d \in Deployments |-> None]
    /\ execution = [d \in Deployments |-> None]
    /\ put = [d \in Deployments |->
            [pc |-> IF d = d1 THEN "crashed" ELSE "app", createdAt |-> 0]]
    /\ now = 0
    /\ crashes = 0

MCInit ==
    /\ \E d, e \in Deployments : d # e /\ (MCQueued(d, e) \/ MCNew(d))
    /\ poll = [p \in Pollers |-> NoPoll]
    /\ late = {}
    /\ overwritten = FALSE

MCSpec == MCInit /\ [][Next]_vars

=============================================================================
