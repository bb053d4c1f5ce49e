------------------------- MODULE DeploymentQueueInv -------------------------
(***************************************************************************)
(* The inductive invariant of DeploymentQueue.  What a query answered is   *)
(* used in a transaction that does not protect it; the invariant says what *)
(* of the answer is still true by then.  It rests on one fact: a           *)
(* deployment that has left PENDING, or the running states, never returns. *)
(***************************************************************************)
EXTENDS DeploymentQueue

Exists(d) == deployment[d] # None
Is(d, states) == Exists(d) /\ deployment[d].state \in states
CreatedAt(d) == deployment[d].createdAt

\* e is behind d in the queue, or its document appeared when it should have
\* been before a more recent one.
Behind(e, d) == CreatedAt(d) < CreatedAt(e) \/ e \in late

\* The place of a call of putDeployment says which of its documents exist; no
\* two deployments have the same timestamp.
PutsOK ==
    \A d \in Deployments :
        /\ put[d].pc \in {"app", "create", "stamp"} => put[d].createdAt = 0
        /\ put[d].pc \in {"app", "create", "stamp", "set"} => ~Exists(d)
        /\ put[d].pc \in {"execute", "record", "done"} => Exists(d)
        /\ put[d].pc \in {"stamp", "set"} \/ Exists(d) => app # None
        /\ put[d].pc \in {"app", "create", "stamp", "set", "execute"} => execution[d] = None
        /\ put[d].pc \in {"record", "done"} => execution[d] # None
        /\ Exists(d) => 0 < CreatedAt(d) /\ CreatedAt(d) = put[d].createdAt
        /\ Exists(d) /\ deployment[d].execution => execution[d] # None
        /\ put[d].createdAt <= now
        /\ put[d].pc = "set" => 0 < put[d].createdAt

\* No two deployments have one timestamp.
StampsDiffer ==
    \A d, e \in Deployments :
        put[d].createdAt = put[e].createdAt => d = e \/ put[d].createdAt = 0

\* The outcome of a deployment is that of its execution, which has ended.
OutcomesTrue ==
    \A d \in Deployments :
        Is(d, {"DEPLOYED", "FAILED", "CANCELLED"}) =>
            /\ execution[d] \notin {None, "ACTIVE"}
            /\ deployment[d].state = Outcome(execution[d])

\* What a poll has listed is still worth writing.
ListedOK ==
    \A p \in Pollers : \A d \in poll[p].listed :
        /\ Exists(d) /\ deployment[d].execution
        /\ poll[p].pc = "write" => execution[d] # "ACTIVE"

\* The deployment of an app was let through, and what a transaction on the app
\* has seen of it, it still has.
AppOK ==
    /\ app # None /\ app.deploying # None => Exists(app.deploying)
    /\ \A p \in Pollers : poll[p].pc = "commitApp" =>
          /\ poll[p].seenApp # None /\ poll[p].seenApp.deploying # None
          /\ poll[p].seen # None /\ poll[p].seen.state \in EndStates
          /\ Is(poll[p].seenApp.deploying, EndStates)

\* What a transaction on the app has seen is the outcome of its deployment.
SeenTrue ==
    \A p \in Pollers : poll[p].pc = "commitApp" =>
        Is(poll[p].seenApp.deploying, {poll[p].seen.state} \ {"SKIPPED"})

\* An app shows what became of the deployment that was let through last, and its
\* architecture is that of one that was deployed.
Tells(shown) ==
    /\ shown.state = "CREATED" => shown.deploying = None /\ shown.architecture = None
    /\ shown.state = "DEPLOYING" => shown.deploying # None
    /\ shown.state = "DEPLOYED" => shown.deploying = None /\ shown.architecture # None
    /\ shown.state \in {"FAILED", "CANCELLED"} =>
          shown.deploying # None /\ Is(shown.deploying, {shown.state})
    /\ shown.architecture # None => Is(shown.architecture, {"DEPLOYED"})

\* getApp tells the truth: the app is written with the outcome of its deployment,
\* read outside the transaction that writes it.
AppTellsOutcome == app # None => Tells(app)

\* An execution is that of a deployment in the queue.
ExecutionsQueued ==
    \A d \in Deployments : execution[d] # None => Exists(d)

\* A deployment without a recorded execution, which no poll gets past, is being
\* put, or its call has died.
BlockedByPut ==
    \A d \in Deployments : Exists(d) /\ ~deployment[d].execution =>
        put[d].pc \in {"execute", "record", "crashed"}

\* The second case, when all polls have been answered.
Stuck ==
    /\ \E d \in Deployments :
          Is(d, RunningStates) /\ ~deployment[d].execution /\ put[d].pc = "crashed"
    /\ \A p \in Pollers : poll[p].pc = "idle"

\* From then on getRunningDeployments rejects every poll: no deployment of the
\* app ever changes its state again, whatever its execution comes to.
StaysStuck ==
    [][Stuck => /\ Stuck'
                /\ \A d \in Deployments :
                      Exists(d) => deployment'[d].state = deployment[d].state]_vars

\* getDeployment alone looks at the queue.
TargetsOK ==
    \A p \in Pollers : poll[p].pc \in {"check", "commit"} => poll[p].target # None

\* What a transaction on a PENDING deployment has been told of its place is
\* still true as long as the deployment is PENDING: all others that run are
\* behind the first one, and there is one behind what is not the last.
PlacesStand ==
    \A p \in Pollers : LET d == poll[p].target IN poll[p].pc = "commit" =>
        /\ poll[p].seen # None /\ poll[p].seen.state = "PENDING"
        /\ Exists(d)
        /\ Is(d, {"PENDING"}) /\ poll[p].first = TRUE =>
              \A e \in Deployments :
                  Is(e, RunningStates) => e = d \/ Behind(e, d)
        /\ Is(d, {"PENDING"}) /\ poll[p].last = FALSE =>
              \E e \in Deployments : Exists(e) /\ CreatedAt(d) < CreatedAt(e)

\* All that runs is behind what is DEPLOYING.
DeployingFirst ==
    \A d, e \in Deployments :
        Is(d, {"DEPLOYING"}) /\ Is(e, RunningStates) => e = d \/ Behind(e, d)

\* The inductive invariant of the queue of an app: what a poll has read and not
\* yet acted on, whatever putDeployment and the other polls do meanwhile.
IndInv ==
    /\ TypeOK
    /\ PutsOK
    /\ StampsDiffer
    /\ OutcomesTrue
    /\ ListedOK
    /\ AppOK
    /\ SeenTrue
    /\ AppTellsOutcome
    /\ ExecutionsQueued
    /\ BlockedByPut
    /\ TargetsOK
    /\ PlacesStand
    /\ DeployingFirst
    /\ DeployingNeverSkipped
    /\ SkippedForNewer
    /\ DeployingIsCurrent

=============================================================================
