------------------------------- MODULE AppInv -------------------------------
(***************************************************************************)
(* The inductive invariant of App: what every step of putApp, its clients  *)
(* and the executions preserves, and from which the safety properties of   *)
(* App follow (App_proofs).                                                *)
(***************************************************************************)
EXTENDS App

\* The last deployment committed.
Newest(a) == history[a][Len(history[a])]

\* The ghost history of an app and its document speak of the same deployment.
AppDocIsNewest ==
    \A a \in Apps :
        /\ appDoc[a] = None <=> history[a] = <<>>
        /\ appDoc[a] # None =>
              /\ appDoc[a].deploymentId = Newest(a)
              /\ appDoc[a].deployedAt = plan[Newest(a)].deployedAt

\* The committed deployments were PUT to that app, each at its place.
HistoryIsALine ==
    \A a \in Apps : \A i \in 1 .. Len(history[a]) :
        /\ plan[history[a][i]] # None
        /\ plan[history[a][i]].app = a
        /\ plan[history[a][i]].base = i - 1
        /\ deploymentDoc[history[a][i]] # None

\* No two clients stamp alike.
StampsDiffer ==
    \A d, e \in Deployments :
        /\ plan[d] # None
        /\ plan[e] # None
        /\ plan[d].deployedAt = plan[e].deployedAt
        => d = e

\* A deployment point names the deployment a plan was computed after.
PointNamesBase ==
    \A d \in Deployments : plan[d] # None =>
        LET a == plan[d].app
            n == plan[d].base
        IN  /\ n <= Len(history[a])
            /\ n = 0 => plan[d].deploymentPoint = 0
            /\ n > 0 => plan[d].deploymentPoint = plan[history[a][n]].deployedAt

\* The execution a deployment document names is an execution of it.
Names(d, deployment) ==
    /\ deployment # None
    /\ deployment.execution # "CREATING"
    => /\ execution[deployment.execution] # None
       /\ execution[deployment.execution].deploymentId = d

DocsNameExecutions == \A d \in Deployments : Names(d, deploymentDoc[d])

\* What a handler holds between its reads and its writes: the app it read is
\* the one its plan was computed from, and the deployment it is about to
\* replace has ended, uncancelled, unless its execution is not recorded.
HandlerOK(t) ==
    /\ t.pc # "idle" => /\ t.deploymentId \in Deployments
                        /\ plan[t.deploymentId] # None
    /\ t.pc \in {"read", "naming", "ready"} =>
          PlanValid(t.readApp, plan[t.deploymentId].deploymentPoint)
    /\ t.pc = "naming" => t.readApp = None
    /\ t.pc = "ready" => t.appShortId # None
    /\ t.readApp # None => Names(t.readApp.deploymentId, t.readDeployment)
    /\ t.pc = "ready" /\ t.readApp # None =>
          /\ t.appShortId = t.readApp.appShortId
          /\ t.readDeployment # None /\ t.readDeployment.execution # "CREATING" =>
                execution[t.readDeployment.execution].state
                    \notin {"ACTIVE", "CANCELLED"}

HandlersOK == \A h \in Handlers : HandlerOK(handler[h])

\* A handler past its transaction is the only one of its deployment, which is
\* in the history.
CommittedOnce ==
    /\ \A h \in Handlers : handler[h].pc \in AfterCommit =>
          \E i \in 1 .. Len(history[AppOf(h)]) :
              history[AppOf(h)][i] = handler[h].deploymentId
    /\ \A g, h \in Handlers :
          /\ handler[g].pc \in AfterCommit
          /\ handler[h].pc \in AfterCommit
          /\ handler[g].deploymentId = handler[h].deploymentId
          => g = h

\* A handler has an execution once it has created it; until the name is
\* recorded its deployment is CREATING, and current or given up.
ExecutionsFollowCommits ==
    \A h \in Handlers :
        /\ execution[h] # None =>
              /\ handler[h].pc \in {"created", "done", "crashed"}
              /\ execution[h].deploymentId = handler[h].deploymentId
        /\ handler[h].pc = "created" => execution[h] # None
        /\ handler[h].pc \in {"committed", "created"} =>
              LET d == handler[h].deploymentId IN
              /\ deploymentDoc[d] # None
              /\ deploymentDoc[d].execution = "CREATING"
              /\ appDoc[AppOf(h)].deploymentId = d \/ d \in givenUp

\* What ties the documents, the handlers in their transactions, the executions
\* and the order of the commits together.
LineInv ==
    /\ TypeOK
    /\ AppDocIsNewest
    /\ HistoryIsALine
    /\ StampsDiffer
    /\ PointNamesBase
    /\ DocsNameExecutions
    /\ HandlersOK
    /\ CommittedOnce
    /\ ExecutionsFollowCommits
    /\ OverlapOnlyIfGivenUp
    /\ AppShortIdUnique

\* The elements of an app are those of its own deployments.
ElementsAreOwn ==
    \A a \in Apps : \A e \in architecture[a] : plan[e] # None /\ plan[e].app = a

\* Only executions call updateState, and one that succeeded had an answer.
SuccessesWritten ==
    \A h \in sent : /\ execution[h] # None
                    /\ execution[h].state = "SUCCEEDED" => Answered(h)

\* An execution of d is over, and was neither cancelled nor a success.
Unsuccessful(d) ==
    \E h \in Handlers : /\ execution[h] # None
                        /\ execution[h].deploymentId = d
                        /\ execution[h].state \in {"FAILED", "STATE_UNSPECIFIED"}

\* A deployment whose elements are missing from a plan, and may come late: it
\* was given up, or executed without success.
MayComeLate(d) == d \in givenUp \/ Unsuccessful(d)

\* What has been written to an app since a plan was computed was written by the
\* deployment that was the newest then, by a later one, or by one whose calls
\* may come late.
PlansMissOnlyLater ==
    \A d \in Deployments : plan[d] # None =>
        LET a == plan[d].app
        IN  \A e \in architecture[a] \ plan[d].architecture :
                \/ MayComeLate(e)
                \/ \E i \in 1 .. Len(history[a]) : i >= plan[d].base /\ history[a][i] = e

\* d has been executed, and that is over and was not cancelled.
Over(d) ==
    \E h \in Handlers : /\ execution[h] # None
                        /\ execution[h].deploymentId = d
                        /\ execution[h].state \notin {"ACTIVE", "CANCELLED"}

\* No deployment that was accepted is replaced without having been executed,
\* but for those whose execution was never recorded.
NoneDropped ==
    \A a \in Apps : \A i \in 1 .. Len(history[a]) :
        i < Len(history[a]) => Over(history[a][i]) \/ history[a][i] \in givenUp

\* The inductive invariant of App: the line, what its executions have written,
\* what the plans have missed of that, and what has become of those in it.
IndInv ==
    /\ LineInv
    /\ SuccessesWritten
    /\ ElementsAreOwn
    /\ PlansMissOnlyLater
    /\ NoneDropped

\* How far from fresh a plan can be when putApp accepts it: it may have missed
\* elements of the deployment it is built on, which was still running when it
\* was computed, and late ones of deployments that were given up or failed.
\* Whatever an older success has deployed, the plan has seen.
PlanSeesOlderSuccesses ==
    [][\A a \in Apps : history'[a] # history[a] =>
          \A e \in architecture[a] \ plan[Newest(a)'].architecture :
              /\ plan[e].app = a
              /\ MayComeLate(e) \/ (history[a] # <<>> /\ e = Newest(a))]_vars

=============================================================================
